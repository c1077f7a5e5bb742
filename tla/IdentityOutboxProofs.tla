------------------------- MODULE IdentityOutboxProofs -------------------------
(***************************************************************************)
(* Theorems about IdentityOutbox, for any accounts, workers, batch and     *)
(* page sizes.                                                             *)
(***************************************************************************)
EXTENDS IdentityOutbox, FiniteSetTheorems, WellFoundedInduction, TLAPS

-----------------------------------------------------------------------------
(* Rows, and what has been done with them *)

\* The rows of an account whose transactions have committed.
Of(u) == {r \in Committed : event[r].user = u}
Done(r) == status[r] \in {"published", "purged"}
Held(w) == worker[w].batch

\* A row is numbered by its transaction and ranked when that commits.
RowsAreRanked ==
    /\ \A r \in Rows :
          /\ r > begun => status[r] = "absent"
          /\ rank[r] > 0 <=> status[r] \notin {"absent", "open"}
          /\ rank[r] <= Cardinality(Committed)
          /\ status[r] = "open" =>
                event[r].op \in AccountOps /\ Admits(event[r].op, event[r].base)
    /\ waiting \subseteq Committed

\* Workers hold committed rows, and mark one that they have sent.
HeldAreCommitted ==
    \A w \in Workers :
        /\ Held(w) \subseteq Committed
        /\ worker[w].pc = "idle" => Held(w) = {}
        /\ worker[w].pc = "mark" => Current(w) \in sent

SentAreCommitted == \A r \in sent : r \in Committed /\ Fit(r)

\* The inductive invariant of the delivery.
DeliveryInv ==
    /\ TypeOK /\ RowsAreRanked /\ HeldAreCommitted /\ SentAreCommitted
    /\ PublishedRowsWereSent

-----------------------------------------------------------------------------
(* The order of an account's events *)

ViewsAreSent ==
    /\ \A u \in Users : view[u] # 0 => view[u] \in sent /\ event[view[u]].user = u
    /\ \A r \in sent : view[event[r].user] # 0

\* Of an account that nothing has disturbed: the rows were committed in the order
\* of their numbers, none has failed, one worker has those that are in hand, and
\* whatever is in hand or sent comes after all that is not yet published.
InOrder(u) ==
    /\ \A r, s \in Of(u) : r < s => rank[r] < rank[s]
    /\ \A r \in Of(u) : r \notin waiting /\ (Done(r) \/ status[r] = "pending")
    /\ \A w \in Workers : \A s \in Of(u) :
          s \in Held(w) =>
             /\ status[s] = "pending"
             /\ s = Current(w) => worker[w].pc # "backoff"
             /\ \A r \in Of(u) : r < s => r \in Held(w) \/ Done(r)
             /\ \A x \in Workers : \A r \in Of(u) : r \in Held(x) => w = x
    /\ \A s \in Of(u) : s \in sent =>
          /\ s <= view[u]
          /\ \A r \in Of(u) : r < s => Done(r)

OrderInv == ViewsAreSent /\ \A u \in Users \ disturbed : InOrder(u)

-----------------------------------------------------------------------------
(* What the events of an account tell *)

\* The last row of an account tells its state, unless it was misled; a page that
\* was read holds accounts that are there.
Tells(u) ==
    /\ Of(u) = {} => account[u] = "none"
    /\ \A r \in Of(u) :
          (\A s \in Of(u) : s <= r) => (SaysPresent(r) <=> account[u] = "present")

TellInv ==
    /\ \A u \in Users : u \notin disturbed /\ u \notin misled => Tells(u)
    /\ \A u \in replay.listed : account[u] = "present" \/ u \in misled

-----------------------------------------------------------------------------
(* The pages of a replay *)

Birth(r, u) == event[r].op = "register" /\ event[r].user = u
Before(u) == {v \in Listed : Born(v) > Born(u)}

\* An account is born once, and stays; who has read it, has read it there.
BornOnce ==
    /\ \A r \in Committed, s \in Committed, u \in Users : Birth(r, u) /\ Birth(s, u) => r = s
    /\ \A u \in Users : account[u] = "none" <=> ~\E r \in Committed : Birth(r, u)
    /\ \A r \in Rows :
          status[r] = "open" /\ event[r].op # "register" => account[event[r].user] # "none"

\* Who was there all along is on a page that is yet to come.
PagesToCome ==
    /\ replay.page >= 1
    /\ replay.pc \in {"list", "insert"} => replay.owed \subseteq Listed
    /\ ~replay.shifted =>
       /\ replay.pc = "list" =>
             \A u \in replay.owed \ replay.done :
                (replay.page - 1) * PageSize <= Cardinality(Before(u))
       /\ replay.pc = "insert" =>
             /\ \A u \in replay.owed \ (replay.done \union replay.listed) :
                   replay.page * PageSize <= Cardinality(Before(u))
             /\ Cardinality(replay.listed) < PageSize =>
                   replay.owed \subseteq replay.done \union replay.listed
       /\ replay.pc = "done" => replay.owed \subseteq replay.done

PageInv == BornOnce /\ PagesToCome

\* A write that is under way has read an account that is there, or was.
EditsOfBorn == \A e \in edits : account[e.user] # "none"

-----------------------------------------------------------------------------
(* Types *)

LEMMA Least ==
    ASSUME NEW S \in SUBSET Nat, S # {}
    PROVE  \E x \in S : \A y \in S : x <= y
<1>. DEFINE R == {ss \in Nat \X Nat : ss[1] < ss[2]}
<1>1. IsWellFoundedOn(R, Nat)
  BY NatLessThanWellFounded DEF OpToRel
<1>2. \A x, y \in Nat : y < x => <<y, x>> \in R
  OBVIOUS
<1>. HIDE DEF R
<1>3. PICK x \in S : \A y \in S : <<y, x>> \notin R
  BY <1>1, WFMin
<1>4. ASSUME NEW y \in S PROVE x <= y
  <2>1. ~(y < x)
    BY <1>2, <1>3
  <2>. QED
    BY <2>1
<1>. QED
  BY <1>4

LEMMA FirstOfBatch ==
    ASSUME NEW S \in SUBSET Nat, S # {}
    PROVE  Min(S) \in S /\ \A y \in S : Min(S) <= y
<1>1. \E x \in S : \A y \in S : x =< y
  BY Least
<1>. QED
  BY <1>1 DEF Min

LEMMA Numbers ==
    /\ MaxRows \in Nat /\ MaxFaults \in Nat
    /\ BatchSize \in Nat \ {0} /\ PageSize \in Nat \ {0}
    /\ Rows \subseteq Nat /\ 0 \notin Rows /\ \A r \in Rows : r > 0 /\ r <= MaxRows
    /\ IsFiniteSet(Rows) /\ Cardinality(Rows) = MaxRows
    /\ IsFiniteSet(Users)
<1>1. MaxRows \in Nat
  BY OutboxAssumption
<1>2. IsFiniteSet(1..MaxRows) /\ Cardinality(1..MaxRows) = MaxRows
  BY <1>1, FS_Interval
<1>. QED
  BY <1>1, <1>2, OutboxAssumption DEF Rows

LEMMA Types ==
    ASSUME TypeOK
    PROVE  /\ account \in [Users -> States] /\ edits \subseteq Edit
           /\ begun \in Nat /\ begun <= MaxRows
           /\ event \in [Rows -> Event] /\ status \in [Rows -> Statuses]
           /\ waiting \subseteq Rows /\ worker \in [Workers -> Worker]
           /\ redis \in BOOLEAN /\ sent \subseteq Rows
           /\ view \in [Users -> 0..MaxRows] /\ replay \in Replay /\ faults \in 0..MaxFaults
           /\ rank \in [Rows -> 0..MaxRows] /\ disturbed \subseteq Users /\ misled \subseteq Users
           /\ Committed \subseteq Rows /\ IsFiniteSet(Committed)
           /\ Cardinality(Committed) \in Nat /\ Cardinality(Committed) <= MaxRows
           /\ \A r \in Rows :
                 /\ event[r].op \in AccountOps \union {"replay"}
                 /\ event[r].user \in Users /\ event[r].base \in States
                 /\ rank[r] \in Nat /\ r \in Nat /\ (rank[r] > 0 <=> r \in Committed)
           /\ \A w \in Workers :
                 /\ Held(w) \subseteq Rows
                 /\ worker[w].pc \in {"idle", "publish", "mark", "fail", "backoff"}
                 /\ worker[w].pc # "idle" => Held(w) # {}
<1>1. Committed \subseteq Rows /\ IsFiniteSet(Committed)
      /\ Cardinality(Committed) \in Nat /\ Cardinality(Committed) <= MaxRows
  <2>1. Committed \subseteq Rows
    BY DEF Committed
  <2>. QED
    BY <2>1, Numbers, FS_Subset, FS_CardinalityType
<1>2. \A r \in Rows :
         /\ event[r].op \in AccountOps \union {"replay"}
         /\ event[r].user \in Users /\ event[r].base \in States
  BY DEF TypeOK, Event
<1>3. \A r \in Rows : rank[r] \in Nat /\ r \in Nat /\ (rank[r] > 0 <=> r \in Committed)
  BY Numbers DEF TypeOK, Committed
<1>4. \A w \in Workers :
         /\ Held(w) \subseteq Rows
         /\ worker[w].pc \in {"idle", "publish", "mark", "fail", "backoff"}
         /\ worker[w].pc # "idle" => Held(w) # {}
  BY DEF TypeOK, Worker, Held
<1>5. begun \in Nat /\ begun <= MaxRows
  BY Numbers DEF TypeOK
<1>. QED
  BY <1>1, <1>2, <1>3, <1>4, <1>5 DEF TypeOK

\* The row a busy worker is at is the least it holds.
LEMMA CurrentIsHeld ==
    ASSUME TypeOK, NEW w \in Workers, worker[w].pc # "idle"
    PROVE  /\ Current(w) \in Held(w) /\ Current(w) \in Rows
           /\ \A r \in Held(w) : Current(w) <= r
<1>1. Held(w) \in SUBSET Nat /\ Held(w) # {} /\ Held(w) \subseteq Rows
  BY Types, Numbers
<1>2. Current(w) = Min(Held(w))
  BY DEF Current, Held
<1>. QED
  BY <1>1, <1>2, FirstOfBatch

-----------------------------------------------------------------------------
(* What a worker goes to *)

Moves(w, x) ==
    /\ x \in Worker /\ worker' = [worker EXCEPT ![w] = x]
    /\ x.pc = "idle" <=> x.batch = {}

LEMMA Going ==
    ASSUME TypeOK, NEW w \in Workers, worker[w].pc # "idle",
           NEW pc \in {"publish", "mark", "fail", "backoff"}, Goto(w, pc)
    PROVE  \E x : Moves(w, x) /\ x.pc = pc /\ x.batch = Held(w)
<1>. DEFINE x == [worker[w] EXCEPT !.pc = pc]
<1>1. worker[w] \in Worker /\ Held(w) = worker[w].batch /\ Held(w) # {}
  BY Types DEF Held
<1>2. x \in Worker /\ x.pc = pc /\ x.batch = worker[w].batch
  BY <1>1 DEF Worker
<1>3. worker' = [worker EXCEPT ![w] = x]
  BY DEF Goto
<1>. HIDE DEF x
<1>. QED
  BY <1>1, <1>2, <1>3 DEF Moves

LEMMA Proceeding ==
    ASSUME TypeOK, NEW w \in Workers, Proceed(w)
    PROVE  \E x : /\ Moves(w, x) /\ x.pc \in {"idle", "publish"}
                  /\ x.batch = Held(w) \ {Current(w)}
<1>. DEFINE rest == Held(w) \ {Current(w)}
            x == [pc |-> IF rest = {} THEN "idle" ELSE "publish", batch |-> rest]
<1>1. rest \subseteq Rows
  BY Types
<1>2. x.pc \in {"idle", "publish"} /\ x.batch = rest /\ (x.pc = "idle" <=> rest = {})
  OBVIOUS
<1>3. x \in Worker
  BY <1>1 DEF Worker
<1>4. worker' = [worker EXCEPT ![w] = x]
  BY DEF Proceed, Held
<1>. HIDE DEF x
<1>. QED
  BY <1>2, <1>3, <1>4 DEF Moves

LEMMA Ticking ==
    ASSUME TypeOK, NEW w \in Workers, Tick(w)
    PROVE  \E x : /\ Moves(w, x) /\ x.pc \in {"idle", "publish"}
                  /\ x.batch = Earliest(Due)
<1>. DEFINE batch == Earliest(Due)
            x == [pc |-> IF batch = {} THEN "idle" ELSE "publish", batch |-> batch]
<1>1. batch \subseteq Rows
  BY DEF Earliest, Due
<1>2. worker' = [worker EXCEPT ![w] = x]
  BY DEF Tick
<1>. HIDE DEF batch
<1>3. x.pc \in {"idle", "publish"} /\ x.batch = batch /\ (x.pc = "idle" <=> batch = {})
  OBVIOUS
<1>4. x \in Worker
  BY <1>1 DEF Worker
<1>. HIDE DEF x
<1>. QED
  BY <1>2, <1>3, <1>4 DEF Moves, batch

LEMMA Interrupted ==
    ASSUME NEW w \in Workers, Interrupt(w)
    PROVE  \E x : Moves(w, x) /\ x.pc = "idle" /\ x.batch = {}
<1>1. AtRest \in Worker /\ AtRest.pc = "idle" /\ AtRest.batch = {}
  BY DEF AtRest, Worker
<1>. QED
  BY <1>1 DEF Interrupt, Moves

-----------------------------------------------------------------------------
(* What is published was sent *)

\* A worker goes to x, and nothing committed or sent is taken back.
LEMMA HeldMove ==
    ASSUME TypeOK, HeldAreCommitted, NEW w \in Workers, NEW x, Moves(w, x),
           Committed \subseteq Committed', sent \subseteq sent',
           x.batch \subseteq Committed', x.pc = "mark" => Min(x.batch) \in sent'
    PROVE  /\ HeldAreCommitted' /\ worker' \in [Workers -> Worker]
           /\ \A v \in Workers : worker'[v].pc # "idle" => worker'[v].batch # {}
<1>1. \A v \in Workers : worker'[v] = IF v = w THEN x ELSE worker[v]
  BY Types DEF Moves
<1>2. worker' \in [Workers -> Worker]
  BY Types DEF Moves
<1>3. ASSUME NEW v \in Workers
      PROVE  /\ Held(v)' \subseteq Committed'
             /\ worker'[v].pc = "idle" <=> Held(v)' = {}
             /\ worker'[v].pc = "mark" => Current(v)' \in sent'
  <2>1. CASE v = w
    BY <1>1, <2>1 DEF Moves, Held, Current
  <2>2. CASE v # w
    <3>1. worker'[v] = worker[v]
      BY <1>1, <2>2
    <3>2. Held(v)' = Held(v) /\ Current(v)' = Current(v)
      BY <3>1 DEF Held, Current
    <3>. QED
      BY <3>1, <3>2, Types DEF HeldAreCommitted
  <2>. QED
    BY <2>1, <2>2
<1>. QED
  BY <1>2, <1>3 DEF HeldAreCommitted, Held

LEMMA HeldStay ==
    ASSUME TypeOK, HeldAreCommitted, worker' = worker,
           Committed \subseteq Committed', sent \subseteq sent'
    PROVE  /\ HeldAreCommitted' /\ worker' \in [Workers -> Worker]
           /\ \A v \in Workers : worker'[v].pc # "idle" => worker'[v].batch # {}
<1>1. \A v \in Workers : Held(v)' = Held(v) /\ Current(v)' = Current(v)
  BY DEF Held, Current
<1>. QED
  BY <1>1, Types DEF HeldAreCommitted, Held

\* The table keeps its rows; of a committed one the status may change.
LEMMA RowsStay ==
    ASSUME TypeOK, RowsAreRanked, SentAreCommitted, PublishedRowsWereSent,
           UNCHANGED <<begun, event, rank>>, sent \subseteq sent',
           \A r \in sent' : r \in sent \/ (r \in Committed /\ Fit(r)),
           waiting' \subseteq Committed,
           \A r \in Rows : \/ status'[r] = status[r]
                           \/ /\ r \in Committed /\ status'[r] \notin {"absent", "open"}
                              /\ status'[r] \in {"published", "purged"} => r \in sent
    PROVE  /\ RowsAreRanked' /\ SentAreCommitted' /\ PublishedRowsWereSent'
           /\ Committed' = Committed
<1>1. Committed' = Committed /\ \A r \in Rows : Fit(r)' = Fit(r)
  BY DEF Committed, Fit
<1>2. RowsAreRanked'
  <2>1. ASSUME NEW r \in Rows
        PROVE  /\ r > begun' => status'[r] = "absent"
               /\ rank'[r] > 0 <=> status'[r] \notin {"absent", "open"}
               /\ rank'[r] <= Cardinality(Committed)
               /\ status'[r] = "open" =>
                     event'[r].op \in AccountOps /\ Admits(event[r].op, event[r].base)
    <3>1. rank[r] > 0 <=> r \in Committed
      BY Types
    <3>. QED
      BY <3>1 DEF RowsAreRanked
  <2>2. \A r \in Rows : Admits(event[r].op, event[r].base)' = Admits(event[r].op, event[r].base)
    BY DEF Admits
  <2>. QED
    BY <1>1, <2>1, <2>2 DEF RowsAreRanked
<1>3. SentAreCommitted'
  BY <1>1, Types DEF SentAreCommitted
<1>4. PublishedRowsWereSent'
  BY DEF PublishedRowsWereSent
<1>. QED
  BY <1>1, <1>2, <1>3, <1>4

\* What is left of the types when the table, the workers and the stream are typed.
OtherTypes ==
    /\ redis \in BOOLEAN /\ replay \in Replay /\ faults \in 0..MaxFaults
    /\ disturbed \subseteq Users

TableAlone == UNCHANGED <<account, edits, begun, event, rank, misled>>

\* A step of a worker: rows are sent, and their status and time change.
LEMMA WorkKeeps ==
    ASSUME DeliveryInv, TableAlone, NEW w \in Workers, NEW x, Moves(w, x),
           x.batch \subseteq Committed, x.pc = "mark" => Min(x.batch) \in sent',
           OtherTypes', status' \in [Rows -> Statuses],
           waiting' \subseteq Committed, sent \subseteq sent',
           \A r \in sent' : r \in sent \/ (r \in Committed /\ Fit(r)),
           view' \in [Users -> 0..MaxRows],
           \A r \in Rows : \/ status'[r] = status[r]
                           \/ /\ r \in Committed /\ status'[r] \notin {"absent", "open"}
                              /\ status'[r] \in {"published", "purged"} => r \in sent
    PROVE  DeliveryInv'
<1>1. UNCHANGED <<account, edits, begun, event, rank, misled>>
  BY DEF TableAlone
<1>2. /\ RowsAreRanked' /\ SentAreCommitted' /\ PublishedRowsWereSent'
      /\ Committed' = Committed
  BY <1>1, RowsStay DEF DeliveryInv
<1>3. /\ HeldAreCommitted' /\ worker' \in [Workers -> Worker]
      /\ \A v \in Workers : worker'[v].pc # "idle" => worker'[v].batch # {}
  BY <1>2, HeldMove DEF DeliveryInv
<1>4. TypeOK'
  <2>1. waiting' \subseteq Rows /\ sent' \subseteq Rows
    BY Types DEF DeliveryInv
  <2>2. /\ account' \in [Users -> States] /\ edits' \subseteq Edit /\ begun' \in 0..MaxRows
        /\ event' \in [Rows -> Event] /\ rank' \in [Rows -> 0..MaxRows]
        /\ misled' \subseteq Users
    BY <1>1 DEF DeliveryInv, TypeOK
  <2>. QED
    BY <1>3, <2>1, <2>2 DEF TypeOK, OtherTypes
<1>. QED
  BY <1>2, <1>3, <1>4 DEF DeliveryInv

\* A step that leaves the workers and the stream where they are.
LEMMA AroundKeeps ==
    ASSUME DeliveryInv, TableAlone, UNCHANGED <<worker, sent, view>>,
           OtherTypes', status' \in [Rows -> Statuses], waiting' \subseteq waiting,
           \A r \in Rows : \/ status'[r] = status[r]
                           \/ /\ r \in Committed /\ status'[r] \notin {"absent", "open"}
                              /\ status'[r] \in {"published", "purged"} => r \in sent
    PROVE  DeliveryInv'
<1>1. UNCHANGED <<account, edits, begun, event, rank, misled>>
  BY DEF TableAlone
<1>2. waiting' \subseteq Committed
  BY DEF DeliveryInv, RowsAreRanked
<1>3. /\ RowsAreRanked' /\ SentAreCommitted' /\ PublishedRowsWereSent'
      /\ Committed' = Committed
  BY <1>1, <1>2, RowsStay DEF DeliveryInv
<1>4. /\ HeldAreCommitted' /\ worker' \in [Workers -> Worker]
      /\ \A v \in Workers : worker'[v].pc # "idle" => worker'[v].batch # {}
  BY <1>3, HeldStay DEF DeliveryInv
<1>5. TypeOK'
  <2>1. waiting' \subseteq Rows /\ sent' \subseteq Rows /\ view' \in [Users -> 0..MaxRows]
    BY <1>2, Types DEF DeliveryInv
  <2>2. /\ account' \in [Users -> States] /\ edits' \subseteq Edit /\ begun' \in 0..MaxRows
        /\ event' \in [Rows -> Event] /\ rank' \in [Rows -> 0..MaxRows]
        /\ misled' \subseteq Users
    BY <1>1 DEF DeliveryInv, TypeOK
  <2>. QED
    BY <1>4, <2>1, <2>2 DEF TypeOK, OtherTypes
<1>. QED
  BY <1>3, <1>4, <1>5 DEF DeliveryInv

LEMMA FaultsFit ==
    ASSUME TypeOK, faults < MaxFaults, faults' = faults + 1
    PROVE  faults' \in 0..MaxFaults
  BY Types, Numbers

\* A tick takes rows that are due, the earliest first.
LEMMA EarliestDue ==
    ASSUME TypeOK, RowsAreRanked
    PROVE  /\ Earliest(Due) \subseteq Due /\ Due \subseteq Committed
           /\ \A r \in Due, s \in Earliest(Due) : r < s => r \in Earliest(Due)
<1>1. Earliest(Due) \subseteq Due
  BY DEF Earliest
<1>2. Due \subseteq Committed
  BY Types DEF Due, RowsAreRanked
<1>3. ASSUME NEW r \in Due, NEW s \in Earliest(Due), r < s PROVE r \in Earliest(Due)
  <2>. DEFINE R == {k \in Due : k < r}
              S == {k \in Due : k < s}
  <2>1. R \subseteq S
    <3>1. \A k \in Due : k \in Nat
      BY <1>2, Types, Numbers
    <3>2. s \in Due
      BY <1>1
    <3>. QED
      BY <1>3, <3>1, <3>2
  <2>2. IsFiniteSet(S)
    <3>1. S \subseteq Committed
      BY <1>2
    <3>. QED
      BY <3>1, Types, FS_Subset
  <2>3. Cardinality(R) <= Cardinality(S) /\ Cardinality(R) \in Nat /\ Cardinality(S) \in Nat
    <3>. HIDE DEF R, S
    <3>. QED
      BY <2>1, <2>2, FS_Subset, FS_CardinalityType
  <2>4. Cardinality(S) < BatchSize
    BY <1>1 DEF Earliest
  <2>5. Cardinality(R) < BatchSize
    <3>. HIDE DEF R, S
    <3>. QED
      BY <2>3, <2>4, Numbers
  <2>. QED
    BY <2>5 DEF Earliest
<1>. QED
  BY <1>1, <1>2, <1>3

LEMMA SendTypes ==
    ASSUME TypeOK, RowsAreRanked, NEW r \in Committed, Send(r)
    PROVE  /\ sent' = sent \union {r} /\ Fit(r)
           /\ view' = [view EXCEPT ![event[r].user] = r]
           /\ view' \in [Users -> 0..MaxRows]
<1>1. r \in 0..MaxRows /\ event[r].user \in Users
  BY Types DEF Rows
<1>. QED
  BY <1>1, Types DEF Send

LEMMA SendingKeeps ==
    ASSUME DeliveryInv, NEW w \in Workers, Publish(w) \/ PublishAgain(w)
    PROVE  DeliveryInv'
<1>. USE DEF DeliveryInv
<1>0. PICK r : r = Current(w)
  OBVIOUS
<1>1. worker[w].pc = "publish" /\ worker[w].pc # "idle"
  BY DEF Publish, PublishAgain
<1>2. r \in Held(w) /\ r \in Committed
  BY <1>0, <1>1, CurrentIsHeld DEF HeldAreCommitted
<1>3. /\ TableAlone /\ UNCHANGED <<status, waiting, redis, replay, disturbed>> /\ Send(r)
  BY <1>0 DEF Publish, PublishAgain, tableVars, TableAlone
<1>4. faults' \in 0..MaxFaults
  BY FaultsFit, Types DEF Publish, PublishAgain
<1>5. OtherTypes'
  BY <1>3, <1>4, Types DEF OtherTypes
<1>6. /\ sent' = sent \union {r} /\ Fit(r) /\ view' \in [Users -> 0..MaxRows]
  BY <1>2, <1>3, SendTypes
<1>7. \E x : /\ Moves(w, x) /\ x.batch = Held(w)
             /\ x.pc = "mark" => Min(x.batch) \in sent'
  <2>1. CASE Publish(w)
    <3>1. PICK x : Moves(w, x) /\ x.pc = "mark" /\ x.batch = Held(w)
      BY <1>1, <2>1, Going DEF Publish
    <3>2. Min(x.batch) = r
      BY <1>0, <3>1 DEF Held, Current
    <3>. QED
      BY <1>6, <3>1, <3>2
  <2>2. CASE PublishAgain(w)
    <3>1. PICK x : x = worker[w]
      OBVIOUS
    <3>2. worker' = [worker EXCEPT ![w] = x] /\ x \in Worker /\ x.batch # {} /\ x.pc = "publish"
      BY <1>1, <2>2, <3>1, Types DEF PublishAgain, Held
    <3>3. Moves(w, x) /\ x.batch = Held(w)
      BY <3>1, <3>2 DEF Moves, Held
    <3>. QED
      BY <3>2, <3>3
  <2>. QED
    BY <2>1, <2>2
<1>8. Held(w) \subseteq Committed /\ status' \in [Rows -> Statuses] /\ waiting' \subseteq Committed
  BY <1>3, Types DEF HeldAreCommitted, RowsAreRanked
<1>. QED
  BY <1>2, <1>3, <1>5, <1>6, <1>7, <1>8, WorkKeeps

LEMMA TurningKeeps ==
    ASSUME DeliveryInv, NEW w \in Workers,
           Tick(w) \/ PublishFails(w) \/ MarkFails(w) \/ Interrupt(w)
    PROVE  DeliveryInv'
<1>. USE DEF DeliveryInv
<1>1. /\ TableAlone /\ UNCHANGED <<status, waiting, redis, sent, view, replay>>
  BY DEF Tick, PublishFails, MarkFails, Interrupt, tableVars, TableAlone
<1>2. faults' \in 0..MaxFaults
  BY FaultsFit, Types DEF Tick, PublishFails, MarkFails, Interrupt
<1>3. disturbed' \subseteq Users
  <2>1. CASE Tick(w)
    <3>1. \A r \in Earliest(Due) : event[r].user \in Users
      BY EarliestDue, Types
    <3>. QED
      BY <2>1, <3>1, Types DEF Tick
  <2>. QED
    BY <2>1, Types DEF PublishFails, MarkFails, Interrupt
<1>4. \E x : Moves(w, x) /\ x.batch \subseteq Committed /\ x.pc # "mark"
  <2>1. CASE Tick(w)
    <3>1. PICK x : Moves(w, x) /\ x.pc \in {"idle", "publish"} /\ x.batch = Earliest(Due)
      BY <2>1, Ticking
    <3>. QED
      BY <3>1, EarliestDue
  <2>2. CASE PublishFails(w) \/ MarkFails(w)
    <3>1. PICK x : Moves(w, x) /\ x.pc = "fail" /\ x.batch = Held(w)
      BY <2>2, Going DEF PublishFails, MarkFails
    <3>. QED
      BY <3>1 DEF HeldAreCommitted
  <2>3. CASE Interrupt(w)
    BY <2>3, Interrupted
  <2>. QED
    BY <2>1, <2>2, <2>3
<1>5. OtherTypes'
  BY <1>1, <1>2, <1>3, Types DEF OtherTypes
<1>6. /\ status' \in [Rows -> Statuses] /\ waiting' \subseteq Committed
      /\ view' \in [Users -> 0..MaxRows]
  BY <1>1, Types DEF RowsAreRanked
<1>. QED
  BY <1>1, <1>4, <1>5, <1>6, WorkKeeps

LEMMA MarkingKeeps ==
    ASSUME DeliveryInv, NEW w \in Workers, Mark(w) \/ MarkFailed(w) \/ Backoff(w)
    PROVE  DeliveryInv'
<1>. USE DEF DeliveryInv
<1>0. PICK r : r = Current(w)
  OBVIOUS
<1>1. worker[w].pc \in {"mark", "fail", "backoff"} /\ worker[w].pc # "idle"
  BY DEF Mark, MarkFailed, Backoff
<1>2. r \in Held(w) /\ r \in Committed /\ r \in Rows /\ Held(w) \subseteq Committed
      /\ (worker[w].pc = "mark" => r \in sent)
  BY <1>0, <1>1, CurrentIsHeld DEF HeldAreCommitted
<1>3. TableAlone /\ UNCHANGED <<redis, sent, view, replay, faults>>
  BY DEF Mark, MarkFailed, Backoff, tableVars, TableAlone
<1>4. disturbed' \subseteq Users /\ waiting' \subseteq Committed
  BY <1>0, <1>2, Types DEF Mark, MarkFailed, Backoff, RowsAreRanked
<1>5. /\ status' \in [Rows -> Statuses]
      /\ \A k \in Rows : \/ status'[k] = status[k]
                         \/ /\ k \in Committed /\ status'[k] \notin {"absent", "open"}
                            /\ status'[k] \in {"published", "purged"} => k \in sent
  <2>1. CASE Mark(w)
    <3>1. status' = [status EXCEPT ![r] = IF status[r] = "purged" THEN status[r] ELSE "published"]
      BY <1>0, <2>1 DEF Mark
    <3>2. worker[w].pc = "mark"
      BY <2>1 DEF Mark
    <3>. QED
      BY <1>2, <3>1, <3>2, Types DEF Statuses
  <2>2. CASE MarkFailed(w)
    <3>1. status' = [status EXCEPT ![r] = IF status[r] = "purged" THEN status[r] ELSE "failed"]
      BY <1>0, <2>2 DEF MarkFailed
    <3>. QED
      BY <1>2, <3>1, Types DEF Statuses
  <2>3. CASE Backoff(w)
    BY <2>3, Types DEF Backoff
  <2>. QED
    BY <2>1, <2>2, <2>3
<1>6. \E x : Moves(w, x) /\ x.batch \subseteq Committed /\ x.pc # "mark"
  <2>1. CASE Mark(w) \/ Backoff(w)
    <3>1. PICK x : /\ Moves(w, x) /\ x.pc \in {"idle", "publish"}
                   /\ x.batch = Held(w) \ {Current(w)}
      BY <2>1, Proceeding DEF Mark, Backoff
    <3>. QED
      BY <1>2, <3>1
  <2>2. CASE MarkFailed(w)
    <3>1. PICK x : Moves(w, x) /\ x.pc = "backoff" /\ x.batch = Held(w)
      BY <1>1, <2>2, Going DEF MarkFailed
    <3>. QED
      BY <1>2, <3>1
  <2>. QED
    BY <2>1, <2>2
<1>7. OtherTypes'
  BY <1>3, <1>4, Types DEF OtherTypes
<1>8. view' \in [Users -> 0..MaxRows]
  BY <1>3, Types
<1>. QED
  BY <1>3, <1>4, <1>5, <1>6, <1>7, <1>8, WorkKeeps

\* What the listener goes to, outside of its transaction.
LEMMA ReplayTypes ==
    ASSUME TypeOK, ReplayStart \/ ReplayList \/ ReplayFails \/ ReplayAck
    PROVE  replay' \in Replay
<1>1. replay \in Replay
  BY Types
<1>2. NoReplay \in Replay
  BY DEF NoReplay, Replay
<1>3. CASE ReplayStart
  <2>1. Listed \subseteq Users
    BY DEF Listed
  <2>. QED
    BY <1>2, <1>3, <2>1 DEF ReplayStart, Replay
<1>4. CASE ReplayList
  <2>1. PageOf(replay.page) \subseteq Users
    BY DEF PageOf, Listed
  <2>. QED
    BY <1>1, <1>4, <2>1 DEF ReplayList, Replay
<1>5. CASE ReplayFails
  BY <1>1, <1>5 DEF ReplayFails, Replay
<1>. QED
  BY <1>2, <1>3, <1>4, <1>5 DEF ReplayAck

LEMMA AroundWorkKeeps ==
    ASSUME DeliveryInv,
           \/ ReplayStart \/ ReplayList \/ ReplayFails \/ ReplayAck \/ RedisDown \/ RedisUp
           \/ \E r \in Rows : Elapse(r) \/ Purge(r)
    PROVE  DeliveryInv'
<1>. USE DEF DeliveryInv
<1>1. CASE ReplayStart \/ ReplayList \/ ReplayFails \/ ReplayAck
  <2>1. /\ TableAlone /\ UNCHANGED <<worker, sent, view, status, waiting, redis, disturbed>>
    BY <1>1 DEF ReplayStart, ReplayList, ReplayFails, ReplayAck, tableVars, workVars, TableAlone
  <2>2. faults' \in 0..MaxFaults /\ replay' \in Replay
    BY <1>1, ReplayTypes, FaultsFit, Types DEF ReplayStart, ReplayList, ReplayFails, ReplayAck
  <2>3. OtherTypes' /\ status' \in [Rows -> Statuses]
    BY <2>1, <2>2, Types DEF OtherTypes
  <2>. QED
    BY <2>1, <2>3, AroundKeeps
<1>2. CASE RedisDown \/ RedisUp
  <2>1. /\ TableAlone /\ UNCHANGED <<worker, sent, view, status, waiting, replay, disturbed>>
        /\ redis' \in BOOLEAN
    BY <1>2 DEF RedisDown, RedisUp, tableVars, TableAlone
  <2>2. faults' \in 0..MaxFaults
    BY <1>2, FaultsFit, Types DEF RedisDown, RedisUp
  <2>3. OtherTypes' /\ status' \in [Rows -> Statuses]
    BY <2>1, <2>2, Types DEF OtherTypes
  <2>. QED
    BY <2>1, <2>3, AroundKeeps
<1>3. ASSUME NEW r \in Rows, Elapse(r) \/ Purge(r) PROVE DeliveryInv'
  <2>1. /\ TableAlone /\ UNCHANGED <<worker, sent, view, redis, replay, faults, disturbed>>
    BY <1>3 DEF Elapse, Purge, tableVars, workVars, TableAlone
  <2>2. waiting' \subseteq waiting /\ status' \in [Rows -> Statuses]
    BY <1>3, Types DEF Elapse, Purge, Statuses
  <2>3. \A k \in Rows : \/ status'[k] = status[k]
                        \/ /\ k \in Committed /\ status'[k] \notin {"absent", "open"}
                           /\ status'[k] \in {"published", "purged"} => k \in sent
    <3>1. CASE Elapse(r)
      BY <3>1 DEF Elapse
    <3>2. CASE Purge(r)
      <4>1. r \in Committed /\ r \in sent /\ status' = [status EXCEPT ![r] = "purged"]
        BY <3>2, Types DEF Purge, RowsAreRanked, PublishedRowsWereSent
      <4>. QED
        BY <4>1, Types
    <3>. QED
      BY <1>3, <3>1, <3>2
  <2>4. OtherTypes'
    BY <2>1, Types DEF OtherTypes
  <2>. QED
    BY <2>1, <2>2, <2>3, <2>4, AroundKeeps
<1>. QED
  BY <1>1, <1>2, <1>3

-----------------------------------------------------------------------------
(* The table: transactions begin, and commit with their rows *)

\* A row is given out; it is not committed, and neither held nor sent.
LEMMA Beginning ==
    ASSUME TypeOK, RowsAreRanked, NEW op \in AccountOps, NEW u \in Users, Begin(op, u)
    PROVE  \E r \in Rows :
              /\ r = begun + 1 /\ begun' = r /\ r \notin Committed /\ status[r] = "absent"
              /\ Admits(op, account[u])
              /\ event'[r].op = op /\ event'[r].user = u /\ event'[r].base = account[u]
              /\ status'[r] = "open"
              /\ \A k \in Rows : k # r => event'[k] = event[k] /\ status'[k] = status[k]
              /\ event' \in [Rows -> Event] /\ status' \in [Rows -> Statuses]
              /\ Committed' = Committed
<1>. DEFINE r == begun + 1
            new == [op |-> op, user |-> u, base |-> account[u]]
<1>1. begun < MaxRows /\ begun' = r /\ Admits(op, account[u])
      /\ event' = [event EXCEPT ![r] = new] /\ status' = [status EXCEPT ![r] = "open"]
      /\ rank' = rank
  BY DEF Begin, HasRoomFor
<1>2. r \in Rows /\ r > begun
  BY <1>1, Types, Numbers DEF Rows
<1>3. new \in Event
  BY Types DEF Event
<1>4. event' \in [Rows -> Event] /\ status' \in [Rows -> Statuses]
  BY <1>1, <1>2, <1>3, Types DEF Statuses
<1>5. status[r] = "absent" /\ r \notin Committed
  BY <1>2, Types DEF RowsAreRanked
<1>6. event'[r] = new /\ status'[r] = "open"
      /\ \A k \in Rows : k # r => event'[k] = event[k] /\ status'[k] = status[k]
  BY <1>1, <1>2, Types
<1>7. Committed' = Committed
  BY <1>1 DEF Committed
<1>8. new.op = op /\ new.user = u /\ new.base = account[u]
  OBVIOUS
<1>. HIDE DEF new, r
<1>. QED
  BY <1>1, <1>2, <1>4, <1>5, <1>6, <1>7, <1>8 DEF r

\* A row is ranked after all that have been committed.
LEMMA Committing ==
    ASSUME TypeOK, RowsAreRanked, NEW r \in Rows, Commit(r)
    PROVE  /\ status[r] = "open" /\ r \notin Committed /\ r <= begun
           /\ status' = [status EXCEPT ![r] = "pending"] /\ status' \in [Rows -> Statuses]
           /\ rank'[r] = Cardinality(Committed) + 1
           /\ \A k \in Rows : k # r => rank'[k] = rank[k] /\ status'[k] = status[k]
           /\ Committed' = Committed \union {r}
           /\ Cardinality(Committed') = Cardinality(Committed) + 1
           /\ rank' \in [Rows -> 0..MaxRows]
           /\ \A k \in Committed : rank[k] < rank'[r]
           /\ event[r].op \in AccountOps /\ event[r].user \in Users
           /\ event[r].base \in States /\ Admits(event[r].op, event[r].base)
<1>. DEFINE c == Cardinality(Committed)
<1>1. /\ status[r] = "open" /\ status' = [status EXCEPT ![r] = "pending"]
      /\ rank' = [rank EXCEPT ![r] = c + 1]
  BY DEF Commit
<1>2. r \notin Committed /\ r <= begun /\ event[r].op \in AccountOps
      /\ Admits(event[r].op, event[r].base) /\ \A k \in Committed : rank[k] <= c
  <2>1. ~(r > begun)
    BY <1>1 DEF RowsAreRanked
  <2>. QED
    BY <1>1, <2>1, Types DEF RowsAreRanked
<1>3. rank'[r] = c + 1 /\ \A k \in Rows : k # r => rank'[k] = rank[k] /\ status'[k] = status[k]
  BY <1>1, Types
<1>4. Committed' = Committed \union {r}
  <2>1. c + 1 > 0 /\ \A k \in Rows : k # r => (rank'[k] > 0 <=> rank[k] > 0)
    BY <1>3, Types
  <2>. QED
    BY <1>3, <2>1 DEF Committed
<1>5. Cardinality(Committed') = c + 1
  BY <1>2, <1>4, Types, FS_AddElement
<1>6. c + 1 <= MaxRows
  <2>1. Committed' \in SUBSET Rows
    BY <1>4, Types
  <2>2. Cardinality(Committed') <= Cardinality(Rows)
    BY <2>1, Numbers, FS_Subset
  <2>. QED
    BY <1>5, <2>2, Numbers
<1>7. rank' \in [Rows -> 0..MaxRows]
  <2>1. c + 1 \in 0..MaxRows
    BY <1>6, Types, Numbers
  <2>. QED
    BY <1>1, <2>1, Types
<1>8. \A k \in Committed : rank[k] < rank'[r]
  BY <1>2, <1>3, Types
<1>9. status' \in [Rows -> Statuses]
  BY <1>1, Types DEF Statuses
<1>. QED
  BY <1>1, <1>2, <1>3, <1>4, <1>5, <1>7, <1>8, <1>9, Types

\* A page is inserted behind all rows, and committed after all that have been.
Inserts(rows, order) ==
    /\ rows \subseteq Rows /\ order \in [rows -> replay.listed]
    /\ \A u \in replay.listed : \E r \in rows : order[r] = u
    /\ begun' = begun + Cardinality(replay.listed) /\ begun' <= MaxRows
    /\ \A r \in rows :
          /\ r > begun /\ r <= begun' /\ r \notin Committed /\ status[r] = "absent"
          /\ event'[r].op = "replay" /\ event'[r].user = order[r]
          /\ event'[r].base = "present"
          /\ status'[r] = "pending" /\ rank'[r] = Cardinality(Committed) + r - begun
          /\ \A k \in Committed : k < r /\ rank[k] < rank'[r]
    /\ \A r \in Rows \ rows :
          event'[r] = event[r] /\ status'[r] = status[r] /\ rank'[r] = rank[r]
    /\ \A r \in Rows : r > begun /\ r <= begun' => r \in rows
    /\ Committed' = Committed \union rows
    /\ Cardinality(Committed') = Cardinality(Committed) + Cardinality(replay.listed)
    /\ event' \in [Rows -> Event] /\ status' \in [Rows -> Statuses]
    /\ rank' \in [Rows -> 0..MaxRows]

LEMMA Inserting ==
    ASSUME TypeOK, RowsAreRanked, ReplayInsert
    PROVE  \E rows, order : Inserts(rows, order)
<1>. DEFINE n == Cardinality(replay.listed)
            c == Cardinality(Committed)
            rows == begun + 1 .. begun + n
<1>1. replay.listed \subseteq Users /\ n \in Nat
  <2>1. replay.listed \subseteq Users
    BY Types DEF Replay
  <2>. QED
    BY <2>1, Numbers, FS_Subset, FS_CardinalityType
<1>2. PICK order \in Bijection(rows, replay.listed) :
         event' = [r \in Rows |->
                     IF r \in rows
                     THEN [op |-> "replay", user |-> order[r], base |-> "present"]
                     ELSE event[r]]
  BY DEF ReplayInsert
<1>3. /\ begun' = begun + n /\ begun + n <= MaxRows
      /\ status' = [r \in Rows |-> IF r \in rows THEN "pending" ELSE status[r]]
      /\ rank' = [r \in Rows |-> IF r \in rows THEN c + r - begun ELSE rank[r]]
  BY DEF ReplayInsert
<1>4. order \in [rows -> replay.listed] /\ \A u \in replay.listed : \E r \in rows : order[r] = u
  BY <1>2 DEF Bijection, Injection, Surjection
<1>5. IsFiniteSet(rows) /\ Cardinality(rows) = n
  <2>1. begun + 1 \in Int /\ begun + n \in Int
    BY <1>1, Types
  <2>2. IsFiniteSet(rows) /\ Cardinality(rows) = IF begun + 1 > begun + n THEN 0 ELSE (begun + n) - (begun + 1) + 1
    BY <2>1, FS_Interval
  <2>. HIDE DEF n
  <2>. QED
    BY <1>1, <2>2, Types
<1>6. rows \subseteq Rows /\ \A r \in rows : r > begun /\ r <= begun + n /\ r \in Nat
  <2>. HIDE DEF n
  <2>1. begun \in Nat /\ n \in Nat /\ MaxRows \in Nat /\ begun + n <= MaxRows
    BY <1>1, <1>3, Types, Numbers
  <2>2. \A r \in rows : r \in Int /\ r >= begun + 1 /\ r <= begun + n
    BY <2>1
  <2>. HIDE DEF rows
  <2>3. \A r \in rows : r \in Int /\ 1 <= r /\ r <= MaxRows /\ r > begun
    BY <2>1, <2>2
  <2>. QED
    BY <2>1, <2>2, <2>3 DEF Rows
<1>7. \A r \in Rows : r > begun /\ r <= begun + n => r \in rows
  <2>. HIDE DEF n
  <2>. QED
    BY <1>1, Types, Numbers
<1>. HIDE DEF n, rows, c
<1>8. \A r \in rows : status[r] = "absent" /\ r \notin Committed
  BY <1>6, Types DEF RowsAreRanked
<1>9. c \in Nat /\ \A k \in Committed : rank[k] <= c /\ k <= begun
  <2>1. \A k \in Committed : k \in Rows /\ rank[k] > 0 /\ k \in Nat
    BY Types
  <2>2. \A k \in Committed : rank[k] <= c /\ ~(k > begun)
    BY <2>1 DEF RowsAreRanked, c
  <2>. QED
    BY <2>1, <2>2, Types DEF c
<1>10. ASSUME NEW r \in rows
       PROVE  /\ status'[r] = "pending" /\ rank'[r] = c + r - begun
              /\ event'[r] = [op |-> "replay", user |-> order[r], base |-> "present"]
              /\ event'[r].op = "replay" /\ event'[r].user = order[r]
              /\ event'[r].base = "present"
              /\ rank'[r] > 0 /\ \A k \in Committed : k < r /\ rank[k] < rank'[r]
  <2>1. r \in Rows
    BY <1>6
  <2>2. event'[r] = [op |-> "replay", user |-> order[r], base |-> "present"]
    BY <1>2, <2>1
  <2>3. status'[r] = "pending" /\ rank'[r] = c + r - begun
    BY <1>3, <2>1
  <2>4. rank'[r] > 0 /\ \A k \in Committed : k < r /\ rank[k] < rank'[r]
    <3>1. r \in Nat /\ r > begun /\ begun \in Nat
      BY <1>6, Types
    <3>2. \A k \in Committed : k \in Nat /\ rank[k] \in Nat
      BY Types
    <3>. QED
      BY <1>9, <2>3, <3>1, <3>2
  <2>. QED
    BY <2>2, <2>3, <2>4
<1>11. \A r \in Rows \ rows :
          event'[r] = event[r] /\ status'[r] = status[r] /\ rank'[r] = rank[r]
  BY <1>2, <1>3
<1>12. Committed' = Committed \union rows
  BY <1>6, <1>10, <1>11 DEF Committed
<1>13. Cardinality(Committed') = c + n
  <2>1. Committed \cap rows = {}
    BY <1>8
  <2>2. Cardinality(Committed \union rows) = c + n - Cardinality(Committed \cap rows)
    BY <1>5, Types, FS_Union DEF c
  <2>. QED
    BY <1>1, <1>9, <1>12, <2>1, <2>2, FS_EmptySet
<1>14. rank' \in [Rows -> 0..MaxRows]
  <2>1. c + n <= MaxRows
    <3>1. Committed' \in SUBSET Rows
      BY <1>6, <1>12, Types
    <3>. QED
      BY <1>13, <3>1, Numbers, FS_Subset
  <2>2. \A r \in rows : c + r - begun \in 0..MaxRows
    BY <1>1, <1>6, <1>9, <2>1, Types, Numbers
  <2>. QED
    BY <1>3, <2>2, Types
<1>15. status' \in [Rows -> Statuses]
  BY <1>3, Types DEF Statuses
<1>16. event' \in [Rows -> Event]
  <2>1. \A r \in rows : [op |-> "replay", user |-> order[r], base |-> "present"] \in Event
    BY <1>1, <1>4 DEF Event, States
  <2>. QED
    BY <1>2, <2>1, Types
<1>17. Inserts(rows, order)
  BY <1>3, <1>4, <1>6, <1>7, <1>8, <1>10, <1>11, <1>12, <1>13, <1>14, <1>15, <1>16 DEF Inserts, c, n
<1>. QED
  BY <1>17

\* Rows begin, are committed or rolled back; workers and stream stay.
LEMMA TableKeeps ==
    ASSUME DeliveryInv, UNCHANGED <<waiting, worker, redis, sent, view, faults>>,
           Committed \subseteq Committed',
           \A r \in Committed : event'[r] = event[r],
           \A r \in Rows : status'[r] \in {"published", "purged"} => status[r] = status'[r],
           RowsAreRanked', begun' \in 0..MaxRows,
           account' \in [Users -> States], edits' \subseteq Edit, event' \in [Rows -> Event],
           status' \in [Rows -> Statuses], rank' \in [Rows -> 0..MaxRows],
           replay' \in Replay, disturbed' \subseteq Users, misled' \subseteq Users
    PROVE  DeliveryInv'
<1>. USE DEF DeliveryInv
<1>1. /\ HeldAreCommitted' /\ worker' \in [Workers -> Worker]
      /\ \A v \in Workers : worker'[v].pc # "idle" => worker'[v].batch # {}
  BY HeldStay
<1>2. TypeOK'
  <2>1. /\ waiting' \subseteq Rows /\ sent' \subseteq Rows /\ view' \in [Users -> 0..MaxRows]
        /\ redis' \in BOOLEAN /\ faults' \in 0..MaxFaults
    BY Types
  <2>. QED
    BY <1>1, <2>1 DEF TypeOK
<1>3. SentAreCommitted'
  <2>. SUFFICES ASSUME NEW r \in sent PROVE r \in Committed' /\ Fit(r)'
    BY DEF SentAreCommitted
  <2>1. r \in Committed /\ Fit(r)
    BY DEF SentAreCommitted
  <2>. QED
    BY <2>1 DEF Fit
<1>4. PublishedRowsWereSent'
  BY DEF PublishedRowsWereSent
<1>. QED
  BY <1>1, <1>2, <1>3, <1>4

LEMMA BeginKeeps ==
    ASSUME DeliveryInv, NEW op \in AccountOps, NEW u \in Users, Begin(op, u)
    PROVE  DeliveryInv'
<1>. USE DEF DeliveryInv
<1>1. PICK r \in Rows :
              /\ r = begun + 1 /\ begun' = r /\ r \notin Committed /\ status[r] = "absent"
              /\ Admits(op, account[u])
              /\ event'[r].op = op /\ event'[r].user = u /\ event'[r].base = account[u]
              /\ status'[r] = "open"
              /\ \A k \in Rows : k # r => event'[k] = event[k] /\ status'[k] = status[k]
              /\ event' \in [Rows -> Event] /\ status' \in [Rows -> Statuses]
              /\ Committed' = Committed
  BY Beginning
<1>2. UNCHANGED <<account, edits, rank, waiting, worker, redis, sent, view, faults, replay,
                  disturbed, misled>>
  BY DEF Begin, workVars
<1>3. ASSUME NEW k \in Rows
      PROVE  /\ k > begun' => status'[k] = "absent"
             /\ rank'[k] > 0 <=> status'[k] \notin {"absent", "open"}
             /\ rank'[k] <= Cardinality(Committed')
             /\ status'[k] = "open" =>
                   event'[k].op \in AccountOps /\ Admits(event'[k].op, event'[k].base)
  <2>1. CASE k = r
    <3>1. ~(rank[k] > 0) /\ ~(k > begun') /\ rank[k] <= Cardinality(Committed)
      BY <1>1, <2>1, Types DEF RowsAreRanked
    <3>2. rank'[k] = rank[k] /\ Cardinality(Committed') = Cardinality(Committed)
      BY <1>1, <1>2
    <3>3. event'[k].op = op /\ event'[k].base = account[u]
      BY <1>1, <2>1
    <3>4. Admits(event'[k].op, event'[k].base)
      BY <1>1, <3>3
    <3>. QED
      BY <1>1, <2>1, <3>1, <3>2, <3>3, <3>4
  <2>2. CASE k # r
    <3>1. event'[k] = event[k] /\ status'[k] = status[k] /\ rank'[k] = rank[k]
      BY <1>1, <1>2, <2>2
    <3>2. k > begun' => k > begun
      BY <1>1, Types
    <3>3. Cardinality(Committed') = Cardinality(Committed)
      BY <1>1
    <3>. QED
      BY <3>1, <3>2, <3>3 DEF RowsAreRanked
  <2>. QED
    BY <2>1, <2>2
<1>4. RowsAreRanked'
  <2>1. waiting' \subseteq Committed'
    BY <1>1, <1>2 DEF RowsAreRanked
  <2>2. \A k \in Rows : Admits(event[k].op, event[k].base)' = Admits(event'[k].op, event'[k].base)
    BY DEF Admits
  <2>. QED
    BY <1>3, <2>1, <2>2 DEF RowsAreRanked
<1>5. begun' \in 0..MaxRows
  BY <1>1, Numbers
<1>6. /\ \A k \in Committed : event'[k] = event[k]
      /\ \A k \in Rows : status'[k] \in {"published", "purged"} => status[k] = status'[k]
  BY <1>1, Types
<1>7. /\ account' \in [Users -> States] /\ edits' \subseteq Edit
      /\ rank' \in [Rows -> 0..MaxRows]
      /\ replay' \in Replay /\ disturbed' \subseteq Users /\ misled' \subseteq Users
  BY <1>2, Types
<1>. QED
  BY <1>1, <1>2, <1>4, <1>5, <1>6, <1>7, TableKeeps

\* What an operation makes of an account.
LEMMA Outcomes ==
    ASSUME NEW op \in AccountOps, NEW base \in States, Admits(op, base)
    PROVE  /\ Outcome(op, base) \in {"present", "deleted"}
           /\ op # "setActive" =>
                 (Outcome(op, base) = "present" <=> op \notin {"delete", "erase"})
           /\ op = "setActive" => Outcome(op, base) = base
           /\ op # "register" => base # "none"
<1>1. CASE op = "register"
  BY <1>1 DEF Outcome, Admits
<1>2. CASE op = "setActive"
  BY <1>2 DEF Outcome, Admits, States
<1>3. CASE op = "delete"
  BY <1>3 DEF Outcome, Admits
<1>4. CASE op = "restore"
  BY <1>4 DEF Outcome, Admits
<1>5. CASE op = "erase"
  BY <1>5 DEF Outcome, Admits
<1>. QED
  BY <1>1, <1>2, <1>3, <1>4, <1>5 DEF AccountOps

\* What becomes of the replay when an account goes.
LEMMA ReplayGoesOn ==
    ASSUME TypeOK, NEW u, NEW to, replay' = Replaying(u, to)
    PROVE  /\ replay' \in Replay
           /\ replay'.pc = replay.pc /\ replay'.page = replay.page
           /\ replay'.listed = replay.listed /\ replay'.done = replay.done
           /\ replay'.owed \subseteq replay.owed
           /\ \/ replay'.owed = replay.owed /\ replay'.shifted = replay.shifted
              \/ /\ account[u] = "present" /\ to = "deleted"
                 /\ replay'.owed = replay.owed \ {u} /\ replay'.shifted = TRUE
           /\ account[u] = "present" /\ to = "deleted" /\ replay.pc \in {"list", "insert"} =>
                 replay'.owed = replay.owed \ {u} /\ replay'.shifted = TRUE
<1>1. replay \in Replay
  BY Types
<1>2. CASE account[u] = "present" /\ to = "deleted" /\ replay.pc \in {"list", "insert"}
  BY <1>1, <1>2 DEF Replaying, Replay
<1>3. CASE ~(account[u] = "present" /\ to = "deleted" /\ replay.pc \in {"list", "insert"})
  <2>1. replay' = replay
    BY <1>3 DEF Replaying
  <2>. QED
    BY <1>1, <1>3, <2>1
<1>. QED
  BY <1>2, <1>3

LEMMA CommitTypes ==
    ASSUME TypeOK, RowsAreRanked, NEW r \in Rows, Commit(r)
    PROVE  /\ account' = [account EXCEPT ![event[r].user] = Outcome(event[r].op, event[r].base)]
           /\ account' \in [Users -> States] /\ replay' \in Replay
           /\ disturbed' \subseteq Users /\ misled' \subseteq Users
           /\ disturbed \subseteq disturbed'
<1>1. /\ event[r].op \in AccountOps /\ event[r].user \in Users
      /\ event[r].base \in States /\ Admits(event[r].op, event[r].base)
  BY Committing
<1>2. Outcome(event[r].op, event[r].base) \in States
  BY <1>1, Outcomes DEF States
<1>3. account' = [account EXCEPT ![event[r].user] = Outcome(event[r].op, event[r].base)]
  BY DEF Commit
<1>4. replay' \in Replay
  BY ReplayGoesOn, Types DEF Commit
<1>. QED
  BY <1>1, <1>2, <1>3, <1>4, Types DEF Commit

LEMMA CommitKeeps ==
    ASSUME DeliveryInv, NEW r \in Rows, Commit(r)
    PROVE  DeliveryInv'
<1>. USE DEF DeliveryInv
<1>1. UNCHANGED <<edits, begun, event, waiting, worker, redis, sent, view, faults>>
  BY DEF Commit, workVars
<1>2. /\ r \notin Committed /\ r <= begun /\ status'[r] = "pending"
      /\ status' \in [Rows -> Statuses]
      /\ rank'[r] = Cardinality(Committed) + 1
      /\ \A k \in Rows : k # r => rank'[k] = rank[k] /\ status'[k] = status[k]
      /\ Committed' = Committed \union {r}
      /\ Cardinality(Committed') = Cardinality(Committed) + 1
      /\ rank' \in [Rows -> 0..MaxRows]
  BY Committing, Types
<1>3. ASSUME NEW k \in Rows
      PROVE  /\ k > begun' => status'[k] = "absent"
             /\ rank'[k] > 0 <=> status'[k] \notin {"absent", "open"}
             /\ rank'[k] <= Cardinality(Committed')
             /\ status'[k] = "open" =>
                   event[k].op \in AccountOps /\ Admits(event[k].op, event[k].base)
  <2>1. CASE k = r
    BY <1>1, <1>2, <2>1, Types
  <2>2. CASE k # r
    <3>1. rank[k] <= Cardinality(Committed) + 1
      BY Types DEF RowsAreRanked
    <3>. QED
      BY <1>1, <1>2, <2>2, <3>1 DEF RowsAreRanked
  <2>. QED
    BY <2>1, <2>2
<1>4. RowsAreRanked'
  <2>1. waiting' \subseteq Committed'
    BY <1>1, <1>2 DEF RowsAreRanked
  <2>2. \A k \in Rows : Admits(event[k].op, event[k].base)' = Admits(event[k].op, event[k].base)
    BY <1>1 DEF Admits
  <2>. QED
    BY <1>1, <1>3, <2>1, <2>2 DEF RowsAreRanked
<1>5. /\ begun' \in 0..MaxRows /\ event' \in [Rows -> Event] /\ edits' \subseteq Edit
      /\ \A k \in Committed : event'[k] = event[k]
      /\ \A k \in Rows : status'[k] \in {"published", "purged"} => status[k] = status'[k]
  BY <1>1, <1>2, Types DEF TypeOK
<1>. QED
  BY <1>1, <1>2, <1>4, <1>5, CommitTypes, TableKeeps

LEMMA RollbackKeeps ==
    ASSUME DeliveryInv, NEW r \in Rows, Rollback(r)
    PROVE  DeliveryInv'
<1>. USE DEF DeliveryInv
<1>1. /\ UNCHANGED <<account, edits, begun, event, rank, misled, waiting, worker, redis, sent,
                     view, replay, faults, disturbed>>
      /\ status[r] = "open" /\ status' = [status EXCEPT ![r] = "absent"]
  BY DEF Rollback, tableVars, workVars
<1>2. Committed' = Committed
  BY <1>1 DEF Committed
<1>3. status' \in [Rows -> Statuses] /\ status'[r] = "absent"
      /\ \A k \in Rows : k # r => status'[k] = status[k]
  BY <1>1, Types DEF Statuses
<1>4. RowsAreRanked'
  <2>1. ASSUME NEW k \in Rows
        PROVE  /\ k > begun => status'[k] = "absent"
               /\ rank[k] > 0 <=> status'[k] \notin {"absent", "open"}
               /\ rank[k] <= Cardinality(Committed)
               /\ status'[k] = "open" =>
                     event[k].op \in AccountOps /\ Admits(event[k].op, event[k].base)
    BY <1>1, <1>3 DEF RowsAreRanked
  <2>2. \A k \in Rows : Admits(event[k].op, event[k].base)' = Admits(event[k].op, event[k].base)
    BY <1>1 DEF Admits
  <2>. QED
    BY <1>1, <1>2, <2>1, <2>2 DEF RowsAreRanked
<1>5. /\ begun' \in 0..MaxRows /\ event' \in [Rows -> Event]
      /\ account' \in [Users -> States] /\ edits' \subseteq Edit
      /\ rank' \in [Rows -> 0..MaxRows]
      /\ replay' \in Replay /\ disturbed' \subseteq Users /\ misled' \subseteq Users
      /\ \A k \in Committed : event'[k] = event[k]
      /\ \A k \in Rows : status'[k] \in {"published", "purged"} => status[k] = status'[k]
  BY <1>1, <1>3, Types DEF TypeOK
<1>. QED
  BY <1>1, <1>2, <1>3, <1>4, <1>5, TableKeeps

LEMMA InsertGoesOn ==
    ASSUME TypeOK, ReplayInsert
    PROVE  /\ replay' \in Replay /\ replay.pc = "insert"
           /\ replay'.pc = IF Cardinality(replay.listed) < PageSize THEN "done" ELSE "list"
           /\ replay'.page = replay.page + 1 /\ replay'.listed = {}
           /\ replay'.done = replay.done \union replay.listed
           /\ replay'.owed = replay.owed /\ replay'.shifted = replay.shifted
<1>1. PICK pc, done, page :
         /\ pc = IF Cardinality(replay.listed) < PageSize THEN "done" ELSE "list"
         /\ done = replay.done \union replay.listed
         /\ page = replay.page + 1
  OBVIOUS
<1>2. replay' = [replay EXCEPT !.pc = pc, !.page = page, !.listed = {}, !.done = done]
  BY <1>1 DEF ReplayInsert
<1>3. pc \in {"done", "list"} /\ done \subseteq Users /\ page \in Nat
  BY <1>1, Types DEF Replay
<1>4. replay \in Replay /\ replay.pc = "insert"
  BY Types DEF ReplayInsert
<1>5. /\ replay' \in Replay
      /\ replay'.pc = pc /\ replay'.page = page /\ replay'.listed = {}
      /\ replay'.done = done /\ replay'.owed = replay.owed /\ replay'.shifted = replay.shifted
  BY <1>2, <1>3, <1>4 DEF Replay
<1>. QED
  BY <1>1, <1>4, <1>5

LEMMA InsertKeeps ==
    ASSUME DeliveryInv, ReplayInsert
    PROVE  DeliveryInv'
<1>. USE DEF DeliveryInv
<1>1. UNCHANGED <<account, edits, waiting, worker, redis, sent, view, faults, disturbed>>
      /\ misled' \subseteq misled
  BY DEF ReplayInsert, workVars
<1>2. PICK rows, order : Inserts(rows, order)
  BY Inserting
<1>3. Cardinality(replay.listed) \in Nat
  <2>1. replay.listed \subseteq Users
    BY Types DEF Replay
  <2>. QED
    BY <2>1, Numbers, FS_Subset, FS_CardinalityType
<1>4. ASSUME NEW k \in Rows
      PROVE  /\ k > begun' => status'[k] = "absent"
             /\ rank'[k] > 0 <=> status'[k] \notin {"absent", "open"}
             /\ rank'[k] <= Cardinality(Committed')
             /\ status'[k] = "open" =>
                   event'[k].op \in AccountOps /\ Admits(event'[k].op, event'[k].base)
  <2>1. CASE k \in rows
    <3>1. /\ ~(k > begun') /\ status'[k] = "pending"
          /\ rank'[k] = Cardinality(Committed) + k - begun /\ k > begun /\ k <= begun'
          /\ begun' = begun + Cardinality(replay.listed)
          /\ Cardinality(Committed') = Cardinality(Committed) + Cardinality(replay.listed)
      BY <1>2, <1>3, <2>1, Types DEF Inserts
    <3>. QED
      BY <1>3, <3>1, Types
  <2>2. CASE k \notin rows
    <3>1. event'[k] = event[k] /\ status'[k] = status[k] /\ rank'[k] = rank[k]
      BY <1>2, <2>2 DEF Inserts
    <3>2. /\ k > begun' => k > begun
          /\ rank[k] <= Cardinality(Committed')
      BY <1>2, <1>3, Types DEF Inserts, RowsAreRanked
    <3>. QED
      BY <3>1, <3>2 DEF RowsAreRanked
  <2>. QED
    BY <2>1, <2>2
<1>5. RowsAreRanked'
  <2>1. waiting' \subseteq Committed'
    BY <1>1, <1>2 DEF RowsAreRanked, Inserts
  <2>2. \A k \in Rows : Admits(event[k].op, event[k].base)' = Admits(event'[k].op, event'[k].base)
    BY DEF Admits
  <2>. QED
    BY <1>4, <2>1, <2>2 DEF RowsAreRanked
<1>6. replay' \in Replay
  BY InsertGoesOn
<1>7. /\ Committed \subseteq Committed' /\ begun' \in 0..MaxRows
      /\ event' \in [Rows -> Event] /\ status' \in [Rows -> Statuses]
      /\ rank' \in [Rows -> 0..MaxRows]
      /\ \A k \in Committed : event'[k] = event[k]
      /\ \A k \in Rows : status'[k] \in {"published", "purged"} => status[k] = status'[k]
  <2>1. begun' \in 0..MaxRows
    BY <1>2, <1>3, Types, Numbers DEF Inserts
  <2>2. \A k \in Committed : k \in Rows /\ k \notin rows
    BY <1>2, Types DEF Inserts
  <2>3. \A k \in Rows : status'[k] \in {"published", "purged"} => status[k] = status'[k]
    <3>. SUFFICES ASSUME NEW k \in Rows, status'[k] \in {"published", "purged"}
                  PROVE  status[k] = status'[k]
      OBVIOUS
    <3>1. k \notin rows
      BY <1>2 DEF Inserts
    <3>. QED
      BY <1>2, <3>1 DEF Inserts
  <2>. QED
    BY <1>2, <2>1, <2>2, <2>3 DEF Inserts
<1>8. /\ account' \in [Users -> States] /\ edits' \subseteq Edit
      /\ disturbed' \subseteq Users /\ misled' \subseteq Users
  BY <1>1, Types
<1>. QED
  BY <1>1, <1>5, <1>6, <1>7, <1>8, TableKeeps

\* A write without an event: the rows of the outbox stay, and what became of them.
EditStep ==
    \/ \E u \in Users : EditRead(u)
    \/ \E e \in Edit : EditWrite(e) \/ EditRollback(e)

LEMMA EditTypes ==
    ASSUME TypeOK, EditStep
    PROVE  /\ UNCHANGED <<begun, event, rank, status, waiting, workVars, faults, disturbed>>
           /\ edits' \subseteq Edit /\ account' \in [Users -> States]
           /\ replay' \in Replay /\ misled' \subseteq Users
<1>1. ASSUME NEW u \in Users, EditRead(u)
      PROVE  /\ UNCHANGED <<account, replay, misled>> /\ edits' \subseteq Edit
             /\ UNCHANGED <<begun, event, rank, status, waiting, workVars, faults, disturbed>>
  <2>1. [user |-> u, base |-> account[u]] \in Edit
    BY <1>1, Types DEF EditRead, Edit, States
  <2>. QED
    BY <1>1, <2>1, Types DEF EditRead
<1>2. ASSUME NEW e \in Edit, EditRollback(e)
      PROVE  /\ UNCHANGED <<account, replay, misled>> /\ edits' \subseteq Edit
             /\ UNCHANGED <<begun, event, rank, status, waiting, workVars, faults, disturbed>>
  BY <1>2, Types DEF EditRollback
<1>3. ASSUME NEW e \in Edit, EditWrite(e)
      PROVE  /\ edits' \subseteq Edit /\ account' \in [Users -> States]
             /\ replay' \in Replay /\ misled' \subseteq Users
             /\ UNCHANGED <<begun, event, rank, status, waiting, workVars, faults, disturbed>>
  <2>1. e.user \in Users /\ e.base \in States
    BY DEF Edit, States
  <2>2. replay' \in Replay
    BY <1>3, ReplayGoesOn DEF EditWrite
  <2>. QED
    BY <1>3, <2>1, <2>2, Types DEF EditWrite
<1>4. account \in [Users -> States] /\ replay \in Replay /\ misled \subseteq Users
  BY Types
<1>. QED
  BY <1>1, <1>2, <1>3, <1>4 DEF EditStep

LEMMA EditKeeps ==
    ASSUME DeliveryInv, EditStep
    PROVE  DeliveryInv'
<1>. USE DEF DeliveryInv
<1>1. /\ UNCHANGED <<begun, event, rank, status, waiting, worker, redis, sent, view, faults,
                     disturbed>>
      /\ edits' \subseteq Edit /\ account' \in [Users -> States]
      /\ replay' \in Replay /\ misled' \subseteq Users
  BY EditTypes DEF workVars
<1>2. Committed' = Committed
  BY <1>1 DEF Committed
<1>3. RowsAreRanked'
  <2>1. \A r \in Rows : Admits(event[r].op, event[r].base)' = Admits(event[r].op, event[r].base)
    BY <1>1 DEF Admits
  <2>. QED
    BY <1>1, <1>2, <2>1 DEF RowsAreRanked
<1>4. /\ begun' \in 0..MaxRows /\ event' \in [Rows -> Event] /\ status' \in [Rows -> Statuses]
      /\ rank' \in [Rows -> 0..MaxRows] /\ disturbed' \subseteq Users
  BY <1>1 DEF TypeOK
<1>. QED
  BY <1>1, <1>2, <1>3, <1>4, TableKeeps

-----------------------------------------------------------------------------
(* Every step *)

LEMMA InitialRows ==
    ASSUME Init
    PROVE  Committed = {} /\ \A r \in Rows : status[r] = "absent" /\ rank[r] = 0
  BY DEF Init, Committed

LEMMA DeliveryInit ==
    ASSUME Init
    PROVE  DeliveryInv
<1>1. NoEvent \in Event
  BY OutboxAssumption DEF NoEvent, Event, AccountOps, States
<1>2. AtRest \in Worker /\ AtRest.pc = "idle" /\ AtRest.batch = {} /\ NoReplay \in Replay
  BY DEF AtRest, Worker, NoReplay, Replay
<1>3. TypeOK
  <2>1. /\ account \in [Users -> States] /\ edits \subseteq Edit /\ begun \in 0..MaxRows
        /\ event \in [Rows -> Event] /\ status \in [Rows -> Statuses]
        /\ waiting \subseteq Rows /\ sent \subseteq Rows /\ redis \in BOOLEAN
    BY <1>1, Numbers DEF Init, States, Statuses
  <2>2. /\ view \in [Users -> 0..MaxRows] /\ faults \in 0..MaxFaults
        /\ rank \in [Rows -> 0..MaxRows] /\ disturbed \subseteq Users /\ misled \subseteq Users
    BY Numbers DEF Init
  <2>3. /\ worker \in [Workers -> Worker] /\ replay \in Replay
        /\ \A w \in Workers : worker[w].pc # "idle" => worker[w].batch # {}
    BY <1>2 DEF Init
  <2>. QED
    BY <2>1, <2>2, <2>3 DEF TypeOK
<1>4. RowsAreRanked
  <2>1. Cardinality(Committed) = 0
    BY InitialRows, FS_EmptySet
  <2>2. waiting = {}
    BY DEF Init
  <2>. QED
    BY <2>1, <2>2, InitialRows DEF RowsAreRanked
<1>5. HeldAreCommitted
  BY <1>2 DEF Init, HeldAreCommitted, Held
<1>6. SentAreCommitted /\ PublishedRowsWereSent
  BY InitialRows DEF Init, SentAreCommitted, PublishedRowsWereSent
<1>. QED
  BY <1>3, <1>4, <1>5, <1>6 DEF DeliveryInv

\* The steps, by what they change.
TableStep ==
    \/ \E op \in AccountOps, u \in Users : Begin(op, u)
    \/ \E r \in Rows : Commit(r) \/ Rollback(r)
    \/ ReplayInsert
SendStep == \E w \in Workers : Publish(w) \/ PublishAgain(w)
TurnStep == \E w \in Workers : Tick(w) \/ PublishFails(w) \/ MarkFails(w) \/ Interrupt(w)
MarkStep == \E w \in Workers : Mark(w) \/ MarkFailed(w) \/ Backoff(w)
AroundStep ==
    \/ ReplayStart \/ ReplayList \/ ReplayFails \/ ReplayAck \/ RedisDown \/ RedisUp
    \/ \E r \in Rows : Elapse(r) \/ Purge(r)

LEMMA Steps ==
    ASSUME Next
    PROVE  TableStep \/ EditStep \/ SendStep \/ TurnStep \/ MarkStep \/ AroundStep
<1>1. ASSUME NEW w \in Workers,
             \/ Tick(w) \/ WorkerStep(w) \/ PublishAgain(w) \/ MarkFails(w) \/ Interrupt(w)
      PROVE  SendStep \/ TurnStep \/ MarkStep
  <2>1. CASE Publish(w) \/ PublishAgain(w)
    BY <2>1 DEF SendStep
  <2>2. CASE Tick(w) \/ PublishFails(w) \/ MarkFails(w) \/ Interrupt(w)
    BY <2>2 DEF TurnStep
  <2>3. CASE Mark(w) \/ MarkFailed(w) \/ Backoff(w)
    BY <2>3 DEF MarkStep
  <2>. QED
    BY Zenon, <1>1, <2>1, <2>2, <2>3 DEF WorkerStep
<1>2. ASSUME NEW r \in Rows, Commit(r) \/ Rollback(r) \/ Elapse(r) \/ Purge(r)
      PROVE  TableStep \/ AroundStep
  <2>1. CASE Commit(r) \/ Rollback(r)
    BY <2>1 DEF TableStep
  <2>2. CASE Elapse(r) \/ Purge(r)
    BY <2>2 DEF AroundStep
  <2>. QED
    BY Zenon, <1>2, <2>1, <2>2
<1>3. CASE \E op \in AccountOps, u \in Users : Begin(op, u)
  BY Zenon, <1>3 DEF TableStep
<1>4. CASE ReplayStart \/ ReplayList \/ ReplayFails \/ ReplayAck \/ RedisDown \/ RedisUp
  BY Zenon, <1>4 DEF AroundStep
<1>5. CASE ReplayInsert
  BY Zenon, <1>5 DEF TableStep
<1>6. CASE (\E u \in Users : EditRead(u)) \/ \E e \in Edit : EditWrite(e) \/ EditRollback(e)
  BY Zenon, <1>6 DEF EditStep
<1>. QED
  BY Zenon, <1>1, <1>2, <1>3, <1>4, <1>5, <1>6 DEF Next

LEMMA DeliveryNext ==
    ASSUME DeliveryInv, [Next]_vars
    PROVE  DeliveryInv'
<1>1. CASE UNCHANGED vars
  <2>1. /\ TableAlone
        /\ UNCHANGED <<worker, sent, view, redis, replay, faults, disturbed, status, waiting>>
    BY <1>1 DEF vars, TableAlone
  <2>2. OtherTypes' /\ status' \in [Rows -> Statuses]
    BY <2>1, Types DEF OtherTypes, DeliveryInv
  <2>. QED
    BY <2>1, <2>2, AroundKeeps
<1>2. CASE TableStep
  BY <1>2, BeginKeeps, CommitKeeps, RollbackKeeps, InsertKeeps DEF TableStep
<1>3. CASE SendStep
  BY <1>3, SendingKeeps DEF SendStep
<1>4. CASE TurnStep
  BY <1>4, TurningKeeps DEF TurnStep
<1>5. CASE MarkStep
  BY <1>5, MarkingKeeps DEF MarkStep
<1>6. CASE AroundStep
  BY <1>6, AroundWorkKeeps DEF AroundStep
<1>7. CASE EditStep
  BY <1>7, EditKeeps
<1>. QED
  BY <1>1, <1>2, <1>3, <1>4, <1>5, <1>6, <1>7, Steps

\* The inductive invariant: a row that is marked has been sent, and only committed
\* rows are held and sent.
THEOREM DeliveryInvariant == Spec => []DeliveryInv
<1>1. Init => DeliveryInv
  BY DeliveryInit
<1>2. DeliveryInv /\ [Next]_vars => DeliveryInv'
  BY DeliveryNext
<1>. QED
  BY <1>1, <1>2, PTL DEF Spec

\* The columns and the workers hold what they can hold.
THEOREM TypeCorrect == Spec => []TypeOK
<1>1. DeliveryInv => TypeOK
  BY DEF DeliveryInv
<1>. QED
  BY <1>1, DeliveryInvariant, PTL

\* However many workers race, fail and die: whoever marks a row published has
\* had the answer of XADD for it, so that no purge takes a row that was not sent.
THEOREM PublishedWereSent == Spec => []PublishedRowsWereSent
<1>1. DeliveryInv => PublishedRowsWereSent
  BY DEF DeliveryInv
<1>. QED
  BY <1>1, DeliveryInvariant, PTL

\* The outbox implements the safety of AtLeastOnce for the events that meet the
\* contract: only what was committed is sent, and neither is taken back.
THEOREM OutboxIsAtLeastOnce == Spec => Promise!Safety
<1>. DEFINE Owed == {r \in Committed : Fit(r)}
<1>1. Init => Promise!Init
  BY InitialRows DEF Promise!Init, Init
<1>2. DeliveryInv /\ [Next]_vars => [Promise!Next]_(Promise!vars)
  <2>. SUFFICES ASSUME DeliveryInv, [Next]_vars
                PROVE  Promise!Next \/ UNCHANGED Promise!vars
    OBVIOUS
  <2>0. TypeOK /\ RowsAreRanked
    BY DEF DeliveryInv
  <2>1. ASSUME Owed' = Owed, sent' = sent
        PROVE  UNCHANGED Promise!vars
    BY <2>1 DEF Promise!vars
  <2>2. ASSUME NEW es \in SUBSET Rows, Owed' = Owed \union es, sent' = sent
        PROVE  Promise!Next
    BY <2>2 DEF Promise!Next, Promise!Commit
  <2>3. ASSUME Committed' = Committed, \A r \in Committed : event'[r] = event[r]
        PROVE  Owed' = Owed
    BY <2>3 DEF Fit
  <2>4. CASE UNCHANGED vars
    BY <2>1, <2>3, <2>4 DEF vars, Committed
  <2>5. CASE TurnStep \/ MarkStep \/ AroundStep
    <3>1. UNCHANGED <<event, rank, sent>>
      <4>1. CASE TurnStep
        BY <4>1 DEF TurnStep, Tick, PublishFails, MarkFails, Interrupt, tableVars
      <4>2. CASE MarkStep
        BY <4>2 DEF MarkStep, Mark, MarkFailed, Backoff, tableVars
      <4>3. CASE ReplayStart \/ ReplayList \/ ReplayFails \/ ReplayAck
        BY <4>3 DEF ReplayStart, ReplayList, ReplayFails, ReplayAck, tableVars, workVars
      <4>4. ASSUME NEW r \in Rows, Elapse(r) \/ Purge(r) PROVE UNCHANGED <<event, rank, sent>>
        BY <4>4 DEF Elapse, Purge, tableVars, workVars
      <4>5. CASE RedisDown \/ RedisUp
        BY <4>5 DEF RedisDown, RedisUp, tableVars
      <4>. QED
        BY Zenon, <2>5, <4>1, <4>2, <4>3, <4>4, <4>5 DEF AroundStep
    <3>. QED
      BY <2>1, <2>3, <3>1 DEF Committed
  <2>6. ASSUME NEW w \in Workers, Publish(w) \/ PublishAgain(w)
        PROVE  Promise!Next
    <3>0. PICK r : r = Current(w)
      OBVIOUS
    <3>1. r \in Committed /\ r \in Rows
      BY <2>0, <2>6, <3>0, CurrentIsHeld DEF Publish, PublishAgain, DeliveryInv, HeldAreCommitted
    <3>2. Send(r) /\ UNCHANGED <<event, rank>>
      BY <2>6, <3>0 DEF Publish, PublishAgain, tableVars
    <3>3. Owed' = Owed
      BY <2>3, <3>2 DEF Committed
    <3>4. Promise!Deliver(r)
      BY <3>1, <3>2, <3>3 DEF Promise!Deliver, Send
    <3>. QED
      BY <3>1, <3>4 DEF Promise!Next
  <2>7. ASSUME NEW op \in AccountOps, NEW u \in Users, Begin(op, u)
        PROVE  UNCHANGED Promise!vars
    <3>1. Committed' = Committed /\ \A k \in Committed : event'[k] = event[k]
      BY <2>0, <2>7, Beginning, Types
    <3>2. sent' = sent
      BY <2>7 DEF Begin, workVars
    <3>. QED
      BY <2>1, <2>3, <3>1, <3>2
  <2>8. ASSUME NEW r \in Rows, Commit(r)
        PROVE  Promise!Next \/ UNCHANGED Promise!vars
    <3>1. Committed' = Committed \union {r} /\ UNCHANGED <<event, sent>>
      <4>1. Committed' = Committed \union {r}
        BY <2>0, <2>8, Committing
      <4>2. UNCHANGED <<event, sent>>
        BY <2>8 DEF Commit, workVars
      <4>. QED
        BY <4>1, <4>2
    <3>2. CASE Fit(r)
      <4>1. Owed' = Owed \union {r}
        BY <3>1, <3>2 DEF Fit
      <4>. QED
        BY <2>2, <3>1, <4>1
    <3>3. CASE ~Fit(r)
      <4>1. Owed' = Owed
        BY <3>1, <3>3 DEF Fit
      <4>. QED
        BY <2>1, <3>1, <4>1
    <3>. QED
      BY <3>2, <3>3
  <2>9. ASSUME NEW r \in Rows, Rollback(r)
        PROVE  UNCHANGED Promise!vars
    BY <2>1, <2>3, <2>9 DEF Rollback, tableVars, workVars, Committed
  <2>10. CASE ReplayInsert
    <3>1. PICK rows, order : Inserts(rows, order)
      BY <2>0, <2>10, Inserting
    <3>2. sent' = sent /\ Committed' = Committed \union rows /\ rows \in SUBSET Rows
      BY <2>10, <3>1 DEF ReplayInsert, workVars, Inserts
    <3>3. Owed' = Owed \union rows
      <4>1. \A r \in rows : Fit(r)'
        BY <3>1 DEF Inserts, Fit
      <4>2. \A r \in Committed : r \notin rows /\ event'[r] = event[r]
        BY <2>0, <3>1, Types DEF Inserts
      <4>. QED
        BY <3>2, <4>1, <4>2 DEF Fit
    <3>. QED
      BY <2>2, <3>2, <3>3
  <2>11. CASE TableStep
    BY Zenon, <2>7, <2>8, <2>9, <2>10, <2>11 DEF TableStep
  <2>12. CASE SendStep
    BY Zenon, <2>6, <2>12 DEF SendStep
  <2>13. CASE EditStep
    <3>1. UNCHANGED <<event, rank, sent>>
      BY <2>0, <2>13, EditTypes DEF workVars
    <3>. QED
      BY <2>1, <2>3, <3>1 DEF Committed
  <2>. QED
    BY <2>4, <2>5, <2>11, <2>12, <2>13, Steps
<1>. QED
  BY <1>1, <1>2, DeliveryInvariant, PTL DEF Spec, Promise!Safety

-----------------------------------------------------------------------------
(* The events of an account keep their order *)

\* Nothing is sent or taken; a row that is done stays so.
LEMMA OrderStays ==
    ASSUME DeliveryInv, OrderInv, UNCHANGED <<worker, sent, view>>,
           Committed' = Committed, waiting' \subseteq waiting, disturbed \subseteq disturbed',
           \A r \in Committed :
              /\ event'[r] = event[r] /\ rank'[r] = rank[r]
              /\ status'[r] = status[r] \/ (Done(r) /\ Done(r)')
    PROVE  OrderInv'
<1>1. \A u \in Users : Of(u)' = Of(u)
  BY DEF Of
<1>2. ViewsAreSent'
  BY DEF OrderInv, ViewsAreSent, DeliveryInv, SentAreCommitted
<1>3. ASSUME NEW u \in Users \ disturbed' PROVE InOrder(u)'
  <2>1. InOrder(u) /\ Of(u) \subseteq Committed
    BY DEF OrderInv, Of
  <2>2. \A w \in Workers : Held(w)' = Held(w) /\ Current(w)' = Current(w)
    BY DEF Held, Current
  <2>3. \A r \in Of(u) : /\ rank'[r] = rank[r]
                         /\ status[r] = "pending" => status'[r] = "pending"
                         /\ Done(r) => Done(r)'
                         /\ r \notin waiting => r \notin waiting'
    BY <2>1 DEF Done
  <2>. QED
    BY <1>1, <2>1, <2>2, <2>3 DEF InOrder
<1>. QED
  BY <1>2, <1>3 DEF OrderInv

\* Rows are committed: of an account that is not disturbed, they come last.
LEMMA OrderGrows ==
    ASSUME DeliveryInv, OrderInv, UNCHANGED <<worker, sent, view, waiting>>,
           disturbed \subseteq disturbed',
           NEW rows, Committed' = Committed \union rows, rows \subseteq Rows, rows \cap Committed = {},
           \A r \in Committed :
              event'[r] = event[r] /\ rank'[r] = rank[r] /\ status'[r] = status[r],
           \A r \in rows : status'[r] = "pending",
           \A r \in rows, k \in Committed :
              event'[r].user = event[k].user /\ event[k].user \notin disturbed' =>
                 k < r /\ rank[k] < rank'[r],
           \A r, s \in rows : r < s => rank'[r] < rank'[s]
    PROVE  OrderInv'
<1>1. ViewsAreSent'
  BY DEF OrderInv, ViewsAreSent, DeliveryInv, SentAreCommitted
<1>2. ASSUME NEW u \in Users \ disturbed' PROVE InOrder(u)'
  <2>. DEFINE new == {r \in rows : event'[r].user = u}
  <2>1. Of(u)' = Of(u) \union new /\ Of(u) \subseteq Committed
    BY DEF Of
  <2>2. /\ \A k \in Of(u) : event[k].user = u
        /\ \A r \in new : r \in Nat /\ r \notin Committed /\ r \in rows /\ r \in Rows
        /\ \A k \in Of(u) : k \in Nat /\ k \in Rows
    BY Types DEF Of, DeliveryInv
  <2>3. \A r \in new, k \in Of(u) : k < r /\ rank[k] < rank'[r] /\ ~(r < k)
    <3>1. \A r \in new, k \in Of(u) : event'[r].user = event[k].user /\ event[k].user \notin disturbed'
      BY <2>2
    <3>. QED
      BY <2>1, <2>2, <3>1
  <2>4. \A r \in new : r \notin sent /\ r \notin waiting /\ \A w \in Workers : r \notin Held(w)
    BY <2>2 DEF DeliveryInv, SentAreCommitted, HeldAreCommitted, RowsAreRanked
  <2>5. \A w \in Workers : Held(w)' = Held(w) /\ Current(w)' = Current(w)
    BY DEF Held, Current
  <2>6. \A r \in Of(u) : rank'[r] = rank[r] /\ status'[r] = status[r] /\ (Done(r) => Done(r)')
    BY <2>1 DEF Done
  <2>7. InOrder(u)
    BY DEF OrderInv
  <2>8. \A r \in new : status'[r] = "pending"
    BY <2>2
  <2>9. \A r, s \in new : r < s => rank'[r] < rank'[s]
    BY <2>2
  <2>. HIDE DEF new
  <2>10. \A r, s \in Of(u)' : r < s => rank'[r] < rank'[s]
    BY <2>1, <2>3, <2>6, <2>7, <2>9 DEF InOrder
  <2>11. \A r \in Of(u)' : r \notin waiting' /\ (Done(r)' \/ status'[r] = "pending")
    BY <2>1, <2>4, <2>6, <2>7, <2>8 DEF InOrder
  <2>12. ASSUME NEW w \in Workers, NEW s \in Of(u)', s \in Held(w)'
         PROVE  /\ status'[s] = "pending"
                /\ s = Current(w)' => worker'[w].pc # "backoff"
                /\ \A r \in Of(u)' : r < s => r \in Held(w)' \/ Done(r)'
                /\ \A x \in Workers : \A r \in Of(u)' : r \in Held(x)' => w = x
    <3>1. s \in Of(u) /\ s \in Held(w)
      BY <2>1, <2>4, <2>5, <2>12
    <3>2. /\ status[s] = "pending"
          /\ s = Current(w) => worker[w].pc # "backoff"
          /\ \A r \in Of(u) : r < s => r \in Held(w) \/ Done(r)
          /\ \A x \in Workers : \A r \in Of(u) : r \in Held(x) => w = x
      BY <2>7, <3>1 DEF InOrder
    <3>. QED
      BY <2>1, <2>3, <2>4, <2>5, <2>6, <3>1, <3>2
  <2>13. ASSUME NEW s \in Of(u)', s \in sent'
         PROVE  s <= view'[u] /\ \A r \in Of(u)' : r < s => Done(r)'
    <3>1. s \in Of(u) /\ s \in sent
      BY <2>1, <2>4, <2>13
    <3>2. s <= view[u] /\ \A r \in Of(u) : r < s => Done(r)
      BY <2>7, <3>1 DEF InOrder
    <3>. QED
      BY <2>1, <2>3, <2>6, <3>1, <3>2
  <2>. QED
    BY <2>10, <2>11, <2>12, <2>13 DEF InOrder
<1>. QED
  BY <1>1, <1>2 DEF OrderInv

\* A worker takes, sends, or is done with rows.
LEMMA OrderWorks ==
    ASSUME DeliveryInv, OrderInv, UNCHANGED <<event, rank>>, disturbed \subseteq disturbed',
           NEW w \in Workers, NEW x, Moves(w, x), ViewsAreSent',
           \A u \in Users \ disturbed' : \A r \in Of(u) :
              /\ r \notin waiting'
              /\ \/ status'[r] = status[r]
                 \/ Done(r)' /\ r \in Held(w) /\ r \notin x.batch,
           \A u \in Users \ disturbed' : \A s \in Of(u) :
              s \in x.batch =>
                 /\ status[s] = "pending"
                 /\ s = Min(x.batch) => x.pc # "backoff"
                 /\ \A r \in Of(u) : r < s => r \in x.batch \/ Done(r)'
                 /\ \A y \in Workers : \A r \in Of(u) : r \in Held(y) => w = y,
           \A u \in Users \ disturbed' : \A s \in Of(u) :
              s \in sent' => s <= view'[u] /\ \A r \in Of(u) : r < s => Done(r)'
    PROVE  OrderInv'
<1>1. ASSUME NEW u \in Users \ disturbed' PROVE InOrder(u)'
  <2>1. Of(u)' = Of(u)
    BY DEF Of, Committed
  <2>2. InOrder(u)
    BY DEF OrderInv
  <2>3. \A v \in Workers : worker'[v] = IF v = w THEN x ELSE worker[v]
    BY Types DEF Moves, DeliveryInv
  <2>4. /\ Held(w)' = x.batch /\ Current(w)' = Min(x.batch) /\ worker'[w].pc = x.pc
        /\ \A v \in Workers : v # w =>
              Held(v)' = Held(v) /\ Current(v)' = Current(v) /\ worker'[v].pc = worker[v].pc
    BY <2>3 DEF Held, Current
  <2>5. \A r \in Of(u) : Done(r) => Done(r)'
    BY DEF Done
  <2>6. \A r \in Of(u) : r \notin waiting' /\ (Done(r)' \/ status'[r] = "pending")
    BY <2>2, <2>5 DEF InOrder
  <2>7. ASSUME NEW v \in Workers, NEW s \in Of(u), s \in Held(v)'
        PROVE  /\ status'[s] = "pending"
               /\ s = Current(v)' => worker'[v].pc # "backoff"
               /\ \A r \in Of(u) : r < s => r \in Held(v)' \/ Done(r)'
               /\ \A y \in Workers : \A r \in Of(u) : r \in Held(y)' => v = y
    <3>1. CASE v = w
      <4>1. s \in x.batch
        BY <2>4, <2>7, <3>1
      <4>2. status'[s] = "pending"
        BY <4>1
      <4>3. s = Current(v)' => worker'[v].pc # "backoff"
        BY <2>4, <3>1, <4>1
      <4>4. \A r \in Of(u) : r < s => r \in Held(v)' \/ Done(r)'
        BY <2>4, <3>1, <4>1
      <4>5. \A y \in Workers : \A r \in Of(u) : r \in Held(y)' => v = y
        BY <2>4, <3>1, <4>1
      <4>. QED
        BY <4>2, <4>3, <4>4, <4>5
    <3>2. CASE v # w
      <4>1. s \in Held(v)
        BY <2>4, <2>7, <3>2
      <4>2. /\ status[s] = "pending"
            /\ s = Current(v) => worker[v].pc # "backoff"
            /\ \A r \in Of(u) : r < s => r \in Held(v) \/ Done(r)
            /\ \A y \in Workers : \A r \in Of(u) : r \in Held(y) => v = y
        BY <2>2, <4>1 DEF InOrder
      <4>3. s \notin Held(w)
        BY <3>2, <4>2
      <4>4. status'[s] = "pending"
        BY <4>2, <4>3
      <4>5. \A r \in Of(u) : r \notin x.batch
        BY <3>2, <4>1
      <4>6. \A y \in Workers : \A r \in Of(u) : r \in Held(y)' => v = y
        BY <2>4, <4>2, <4>5
      <4>7. \A r \in Of(u) : r < s => r \in Held(v)' \/ Done(r)'
        BY <2>4, <2>5, <3>2, <4>2
      <4>. QED
        BY <2>4, <3>2, <4>2, <4>4, <4>6, <4>7
    <3>. QED
      BY <3>1, <3>2
  <2>8. \A r, s \in Of(u) : r < s => rank'[r] < rank'[s]
    BY <2>2 DEF InOrder
  <2>. QED
    BY <2>1, <2>6, <2>7, <2>8 DEF InOrder
<1>. QED
  BY <1>1 DEF OrderInv

LEMMA ViewsStay ==
    ASSUME OrderInv, UNCHANGED <<event, sent, view>>
    PROVE  ViewsAreSent'
  BY DEF OrderInv, ViewsAreSent

LEMMA TableOrder ==
    ASSUME DeliveryInv, OrderInv, TableStep
    PROVE  OrderInv'
<1>. USE DEF DeliveryInv
<1>1. ASSUME NEW op \in AccountOps, NEW u \in Users, Begin(op, u) PROVE OrderInv'
  <2>1. /\ Committed' = Committed
        /\ \A k \in Committed : event'[k] = event[k] /\ status'[k] = status[k]
    BY <1>1, Beginning, Types
  <2>2. UNCHANGED <<worker, sent, view, waiting, disturbed, rank>>
    BY <1>1 DEF Begin, workVars
  <2>. QED
    BY <2>1, <2>2, OrderStays
<1>2. ASSUME NEW r \in Rows, Rollback(r) PROVE OrderInv'
  <2>1. /\ UNCHANGED <<worker, sent, view, waiting, disturbed, rank, event>>
        /\ status[r] = "open" /\ status' = [status EXCEPT ![r] = "absent"]
    BY <1>2 DEF Rollback, tableVars, workVars
  <2>2. Committed' = Committed /\ \A k \in Committed : k \in Rows /\ k # r
    BY <2>1, Types DEF Committed, RowsAreRanked
  <2>3. \A k \in Committed : status'[k] = status[k]
    BY <2>1, <2>2, Types
  <2>. QED
    BY <2>1, <2>2, <2>3, OrderStays
<1>3. ASSUME NEW r \in Rows, Commit(r) PROVE OrderInv'
  <2>1. /\ r \notin Committed /\ status'[r] = "pending"
        /\ \A k \in Rows : k # r => rank'[k] = rank[k] /\ status'[k] = status[k]
        /\ Committed' = Committed \union {r}
        /\ \A k \in Committed : rank[k] < rank'[r]
        /\ event[r].user \in Users
    BY <1>3, Committing, Types
  <2>2. UNCHANGED <<worker, sent, view, waiting, event>>
    BY <1>3 DEF Commit, workVars
  <2>3. disturbed \subseteq disturbed'
        /\ ((\E s \in Committed : s > r /\ event[s].user = event[r].user) => event[r].user \in disturbed')
    BY <1>3 DEF Commit
  <2>4. \A k \in Committed : k \in Rows /\ k # r /\ k \in Nat /\ r \in Nat
    BY <2>1, Types
  <2>5. ASSUME NEW k \in Committed, event'[r].user = event[k].user, event[k].user \notin disturbed'
        PROVE  k < r /\ rank[k] < rank'[r]
    <3>1. ~(k > r)
      BY <2>2, <2>3, <2>5
    <3>. QED
      BY <2>1, <2>4, <3>1
  <2>6. \A k, s \in {r} : k < s => rank'[k] < rank'[s]
    BY Types
  <2>7. {r} \subseteq Rows /\ {r} \cap Committed = {}
    BY <2>1
  <2>8. \A k \in Committed : event'[k] = event[k] /\ rank'[k] = rank[k] /\ status'[k] = status[k]
    BY <2>1, <2>2, <2>4
  <2>9. \A k \in {r} : status'[k] = "pending"
    BY <2>1
  <2>10. \A j \in {r}, k \in Committed :
            event'[j].user = event[k].user /\ event[k].user \notin disturbed' =>
               k < j /\ rank[k] < rank'[j]
    BY <2>5
  <2>. QED
    BY <2>1, <2>2, <2>3, <2>6, <2>7, <2>8, <2>9, <2>10, OrderGrows
<1>4. CASE ReplayInsert
  <2>1. PICK rows, order : Inserts(rows, order)
    BY <1>4, Inserting
  <2>2. UNCHANGED <<worker, sent, view, waiting, disturbed>>
    BY <1>4 DEF ReplayInsert, workVars
  <2>3. /\ Committed' = Committed \union rows /\ rows \subseteq Rows
        /\ \A r \in rows : r \notin Committed /\ status'[r] = "pending"
        /\ \A r \in rows, k \in Committed : k < r /\ rank[k] < rank'[r]
    BY <2>1 DEF Inserts
  <2>4. \A k \in Committed : event'[k] = event[k] /\ rank'[k] = rank[k] /\ status'[k] = status[k]
    <3>1. \A k \in Committed : k \in Rows \ rows
      BY <2>3, Types
    <3>. QED
      BY <2>1, <3>1 DEF Inserts
  <2>5. \A r, s \in rows : r < s => rank'[r] < rank'[s]
    <3>1. \A r \in rows : rank'[r] = Cardinality(Committed) + r - begun /\ r \in Nat
      BY <2>1, Types DEF Inserts
    <3>. QED
      BY <3>1, Types
  <2>6. rows \cap Committed = {}
    BY <2>3
  <2>. QED
    BY <2>2, <2>3, <2>4, <2>5, <2>6, OrderGrows
<1>. QED
  BY Zenon, <1>1, <1>2, <1>3, <1>4 DEF TableStep

LEMMA AroundOrder ==
    ASSUME DeliveryInv, OrderInv, AroundStep
    PROVE  OrderInv'
<1>. USE DEF DeliveryInv
<1>1. CASE ReplayStart \/ ReplayList \/ ReplayFails \/ ReplayAck
  <2>1. UNCHANGED <<worker, sent, view, waiting, disturbed, rank, event, status>>
    BY <1>1 DEF ReplayStart, ReplayList, ReplayFails, ReplayAck, tableVars, workVars
  <2>. QED
    BY <2>1, OrderStays DEF Committed
<1>2. CASE RedisDown \/ RedisUp
  <2>1. UNCHANGED <<worker, sent, view, waiting, disturbed, rank, event, status>>
    BY <1>2 DEF RedisDown, RedisUp, tableVars
  <2>. QED
    BY <2>1, OrderStays DEF Committed
<1>3. ASSUME NEW r \in Rows, Elapse(r) \/ Purge(r) PROVE OrderInv'
  <2>1. UNCHANGED <<worker, sent, view, disturbed, rank, event>> /\ waiting' \subseteq waiting
    BY <1>3 DEF Elapse, Purge, tableVars, workVars
  <2>2. ASSUME NEW k \in Rows PROVE status'[k] = status[k] \/ (Done(k) /\ Done(k)')
    <3>1. CASE Elapse(r)
      BY <3>1 DEF Elapse
    <3>2. CASE Purge(r)
      BY <3>2, Types DEF Purge, Done
    <3>. QED
      BY <1>3, <3>1, <3>2
  <2>3. Committed' = Committed /\ Committed \subseteq Rows
    BY <2>1 DEF Committed
  <2>. QED
    BY <2>1, <2>2, <2>3, OrderStays
<1>. QED
  BY Zenon, <1>1, <1>2, <1>3 DEF AroundStep

LEMMA TickOrder ==
    ASSUME DeliveryInv, OrderInv, NEW w \in Workers, Tick(w)
    PROVE  OrderInv'
<1>. USE DEF DeliveryInv
<1>. DEFINE batch == Earliest(Due)
<1>1. PICK x : Moves(w, x) /\ x.pc \in {"idle", "publish"} /\ x.batch = batch
  BY Ticking
<1>2. /\ UNCHANGED <<event, rank, status, waiting, sent, view>>
      /\ disturbed' = disturbed \union
            {u \in {event[r].user : r \in batch} :
               \E y \in Workers \ {w} : \E r \in worker[y].batch : event[r].user = u}
      /\ worker[w].pc = "idle"
  BY DEF Tick, tableVars
<1>3. batch \subseteq Due /\ \A r \in Due, s \in batch : r < s => r \in batch
  BY EarliestDue
<1>. HIDE DEF batch
<1>4. Held(w) = {}
  BY <1>2 DEF HeldAreCommitted
<1>5. ASSUME NEW u \in Users \ disturbed', NEW s \in Of(u)
      PROVE  /\ s \notin waiting
             /\ s \in batch =>
                  /\ status[s] = "pending"
                  /\ \A r \in Of(u) : r < s => r \in batch \/ Done(r)
                  /\ \A y \in Workers : \A r \in Of(u) : r \in Held(y) => w = y
             /\ s \in sent => s <= view[u] /\ \A r \in Of(u) : r < s => Done(r)
  <2>1. InOrder(u)
    BY <1>2 DEF OrderInv
  <2>2. \A r \in Of(u) : r \in Rows /\ event[r].user = u /\ r \notin waiting
                         /\ (Done(r) \/ status[r] = "pending")
    BY <2>1, Types DEF Of, InOrder
  <2>3. ASSUME s \in batch
        PROVE  /\ status[s] = "pending"
               /\ \A r \in Of(u) : r < s => r \in batch \/ Done(r)
               /\ \A y \in Workers : \A r \in Of(u) : r \in Held(y) => w = y
    <3>1. status[s] = "pending"
      BY <1>3, <2>2, <2>3 DEF Due, Done
    <3>2. \A r \in Of(u) : status[r] = "pending" => r \in Due
      BY <2>2 DEF Due
    <3>3. ASSUME NEW y \in Workers, NEW r \in Of(u), r \in Held(y) PROVE w = y
      <4>1. event[s].user = u /\ event[r].user = u /\ u \notin disturbed'
        BY <2>2
      <4>. QED
        BY <1>2, <2>3, <3>3, <4>1 DEF Held
    <3>. QED
      BY <1>3, <2>2, <2>3, <3>1, <3>2, <3>3
  <2>. QED
    BY <2>1, <2>2, <2>3 DEF InOrder
<1>6. ViewsAreSent'
  BY <1>2, ViewsStay
<1>7. \A r \in Rows : Done(r)' = Done(r)
  BY <1>2 DEF Done
<1>8. \A u \in Users : Of(u) \subseteq Rows
  BY Types DEF Of
<1>9. disturbed \subseteq disturbed'
  BY <1>2
<1>10. \A u \in Users \ disturbed' : \A s \in Of(u) :
          s \in x.batch =>
             /\ status[s] = "pending"
             /\ s = Min(x.batch) => x.pc # "backoff"
             /\ \A r \in Of(u) : r < s => r \in x.batch \/ Done(r)'
             /\ \A y \in Workers : \A r \in Of(u) : r \in Held(y) => w = y
  BY <1>1, <1>5, <1>7, <1>8
<1>11. \A u \in Users \ disturbed' : \A s \in Of(u) :
          s \in sent' => s <= view'[u] /\ \A r \in Of(u) : r < s => Done(r)'
  BY <1>2, <1>5, <1>7, <1>8
<1>12. \A u \in Users \ disturbed' : \A r \in Of(u) : r \notin waiting' /\ status'[r] = status[r]
  BY <1>2, <1>5
<1>. QED
  BY <1>1, <1>2, <1>6, <1>9, <1>10, <1>11, <1>12, OrderWorks


\* A worker goes on with what it has in hand.
LEMMA OrderHeld ==
    ASSUME DeliveryInv, OrderInv, UNCHANGED <<event, rank>>, disturbed \subseteq disturbed',
           NEW w \in Workers, NEW x, Moves(w, x), ViewsAreSent', x.batch \subseteq Held(w),
           \A u \in Users \ disturbed' : \A r \in Of(u) :
              /\ r \notin waiting'
              /\ \/ status'[r] = status[r]
                 \/ Done(r)' /\ r \in Held(w) /\ r \notin x.batch
              /\ r \in Held(w) => r \in x.batch \/ Done(r)' \/ x.batch = {}
              /\ r \in x.batch /\ r = Min(x.batch) => x.pc # "backoff"
              /\ r \in sent' => r <= view'[u] /\ \A k \in Of(u) : k < r => Done(k)'
    PROVE  OrderInv'
<1>1. ASSUME NEW u \in Users \ disturbed', NEW s \in Of(u), s \in x.batch
      PROVE  /\ status[s] = "pending"
             /\ s = Min(x.batch) => x.pc # "backoff"
             /\ \A r \in Of(u) : r < s => r \in x.batch \/ Done(r)'
             /\ \A y \in Workers : \A r \in Of(u) : r \in Held(y) => w = y
  <2>1. u \in Users \ disturbed /\ s \in Held(w)
    BY <1>1
  <2>2. /\ status[s] = "pending"
        /\ \A r \in Of(u) : r < s => r \in Held(w) \/ Done(r)
        /\ \A y \in Workers : \A r \in Of(u) : r \in Held(y) => w = y
    BY <2>1 DEF OrderInv, InOrder
  <2>3. \A r \in Of(u) : r \in Held(w) => r \in x.batch \/ Done(r)'
    BY <1>1
  <2>4. \A r \in Of(u) : Done(r) => Done(r)'
    BY DEF Done
  <2>. QED
    BY <1>1, <2>2, <2>3, <2>4
<1>2. \A u \in Users \ disturbed' : \A r \in Of(u) :
         r \notin waiting' /\ (status'[r] = status[r] \/ (Done(r)' /\ r \in Held(w) /\ r \notin x.batch))
  OBVIOUS
<1>3. \A u \in Users \ disturbed' : \A r \in Of(u) :
         r \in sent' => r <= view'[u] /\ \A k \in Of(u) : k < r => Done(k)'
  OBVIOUS
<1>. QED
  BY <1>1, <1>2, <1>3, OrderWorks

LEMMA SendOrder ==
    ASSUME DeliveryInv, OrderInv, NEW w \in Workers, Publish(w) \/ PublishAgain(w)
    PROVE  OrderInv'
<1>. USE DEF DeliveryInv
<1>0. PICK r : r = Current(w)
  OBVIOUS
<1>1. worker[w].pc = "publish" /\ worker[w].pc # "idle"
  BY DEF Publish, PublishAgain
<1>2. r \in Held(w) /\ r \in Committed /\ r \in Rows /\ \A k \in Held(w) : r <= k
  BY <1>0, <1>1, CurrentIsHeld DEF HeldAreCommitted
<1>3. /\ UNCHANGED <<event, rank, status, waiting, disturbed>> /\ Send(r)
  BY <1>0 DEF Publish, PublishAgain, tableVars
<1>4. /\ sent' = sent \union {r} /\ view' = [view EXCEPT ![event[r].user] = r]
  BY <1>2, <1>3, SendTypes
<1>5. PICK x : Moves(w, x) /\ x.batch = Held(w) /\ x.pc # "backoff"
  <2>1. CASE Publish(w)
    BY <1>1, <2>1, Going DEF Publish
  <2>2. CASE PublishAgain(w)
    <3>1. PICK x : x = worker[w]
      OBVIOUS
    <3>2. worker' = [worker EXCEPT ![w] = x] /\ x \in Worker /\ x.batch # {} /\ x.pc = "publish"
      BY <1>1, <2>2, <3>1, Types DEF PublishAgain, Held
    <3>3. Moves(w, x) /\ x.batch = Held(w)
      BY <3>1, <3>2 DEF Moves, Held
    <3>. QED
      BY <3>2, <3>3
  <2>. QED
    BY <2>1, <2>2
<1>6. event[r].user \in Users /\ r # 0
  BY <1>2, Types, Numbers
<1>7. \A u \in Users : view'[u] = IF u = event[r].user THEN r ELSE view[u]
  BY <1>4, <1>6, Types
<1>8. ViewsAreSent'
  <2>1. ViewsAreSent
    BY DEF OrderInv
  <2>2. \A s \in sent : event[s].user \in Users
    BY Types
  <2>. QED
    BY <1>3, <1>4, <1>6, <1>7, <2>1, <2>2 DEF ViewsAreSent
<1>9. \A k \in Rows : Done(k)' = Done(k)
  BY <1>3 DEF Done
<1>10. ASSUME NEW u \in Users \ disturbed', NEW s \in Of(u)
       PROVE  /\ s \notin waiting'
              /\ s \in sent' => s <= view'[u] /\ \A k \in Of(u) : k < s => Done(k)'
  <2>1. InOrder(u)
    BY <1>3 DEF OrderInv
  <2>2. \A k \in Of(u) : k \in Rows /\ event[k].user = u /\ k \in Nat
    BY Types DEF Of
  <2>3. ASSUME event[r].user = u, s \in sent PROVE s <= r
    <3>1. r \in Of(u) /\ status[r] = "pending"
      BY <1>2, <2>1, <2>3 DEF Of, InOrder
    <3>2. ~(r < s)
      BY <2>1, <2>3, <3>1 DEF InOrder, Done
    <3>. QED
      BY <2>2, <3>1, <3>2
  <2>4. ASSUME s = r PROVE \A k \in Of(u) : k < s => Done(k)
    BY <1>2, <2>1, <2>2, <2>4 DEF InOrder
  <2>5. s \in sent' => s <= view'[u]
    <3>1. s \in sent => s <= view[u]
      BY <2>1 DEF InOrder
    <3>2. CASE s = r
      BY <1>7, <2>2, <3>2
    <3>3. CASE s # r
      BY <1>4, <1>7, <2>3, <3>1, <3>3
    <3>. QED
      BY <3>2, <3>3
  <2>6. s \in sent' => \A k \in Of(u) : k < s => Done(k)
    <3>1. CASE s = r
      BY <2>4, <3>1
    <3>2. CASE s # r
      BY <1>4, <2>1, <3>2 DEF InOrder
    <3>. QED
      BY <3>1, <3>2
  <2>7. s \notin waiting'
    BY <1>3, <2>1 DEF InOrder
  <2>. QED
    BY <1>9, <2>2, <2>5, <2>6, <2>7
<1>11. disturbed' = disturbed /\ status' = status
  BY <1>3
<1>12. \A u \in Users \ disturbed' : \A s \in Of(u) :
          /\ s \notin waiting'
          /\ \/ status'[s] = status[s]
             \/ Done(s)' /\ s \in Held(w) /\ s \notin x.batch
          /\ s \in Held(w) => s \in x.batch \/ Done(s)' \/ x.batch = {}
          /\ s \in x.batch /\ s = Min(x.batch) => x.pc # "backoff"
          /\ s \in sent' => s <= view'[u] /\ \A k \in Of(u) : k < s => Done(k)'
  BY <1>5, <1>10, <1>11
<1>. QED
  BY <1>3, <1>5, <1>8, <1>11, <1>12, OrderHeld

LEMMA TurnOrder ==
    ASSUME DeliveryInv, OrderInv, NEW w \in Workers,
           PublishFails(w) \/ MarkFails(w) \/ Interrupt(w)
    PROVE  OrderInv'
<1>. USE DEF DeliveryInv
<1>1. UNCHANGED <<event, rank, status, waiting, disturbed, sent, view>>
  BY DEF PublishFails, MarkFails, Interrupt, tableVars
<1>2. PICK x : Moves(w, x) /\ (x.batch = Held(w) \/ x.batch = {}) /\ x.pc # "backoff"
  <2>1. CASE PublishFails(w) \/ MarkFails(w)
    <3>1. PICK x : Moves(w, x) /\ x.pc = "fail" /\ x.batch = Held(w)
      BY <2>1, Going DEF PublishFails, MarkFails
    <3>. QED
      BY <3>1
  <2>2. CASE Interrupt(w)
    BY <2>2, Interrupted
  <2>. QED
    BY <2>1, <2>2
<1>3. ViewsAreSent'
  BY <1>1, ViewsStay
<1>4. \A k \in Rows : Done(k)' = Done(k)
  BY <1>1 DEF Done
<1>5. \A u \in Users : Of(u) \subseteq Rows
  BY Types DEF Of
<1>6. \A u \in Users \ disturbed' : \A s \in Of(u) :
          /\ s \notin waiting'
          /\ s \in sent' => s <= view'[u] /\ \A k \in Of(u) : k < s => Done(k)'
  BY <1>1, <1>4, <1>5 DEF OrderInv, InOrder
<1>7. \A u \in Users \ disturbed' : \A s \in Of(u) :
          /\ s \notin waiting'
          /\ \/ status'[s] = status[s]
             \/ Done(s)' /\ s \in Held(w) /\ s \notin x.batch
          /\ s \in Held(w) => s \in x.batch \/ Done(s)' \/ x.batch = {}
          /\ s \in x.batch /\ s = Min(x.batch) => x.pc # "backoff"
          /\ s \in sent' => s <= view'[u] /\ \A k \in Of(u) : k < s => Done(k)'
  BY <1>1, <1>2, <1>6
<1>8. x.batch \subseteq Held(w) /\ disturbed \subseteq disturbed'
  BY <1>1, <1>2
<1>. QED
  BY <1>1, <1>2, <1>3, <1>7, <1>8, OrderHeld


LEMMA MarkOrder ==
    ASSUME DeliveryInv, OrderInv, NEW w \in Workers, Mark(w) \/ MarkFailed(w) \/ Backoff(w)
    PROVE  OrderInv'
<1>. USE DEF DeliveryInv
<1>0. PICK r : r = Current(w)
  OBVIOUS
<1>1. worker[w].pc \in {"mark", "fail", "backoff"} /\ worker[w].pc # "idle"
  BY DEF Mark, MarkFailed, Backoff
<1>2. r \in Held(w) /\ r \in Committed /\ r \in Rows /\ r = Min(Held(w))
  BY <1>0, <1>1, CurrentIsHeld DEF HeldAreCommitted, Current, Held
<1>3. UNCHANGED <<event, rank, sent, view>> /\ disturbed \subseteq disturbed'
  BY DEF Mark, MarkFailed, Backoff, tableVars
<1>4. ViewsAreSent'
  BY <1>3, ViewsStay
<1>5. \A u \in Users : Of(u) \subseteq Rows /\ \A k \in Of(u) : event[k].user = u
  BY Types DEF Of
<1>6. CASE Mark(w)
  <2>1. PICK x : Moves(w, x) /\ x.pc \in {"idle", "publish"} /\ x.batch = Held(w) \ {r}
    BY <1>0, <1>6, Proceeding DEF Mark
  <2>2. UNCHANGED <<waiting, disturbed>>
        /\ \A k \in Rows : \/ status'[k] = status[k] /\ k # r
                           \/ k = r /\ status'[k] \in {"published", "purged"}
    BY <1>0, <1>2, <1>6, Types DEF Mark
  <2>3. \A k \in Rows : (Done(k) => Done(k)') /\ (k = r => Done(k)')
    BY <2>2 DEF Done
  <2>4. \A u \in Users \ disturbed' : \A s \in Of(u) :
          /\ s \notin waiting'
          /\ s \in sent' => s <= view'[u] /\ \A k \in Of(u) : k < s => Done(k)'
    BY <1>3, <1>5, <2>2, <2>3 DEF OrderInv, InOrder
  <2>5. \A u \in Users \ disturbed' : \A s \in Of(u) :
          /\ s \notin waiting'
          /\ \/ status'[s] = status[s]
             \/ Done(s)' /\ s \in Held(w) /\ s \notin x.batch
          /\ s \in Held(w) => s \in x.batch \/ Done(s)' \/ x.batch = {}
          /\ s \in x.batch /\ s = Min(x.batch) => x.pc # "backoff"
          /\ s \in sent' => s <= view'[u] /\ \A k \in Of(u) : k < s => Done(k)'
    BY <1>2, <1>5, <2>1, <2>2, <2>3, <2>4
  <2>. QED
    BY <1>3, <1>4, <2>1, <2>5, OrderHeld
<1>7. CASE MarkFailed(w)
  <2>1. PICK x : Moves(w, x) /\ x.pc = "backoff" /\ x.batch = Held(w)
    BY <1>1, <1>7, Going DEF MarkFailed
  <2>2. /\ waiting' = waiting /\ event[r].user \in disturbed'
        /\ \A k \in Rows : k # r => status'[k] = status[k]
    BY <1>0, <1>2, <1>7, Types DEF MarkFailed
  <2>3. \A u \in Users \ disturbed' : \A s \in Of(u) :
          s # r /\ status'[s] = status[s] /\ (Done(s) => Done(s)')
    BY <1>5, <2>2 DEF Done
  <2>4. \A u \in Users \ disturbed' : \A s \in Of(u) :
          /\ s \notin waiting'
          /\ s \in sent' => s <= view'[u] /\ \A k \in Of(u) : k < s => Done(k)'
    BY <1>3, <2>2, <2>3 DEF OrderInv, InOrder
  <2>5. \A u \in Users \ disturbed' : \A s \in Of(u) :
          /\ s \notin waiting'
          /\ \/ status'[s] = status[s]
             \/ Done(s)' /\ s \in Held(w) /\ s \notin x.batch
          /\ s \in Held(w) => s \in x.batch \/ Done(s)' \/ x.batch = {}
          /\ s \in x.batch /\ s = Min(x.batch) => x.pc # "backoff"
          /\ s \in sent' => s <= view'[u] /\ \A k \in Of(u) : k < s => Done(k)'
    BY <1>2, <2>1, <2>3, <2>4
  <2>. QED
    BY <1>3, <1>4, <2>1, <2>5, OrderHeld
<1>8. CASE Backoff(w)
  <2>1. PICK x : Moves(w, x) /\ x.pc \in {"idle", "publish"} /\ x.batch = Held(w) \ {r}
    BY <1>0, <1>8, Proceeding DEF Backoff
  <2>2. status' = status /\ waiting' = waiting \union {r} /\ worker[w].pc = "backoff" /\ disturbed' = disturbed
    BY <1>0, <1>8 DEF Backoff
  <2>3. ASSUME NEW u \in Users \ disturbed', NEW s \in Of(u) PROVE s # r
    <3>1. s \in Held(w) => ~(s = Current(w))
      BY <2>2 DEF OrderInv, InOrder
    <3>. QED
      BY <1>0, <1>2, <3>1
  <2>4. \A u \in Users \ disturbed' : \A s \in Of(u) :
          /\ s \notin waiting'
          /\ s \in sent' => s <= view'[u] /\ \A k \in Of(u) : k < s => Done(k)'
    BY <1>3, <2>2, <2>3 DEF OrderInv, InOrder, Done
  <2>5. \A u \in Users \ disturbed' : \A s \in Of(u) :
          /\ s \notin waiting'
          /\ \/ status'[s] = status[s]
             \/ Done(s)' /\ s \in Held(w) /\ s \notin x.batch
          /\ s \in Held(w) => s \in x.batch \/ Done(s)' \/ x.batch = {}
          /\ s \in x.batch /\ s = Min(x.batch) => x.pc # "backoff"
          /\ s \in sent' => s <= view'[u] /\ \A k \in Of(u) : k < s => Done(k)'
    BY <2>1, <2>2, <2>3, <2>4
  <2>. QED
    BY <1>3, <1>4, <2>1, <2>5, OrderHeld
<1>. QED
  BY <1>6, <1>7, <1>8

LEMMA OrderInit == Init => OrderInv
<1>. SUFFICES ASSUME Init PROVE OrderInv
  OBVIOUS
<1>1. Committed = {} /\ sent = {} /\ \A u \in Users : view[u] = 0
  BY InitialRows DEF Init
<1>2. \A u \in Users : Of(u) = {}
  BY <1>1 DEF Of
<1>. QED
  BY <1>1, <1>2 DEF OrderInv, ViewsAreSent, InOrder

LEMMA OrderNext ==
    ASSUME DeliveryInv, OrderInv, [Next]_vars
    PROVE  OrderInv'
<1>1. CASE UNCHANGED vars
  <2>1. UNCHANGED <<worker, sent, view, waiting, disturbed, rank, event, status>>
    BY <1>1 DEF vars
  <2>. QED
    BY <2>1, OrderStays DEF Committed
<1>2. CASE TurnStep
  <2>1. PICK w \in Workers : Tick(w) \/ PublishFails(w) \/ MarkFails(w) \/ Interrupt(w)
    BY Zenon, <1>2 DEF TurnStep
  <2>. QED
    BY <2>1, TickOrder, TurnOrder
<1>3. CASE SendStep
  BY Zenon, <1>3, SendOrder DEF SendStep
<1>4. CASE MarkStep
  BY Zenon, <1>4, MarkOrder DEF MarkStep
<1>5. CASE EditStep
  <2>1. UNCHANGED <<worker, sent, view, waiting, disturbed, rank, event, status>>
    BY <1>5, EditTypes DEF DeliveryInv, workVars
  <2>. QED
    BY <2>1, OrderStays DEF Committed
<1>6. CASE Next
  BY <1>2, <1>3, <1>4, <1>5, <1>6, Steps, TableOrder, AroundOrder
<1>. QED
  BY <1>1, <1>6

\* Of an account that nothing disturbs, workers and stream follow the commits.
THEOREM OrderInvariant == Spec => [](DeliveryInv /\ OrderInv)
<1>1. Init => DeliveryInv /\ OrderInv
  BY DeliveryInit, OrderInit
<1>2. DeliveryInv /\ OrderInv /\ [Next]_vars => (DeliveryInv /\ OrderInv)'
  BY DeliveryNext, OrderNext
<1>. QED
  BY <1>1, <1>2, PTL DEF Spec

\* The last event sent about an account is, of those sent, the last committed,
\* unless the account's events were disturbed.
THEOREM OrderIsKept == Spec => []EventsKeepTheirOrder
<1>1. ASSUME DeliveryInv, OrderInv, NEW r \in sent, event[r].user \notin disturbed
      PROVE  ~Supersedes(r, view[event[r].user])
  <2>1. PICK u, v : u = event[r].user /\ v = view[u]
    OBVIOUS
  <2>2. r \in Rows /\ u \in Users \ disturbed /\ r \in Committed
    BY <1>1, <2>1, Types DEF DeliveryInv, SentAreCommitted
  <2>3. InOrder(u) /\ v \in sent /\ event[v].user = u
    BY <1>1, <2>1, <2>2 DEF OrderInv, ViewsAreSent
  <2>4. v \in Of(u) /\ r \in Of(u)
    BY <1>1, <2>1, <2>2, <2>3 DEF Of, DeliveryInv, SentAreCommitted
  <2>5. r <= v /\ (r < v => rank[r] < rank[v])
    BY <1>1, <2>1, <2>3, <2>4 DEF InOrder
  <2>6. r \in Nat /\ v \in Nat /\ rank[r] \in Nat /\ rank[v] \in Nat
    BY <1>1, <2>4, Types DEF DeliveryInv, Of
  <2>7. ~(rank[v] < rank[r])
    BY <2>5, <2>6
  <2>. QED
    BY <2>1, <2>7 DEF Supersedes
<1>2. DeliveryInv /\ OrderInv => EventsKeepTheirOrder
  BY <1>1 DEF EventsKeepTheirOrder
<1>. QED
  BY <1>2, OrderInvariant, PTL


-----------------------------------------------------------------------------
(* What the last event of an account tells *)

\* Rows stay, and accounts but for those that are misled from now on; a page is
\* dropped, or read.
LEMMA TellStays ==
    ASSUME TypeOK, TellInv, Committed' = Committed,
           \A u \in Users : account'[u] = account[u] \/ u \in misled',
           misled \subseteq misled', disturbed \subseteq disturbed',
           \A r \in Committed : event'[r] = event[r],
           replay'.listed \subseteq replay.listed \union Listed
    PROVE  TellInv'
<1>1. ASSUME NEW u \in Users, u \notin disturbed', u \notin misled' PROVE Tells(u)'
  <2>1. Of(u)' = Of(u) /\ Of(u) \subseteq Committed
    BY DEF Of
  <2>2. \A r \in Of(u) : SaysPresent(r)' <=> SaysPresent(r)
    BY <2>1 DEF SaysPresent
  <2>3. Tells(u)
    BY <1>1 DEF TellInv
  <2>4. account'[u] = account[u]
    BY <1>1
  <2>. QED
    BY <2>1, <2>2, <2>3, <2>4 DEF Tells
<1>2. \A u \in replay'.listed : account'[u] = "present" \/ u \in misled'
  <2>1. replay.listed \subseteq Users
    BY Types DEF Replay
  <2>. QED
    BY <2>1 DEF TellInv, Listed
<1>. QED
  BY <1>1, <1>2 DEF TellInv

\* The rows that are committed come last of their accounts, and tell the state.
LEMMA TellGrows ==
    ASSUME DeliveryInv, TellInv, disturbed \subseteq disturbed', NEW rows,
           \A u \in misled : u \in misled' \/ \E r \in rows : event'[r].user = u,
           Committed' = Committed \union rows, rows \subseteq Rows,
           \A r \in Committed : event'[r] = event[r],
           \A r \in rows :
              event'[r].user \notin disturbed' \union misled' =>
                 /\ \A k \in Committed : event[k].user = event'[r].user => k < r
                 /\ SaysPresent(r)' <=> account'[event'[r].user] = "present",
           \A u \in Users :
              account'[u] = account[u] \/ \E r \in rows : event'[r].user = u,
           \A u \in replay'.listed : account'[u] = "present" \/ u \in misled'
    PROVE  TellInv'
<1>1. ASSUME NEW u \in Users, u \notin disturbed', u \notin misled' PROVE Tells(u)'
  <2>. DEFINE new == {r \in rows : event'[r].user = u}
  <2>1. Of(u)' = Of(u) \union new /\ Of(u) \subseteq Committed
    BY DEF Of
  <2>2. \A k \in Of(u) : k \in Committed /\ event[k].user = u /\ k \in Nat
    BY Types DEF Of, DeliveryInv
  <2>3. \A r \in new : /\ r \in Nat /\ \A k \in Of(u) : k < r
                       /\ SaysPresent(r)' <=> account'[u] = "present"
    BY <1>1, <2>2, Numbers
  <2>4. \A r \in Of(u) : SaysPresent(r)' <=> SaysPresent(r)
    BY <2>1 DEF SaysPresent
  <2>5. new = {} => Tells(u)
    BY <1>1 DEF TellInv
  <2>6. new = {} => account'[u] = account[u]
    OBVIOUS
  <2>. HIDE DEF new
  <2>7. CASE new = {}
    BY <2>1, <2>4, <2>5, <2>6, <2>7 DEF Tells
  <2>8. CASE new # {}
    <3>1. PICK n \in new : TRUE
      BY <2>8
    <3>2. ASSUME NEW r \in Of(u)', \A s \in Of(u)' : s <= r PROVE r \in new
      <4>1. n <= r
        BY <2>1, <3>1, <3>2
      <4>2. r \in Of(u) => r < n
        BY <2>3, <3>1
      <4>3. r \in Nat /\ n \in Nat
        BY <2>1, <2>2, <2>3, <3>1, <3>2
      <4>. QED
        BY <2>1, <3>2, <4>1, <4>2, <4>3
    <3>3. Of(u)' # {}
      BY <2>1, <3>1
    <3>. QED
      BY <2>3, <3>2, <3>3 DEF Tells
  <2>. QED
    BY <2>7, <2>8
<1>. QED
  BY <1>1 DEF TellInv

LEMMA CommitTells ==
    ASSUME DeliveryInv, TellInv, NEW r \in Rows, Commit(r)
    PROVE  TellInv'
<1>. USE DEF DeliveryInv
<1>1. PICK u, op, base : u = event[r].user /\ op = event[r].op /\ base = event[r].base
  OBVIOUS
<1>2. PICK to : to = Outcome(op, base)
  OBVIOUS
<1>3. /\ r \notin Committed /\ Committed' = Committed \union {r}
      /\ op \in AccountOps /\ u \in Users /\ base \in States /\ Admits(op, base)
  BY <1>1, Committing
<1>4. /\ account' = [account EXCEPT ![u] = to]
      /\ disturbed \subseteq disturbed'
  BY <1>1, <1>2, CommitTypes
<1>5. /\ event' = event
      /\ (\E s \in Committed : s > r /\ event[s].user = u) => u \in disturbed'
      /\ op = "setActive" /\ base = "deleted" => u \in misled'
      /\ to = "deleted" /\ u \in replay.listed => u \in misled'
      /\ \A v \in misled : v # u => v \in misled'
  BY <1>1, <1>2 DEF Commit
<1>6. replay'.listed = replay.listed
  BY ReplayGoesOn DEF Commit
<1>7. /\ to \in {"present", "deleted"}
      /\ op # "setActive" => (to = "present" <=> op \notin {"delete", "erase"})
      /\ op = "setActive" => to = base
  BY <1>2, <1>3, Outcomes
<1>8. \A v \in Users : account'[v] = IF v = u THEN to ELSE account[v]
  BY <1>3, <1>4, Types
<1>9. replay.listed \subseteq Users
  BY Types DEF Replay
<1>10. \A v \in replay'.listed : account'[v] = "present" \/ v \in misled'
  BY <1>4, <1>5, <1>6, <1>7, <1>8, <1>9 DEF TellInv
<1>11. ASSUME u \notin disturbed' \union misled'
       PROVE  /\ \A k \in Committed : event[k].user = u => k < r
              /\ SaysPresent(r)' <=> account'[u] = "present"
  <2>1. \A k \in Committed : k \in Nat /\ k # r /\ r \in Nat
    BY <1>3, Types
  <2>2. op \notin {"delete", "erase"} <=> to = "present"
    BY <1>3, <1>5, <1>7, <1>11
  <2>3. SaysPresent(r)' <=> op \notin {"delete", "erase"}
    BY <1>1, <1>5 DEF SaysPresent
  <2>. QED
    BY <1>3, <1>5, <1>8, <1>11, <2>1, <2>2, <2>3
<1>12. \A k \in {r} : event'[k].user \notin disturbed' \union misled' =>
          /\ \A j \in Committed : event[j].user = event'[k].user => j < k
          /\ SaysPresent(k)' <=> account'[event'[k].user] = "present"
  BY <1>1, <1>5, <1>11
<1>13. \A v \in Users : account'[v] = account[v] \/ \E k \in {r} : event'[k].user = v
  BY <1>1, <1>5, <1>8
<1>14. \A k \in Committed : event'[k] = event[k]
  BY <1>5
<1>15. \A v \in misled : v \in misled' \/ \E k \in {r} : event'[k].user = v
  BY <1>1, <1>5
<1>. QED
  BY <1>3, <1>4, <1>10, <1>12, <1>13, <1>14, <1>15, TellGrows

LEMMA InsertTells ==
    ASSUME DeliveryInv, TellInv, ReplayInsert
    PROVE  TellInv'
<1>. USE DEF DeliveryInv
<1>1. PICK rows, order : Inserts(rows, order)
  BY Inserting
<1>2. /\ UNCHANGED <<account, disturbed>>
      /\ misled' = misled \ {u \in replay.listed : account[u] = "present"}
  BY DEF ReplayInsert
<1>3. replay'.listed = {}
  BY InsertGoesOn
<1>4. /\ Committed' = Committed \union rows /\ rows \subseteq Rows
      /\ \A r \in rows : /\ r \notin Committed /\ event'[r].op = "replay"
                         /\ event'[r].user \in replay.listed
                         /\ \A k \in Committed : k < r
      /\ \A u \in replay.listed : \E r \in rows : event'[r].user = u
  BY <1>1 DEF Inserts
<1>5. \A k \in Committed : event'[k] = event[k]
  <2>1. \A k \in Committed : k \in Rows \ rows
    BY <1>4, Types
  <2>. QED
    BY <1>1, <2>1 DEF Inserts
<1>6. \A r \in rows : SaysPresent(r)'
  BY <1>4 DEF SaysPresent
<1>7. \A r \in rows : event'[r].user \notin disturbed' \union misled' =>
          /\ \A k \in Committed : event[k].user = event'[r].user => k < r
          /\ SaysPresent(r)' <=> account'[event'[r].user] = "present"
  BY <1>2, <1>4, <1>6 DEF TellInv
<1>8. \A u \in misled : u \in misled' \/ \E r \in rows : event'[r].user = u
  BY <1>2, <1>4
<1>. QED
  BY <1>2, <1>3, <1>4, <1>5, <1>7, <1>8, TellGrows

\* A write that changes an account misleads about it.
LEMMA EditTells ==
    ASSUME DeliveryInv, TellInv, EditStep
    PROVE  TellInv'
<1>. USE DEF DeliveryInv
<1>1. Committed' = Committed /\ UNCHANGED <<event, disturbed>>
  BY EditTypes DEF Committed
<1>2. /\ \A u \in Users : account'[u] = account[u] \/ u \in misled'
      /\ misled \subseteq misled' /\ replay'.listed = replay.listed
  <2>1. ASSUME NEW u \in Users, EditRead(u) PROVE UNCHANGED <<account, misled, replay>>
    BY <2>1 DEF EditRead
  <2>2. ASSUME NEW e \in Edit, EditRollback(e) PROVE UNCHANGED <<account, misled, replay>>
    BY <2>2 DEF EditRollback
  <2>3. ASSUME NEW e \in Edit, EditWrite(e)
        PROVE  /\ \A u \in Users : account'[u] = account[u] \/ u \in misled'
               /\ misled \subseteq misled' /\ replay'.listed = replay.listed
    <3>1. replay'.listed = replay.listed
      BY <2>3, ReplayGoesOn DEF EditWrite
    <3>2. /\ \A u \in Users : u # e.user => account'[u] = account[u]
          /\ account'[e.user] = account[e.user] \/ e.user \in misled'
          /\ misled \subseteq misled'
      <4>1. e.user \in Users
        BY DEF Edit
      <4>. QED
        BY <2>3, <4>1, Types DEF EditWrite
    <3>. QED
      BY <3>1, <3>2
  <2>. QED
    BY <2>1, <2>2, <2>3 DEF EditStep
<1>. QED
  BY <1>1, <1>2, TellStays


\* What the listener does between its transactions.
LEMMA ReplaySteps ==
    ASSUME TypeOK, AroundStep
    PROVE  /\ replay'.listed \subseteq replay.listed \union Listed
           /\ UNCHANGED <<account, edits, event, rank, disturbed, misled>>
<1>1. CASE ReplayStart \/ ReplayAck
  <2>1. NoReplay.listed = {} /\ [NoReplay EXCEPT !.pc = "list", !.owed = Listed].listed = {}
    BY DEF NoReplay
  <2>2. replay'.listed = {}
    BY <1>1, <2>1 DEF ReplayStart, ReplayAck
  <2>. QED
    BY <1>1, <2>2 DEF ReplayStart, ReplayAck, tableVars
<1>2. CASE ReplayList
  <2>1. PICK page : page = PageOf(replay.page) /\ page \subseteq Listed
    BY DEF PageOf
  <2>2. replay'.listed \subseteq replay.listed \union page
    BY <1>2, <2>1, Types DEF ReplayList, Replay
  <2>. QED
    BY <1>2, <2>1, <2>2 DEF ReplayList, tableVars
<1>3. CASE ReplayFails
  <2>1. replay'.listed = {}
    BY <1>3, Types DEF ReplayFails, Replay
  <2>. QED
    BY <1>3, <2>1 DEF ReplayFails, tableVars
<1>4. CASE RedisDown \/ RedisUp
  BY <1>4 DEF RedisDown, RedisUp, tableVars
<1>5. ASSUME NEW r \in Rows, Elapse(r) \/ Purge(r)
      PROVE  UNCHANGED <<account, edits, event, rank, disturbed, misled, replay>>
  BY <1>5 DEF Elapse, Purge, tableVars
<1>. QED
  BY <1>1, <1>2, <1>3, <1>4, <1>5 DEF AroundStep

\* Workers leave accounts, rows and the listener alone.
LEMMA WorkersSteps ==
    ASSUME SendStep \/ TurnStep \/ MarkStep
    PROVE  UNCHANGED <<account, edits, begun, event, rank, misled, replay>> /\ disturbed \subseteq disturbed'
<1>1. ASSUME NEW w \in Workers, Publish(w) \/ PublishAgain(w)
      PROVE  UNCHANGED <<account, edits, begun, event, rank, misled, replay, disturbed>>
  BY <1>1 DEF Publish, PublishAgain, tableVars
<1>2. ASSUME NEW w \in Workers, Tick(w) \/ PublishFails(w) \/ MarkFails(w) \/ Interrupt(w)
      PROVE  UNCHANGED <<account, edits, begun, event, rank, misled, replay>> /\ disturbed \subseteq disturbed'
  BY <1>2 DEF Tick, PublishFails, MarkFails, Interrupt, tableVars
<1>3. ASSUME NEW w \in Workers, Mark(w) \/ MarkFailed(w) \/ Backoff(w)
      PROVE  UNCHANGED <<account, edits, begun, event, rank, misled, replay>> /\ disturbed \subseteq disturbed'
  BY <1>3 DEF Mark, MarkFailed, Backoff, tableVars
<1>4. CASE SendStep
  BY <1>1, <1>4 DEF SendStep
<1>5. CASE TurnStep
  BY <1>2, <1>5 DEF TurnStep
<1>6. CASE MarkStep
  BY <1>3, <1>6 DEF MarkStep
<1>. QED
  BY <1>4, <1>5, <1>6

LEMMA TellInit == Init => TellInv
<1>. SUFFICES ASSUME Init PROVE TellInv
  OBVIOUS
<1>1. Committed = {} /\ (\A u \in Users : account[u] = "none") /\ replay.listed = {}
  BY InitialRows DEF Init, NoReplay
<1>2. \A u \in Users : Of(u) = {}
  BY <1>1 DEF Of
<1>. QED
  BY <1>1, <1>2 DEF TellInv, Tells

LEMMA TellNext ==
    ASSUME DeliveryInv, TellInv, [Next]_vars
    PROVE  TellInv'
<1>. USE DEF DeliveryInv
<1>1. ASSUME NEW op \in AccountOps, NEW u \in Users, Begin(op, u) PROVE TellInv'
  <2>1. Committed' = Committed /\ \A k \in Committed : event'[k] = event[k]
    BY <1>1, Beginning, Types
  <2>2. UNCHANGED <<account, misled, disturbed, replay>>
    BY <1>1 DEF Begin
  <2>. QED
    BY <2>1, <2>2, TellStays
<1>2. ASSUME NEW r \in Rows, Rollback(r) PROVE TellInv'
  <2>1. UNCHANGED <<account, misled, disturbed, replay, event, rank>>
    BY <1>2 DEF Rollback, tableVars
  <2>. QED
    BY <2>1, TellStays DEF Committed
<1>3. CASE TableStep
  BY Zenon, <1>1, <1>2, <1>3, CommitTells, InsertTells DEF TableStep
<1>7. CASE EditStep
  BY <1>7, EditTells
<1>4. CASE AroundStep
  <2>1. /\ replay'.listed \subseteq replay.listed \union Listed
        /\ UNCHANGED <<account, event, rank, disturbed, misled>>
    BY <1>4, ReplaySteps
  <2>2. Committed' = Committed
    BY <2>1 DEF Committed
  <2>. QED
    BY <2>1, <2>2, TellStays
<1>5. CASE SendStep \/ TurnStep \/ MarkStep
  <2>1. UNCHANGED <<account, event, rank, misled, replay>> /\ disturbed \subseteq disturbed'
    BY <1>5, WorkersSteps
  <2>2. Committed' = Committed
    BY <2>1 DEF Committed
  <2>. QED
    BY <2>1, <2>2, TellStays
<1>6. CASE UNCHANGED vars
  <2>1. UNCHANGED <<account, event, rank, misled, replay, disturbed>>
    BY <1>6 DEF vars
  <2>2. Committed' = Committed
    BY <2>1 DEF Committed
  <2>. QED
    BY <2>1, <2>2, TellStays
<1>. QED
  BY <1>3, <1>4, <1>5, <1>6, <1>7, Steps

\* The last event sent about an account tells whether it is there, once all events
\* are published: but for the accounts whose events were disturbed or misled.
THEOREM DrainedTellsAccounts == Spec => []DrainedOutboxTellsTheAccounts
<1>1. ASSUME DeliveryInv, OrderInv, TellInv, Drained, NEW u \in Users,
             u \notin disturbed, u \notin misled
      PROVE  \/ view[u] = 0 /\ account[u] = "none"
             \/ view[u] # 0 /\ (SaysPresent(view[u]) <=> account[u] = "present")
  <2>1. Tells(u) /\ InOrder(u) /\ ViewsAreSent
    BY <1>1 DEF TellInv, OrderInv
  <2>2. \A r \in Of(u) : r \in Rows /\ event[r].user = u
    BY <1>1, Types DEF DeliveryInv, Of
  <2>3. \A r \in Of(u) : r \in sent
    BY <1>1, <2>1, <2>2 DEF InOrder, Drained, Done, DeliveryInv, PublishedRowsWereSent
  <2>4. \A r \in Of(u) : r <= view[u] /\ view[u] # 0
    BY <2>1, <2>2, <2>3 DEF InOrder, ViewsAreSent
  <2>5. CASE view[u] = 0
    BY <2>1, <2>4, <2>5 DEF Tells
  <2>6. CASE view[u] # 0
    <3>1. view[u] \in Of(u)
      BY <1>1, <2>1, <2>6 DEF ViewsAreSent, Of, DeliveryInv, SentAreCommitted
    <3>. QED
      BY <2>1, <2>4, <2>6, <3>1 DEF Tells
  <2>. QED
    BY <2>5, <2>6
<1>2. DeliveryInv /\ OrderInv /\ TellInv => DrainedOutboxTellsTheAccounts
  BY <1>1 DEF DrainedOutboxTellsTheAccounts
<1>3. Init => DeliveryInv /\ OrderInv /\ TellInv
  BY DeliveryInit, OrderInit, TellInit
<1>4. DeliveryInv /\ OrderInv /\ TellInv /\ [Next]_vars => (DeliveryInv /\ OrderInv /\ TellInv)'
  BY DeliveryNext, OrderNext, TellNext
<1>. QED
  BY <1>2, <1>3, <1>4, PTL DEF Spec


-----------------------------------------------------------------------------
(* The pages of a replay leave nobody out *)

LEMMA BornIs ==
    ASSUME BornOnce, NEW u \in Users, NEW r \in Committed, Birth(r, u)
    PROVE  Born(u) = r
<1>1. \A s \in Committed : event[s].op = "register" /\ event[s].user = u => s = r
  BY DEF BornOnce, Birth
<1>. QED
  BY <1>1 DEF Born, Birth

LEMMA Births ==
    ASSUME TypeOK, BornOnce
    PROVE  /\ Listed \subseteq Users
           /\ \A u \in Listed : Born(u) \in Committed /\ Birth(Born(u), u) /\ Born(u) \in Nat
           /\ \A u, v \in Listed : Born(u) = Born(v) => u = v
           /\ \A u \in Listed : /\ Before(u) \subseteq Listed /\ IsFiniteSet(Before(u))
                                /\ Cardinality(Before(u)) \in Nat
<1>1. Listed \subseteq Users
  BY DEF Listed
<1>2. ASSUME NEW u \in Listed PROVE Born(u) \in Committed /\ Birth(Born(u), u) /\ Born(u) \in Nat
  <2>1. account[u] # "none" /\ u \in Users
    BY <1>2 DEF Listed
  <2>2. PICK r \in Committed : Birth(r, u)
    BY <2>1 DEF BornOnce
  <2>3. Born(u) = r
    BY <2>1, <2>2, BornIs
  <2>. QED
    BY <2>2, <2>3, Types
<1>3. \A u, v \in Listed : Born(u) = Born(v) => u = v
  BY <1>2 DEF Birth
<1>4. \A u \in Listed : Before(u) \subseteq Listed
  BY DEF Before
<1>5. \A u \in Listed : IsFiniteSet(Before(u)) /\ Cardinality(Before(u)) \in Nat
  <2>1. \A u \in Listed : Before(u) \in SUBSET Users
    BY <1>1, <1>4
  <2>. QED
    BY <2>1, Numbers, FS_Subset, FS_CardinalityType
<1>. QED
  BY <1>1, <1>2, <1>3, <1>4, <1>5

\* Where somebody has at least j before, somebody has exactly j.
LEMMA NoGap ==
    ASSUME TypeOK, BornOnce, NEW u \in Listed, NEW j \in Nat, j <= Cardinality(Before(u))
    PROVE  \E v \in Listed : Cardinality(Before(v)) = j
<1>. DEFINE S == {v \in Listed : j <= Cardinality(Before(v))}
            N == {Cardinality(Before(v)) : v \in S}
<1>1. N \in SUBSET Nat /\ N # {}
  BY Births
<1>2. PICK n \in N : \A m \in N : n <= m
  <2>. HIDE DEF N
  <2>. QED
    BY <1>1, Least
<1>3. PICK v \in Listed : Cardinality(Before(v)) = n /\ j <= n
  OBVIOUS
<1>4. \A x \in Listed : j <= Cardinality(Before(x)) => n <= Cardinality(Before(x))
  BY <1>2
<1>. HIDE DEF N, S
<1>5. n \in Nat
  BY <1>1
<1>6. CASE n = j
  BY <1>3, <1>6
<1>7. CASE n # j
  <2>. DEFINE B == {Born(x) : x \in Before(v)}
  <2>1. Before(v) \subseteq Listed /\ IsFiniteSet(Before(v))
    BY <1>3, Births
  <2>2. Before(v) # {}
    BY <1>3, <1>5, <1>7, FS_EmptySet
  <2>3. B \in SUBSET Nat /\ B # {}
    BY <2>1, <2>2, Births
  <2>4. PICK b \in B : \A c \in B : b <= c
    <3>. HIDE DEF B
    <3>. QED
      BY <2>3, Least
  <2>5. PICK t \in Before(v) : \A x \in Before(v) : Born(t) <= Born(x)
    BY <2>4
  <2>. HIDE DEF B
  <2>6. t \in Listed /\ Born(t) > Born(v)
    BY <2>1, <2>5 DEF Before
  <2>7. \A x \in Listed : Born(x) \in Nat /\ (Born(x) = Born(t) => x = t)
    BY <2>6, Births
  <2>8. Before(t) = Before(v) \ {t}
    <3>1. \A x \in Before(v) : x # t => Born(x) > Born(t)
      BY <2>1, <2>5, <2>6, <2>7
    <3>2. \A x \in Listed : Born(x) > Born(t) => Born(x) > Born(v)
      BY <1>3, <2>6, <2>7
    <3>3. ~(Born(t) > Born(t))
      BY <2>6, <2>7
    <3>. QED
      BY <2>1, <3>1, <3>2, <3>3 DEF Before
  <2>9. Cardinality(Before(t)) = n - 1
    <3>1. Cardinality(Before(v) \ {t}) = Cardinality(Before(v)) - 1
      BY <2>1, <2>5, FS_RemoveElement
    <3>. QED
      BY <1>3, <2>8, <3>1
  <2>10. j <= n - 1
    BY <1>3, <1>5, <1>7
  <2>11. n <= n - 1
    BY <1>4, <2>6, <2>9, <2>10
  <2>. QED
    BY <1>5, <2>11
<1>. QED
  BY <1>6, <1>7

LEMMA Offsets ==
    ASSUME NEW k \in Nat, k >= 1
    PROVE  /\ (k - 1) * PageSize \in Nat /\ k * PageSize \in Nat
           /\ k * PageSize = (k - 1) * PageSize + PageSize
           /\ PageSize \in Nat /\ PageSize >= 1
<1>1. PICK j : j = k - 1 /\ j \in Nat
  OBVIOUS
<1>2. PageSize \in Nat /\ PageSize >= 1
  BY Numbers
<1>3. (j + 1) * PageSize = j * PageSize + PageSize /\ j * PageSize \in Nat
  BY <1>1, <1>2
<1>. QED
  BY <1>1, <1>2, <1>3

\* The pages are contiguous: one that is empty, or not full, is behind the last.
LEMMA PagesFollow ==
    ASSUME TypeOK, BornOnce, NEW k \in Nat, k >= 1, NEW u \in Listed
    PROVE  /\ u \in PageOf(k) <=> /\ (k - 1) * PageSize <= Cardinality(Before(u))
                                  /\ Cardinality(Before(u)) < k * PageSize
           /\ (k - 1) * PageSize <= Cardinality(Before(u)) => PageOf(k) # {}
           /\ k * PageSize <= Cardinality(Before(u)) => Cardinality(PageOf(k)) >= PageSize
<1>. DEFINE from == (k - 1) * PageSize
            to == k * PageSize
<1>1. from \in Nat /\ to \in Nat /\ to = from + PageSize /\ PageSize \in Nat /\ PageSize >= 1
  BY Offsets
<1>2. \A v : v \in PageOf(k) <=> /\ v \in Listed
                                 /\ from <= Cardinality(Before(v)) /\ Cardinality(Before(v)) < to
  BY Births DEF PageOf, Before
<1>. HIDE DEF from, to
<1>3. \A v \in Listed : Cardinality(Before(v)) \in Nat
  BY Births
<1>4. ASSUME from <= Cardinality(Before(u)) PROVE PageOf(k) # {}
  <2>1. PICK v \in Listed : Cardinality(Before(v)) = from
    BY <1>1, <1>4, NoGap
  <2>. QED
    BY <1>1, <1>2, <2>1
<1>5. ASSUME to <= Cardinality(Before(u)) PROVE Cardinality(PageOf(k)) >= PageSize
  <2>. DEFINE places == 1 .. PageSize
              f == [i \in places |-> CHOOSE v \in Listed : Cardinality(Before(v)) = from + i - 1]
  <2>1. \A i \in places : /\ from + i - 1 \in Nat /\ from <= from + i - 1
                          /\ from + i - 1 < to /\ from + i - 1 <= Cardinality(Before(u))
    BY <1>1, <1>3, <1>5
  <2>2. ASSUME NEW i \in places PROVE f[i] \in Listed /\ Cardinality(Before(f[i])) = from + i - 1
    <3>1. \E v \in Listed : Cardinality(Before(v)) = from + i - 1
      BY <2>1, NoGap
    <3>. QED
      BY <3>1
  <2>3. f \in [places -> PageOf(k)]
    <3>1. \A i \in places : f[i] \in PageOf(k)
      BY <1>2, <2>1, <2>2
    <3>. QED
      BY <3>1
  <2>4. \A i, j \in places : f[i] = f[j] => i = j
    <3>1. \A i \in places : i \in Nat
      BY <1>1
    <3>2. ASSUME NEW i \in places, NEW j \in places, f[i] = f[j] PROVE i = j
      <4>1. from + i - 1 = from + j - 1
        BY <2>2, <3>2
      <4>. QED
        BY <1>1, <3>1, <4>1
    <3>. QED
      BY <3>2
  <2>. HIDE DEF f
  <2>5. f \in Injection(places, PageOf(k))
    BY <2>3, <2>4 DEF Injection, IsInjective
  <2>6. IsFiniteSet(PageOf(k)) /\ Cardinality(PageOf(k)) \in Nat
    <3>1. PageOf(k) \in SUBSET Users
      BY <1>2, Births
    <3>. QED
      BY <3>1, Numbers, FS_Subset, FS_CardinalityType
  <2>7. Cardinality(places) = PageSize
    BY <1>1, FS_Interval
  <2>8. Cardinality(places) <= Cardinality(PageOf(k))
    BY <2>5, <2>6, FS_Injection
  <2>. QED
    BY <1>1, <2>6, <2>7, <2>8
<1>. QED
  BY <1>2, <1>4, <1>5 DEF from, to


LEMMA BornStays ==
    ASSUME BornOnce, BornOnce', NEW u \in Users, NEW r \in Committed, Birth(r, u),
           r \in Committed', Birth(r, u)'
    PROVE  Born(u)' = Born(u)
<1>1. \A s \in Committed' : event'[s].op = "register" /\ event'[s].user = u => s = r
  BY DEF BornOnce, Birth
<1>2. Born(u)' = r
  BY <1>1 DEF Born, Birth
<1>. QED
  BY <1>2, BornIs

\* Rows are committed, and no account is born.
LEMMA BirthsStay ==
    ASSUME TypeOK, BornOnce, NEW rows, Committed' = Committed \union rows,
           \A r \in Committed : event'[r] = event[r],
           \A r \in rows : event'[r].op # "register",
           \A u \in Users : account'[u] = "none" <=> account[u] = "none",
           \A r \in Rows :
              status'[r] = "open" /\ event'[r].op # "register" =>
                 event'[r].user \in Users /\ account[event'[r].user] # "none"
    PROVE  BornOnce' /\ \A u \in Users : account[u] # "none" => Born(u)' = Born(u)
<1>1. \A r \in Committed', u \in Users :
         Birth(r, u)' => r \in Committed /\ Birth(r, u)
  BY DEF Birth
<1>2. \A r \in Committed, u \in Users : Birth(r, u) => r \in Committed' /\ Birth(r, u)'
  BY DEF Birth
<1>3. BornOnce'
  <2>1. \A r \in Committed', s \in Committed', u \in Users :
           Birth(r, u)' /\ Birth(s, u)' => r = s
    BY <1>1 DEF BornOnce
  <2>2. \A u \in Users : account'[u] = "none" <=> ~\E r \in Committed' : Birth(r, u)'
    BY <1>1, <1>2 DEF BornOnce
  <2>3. \A r \in Rows :
           status'[r] = "open" /\ event'[r].op # "register" => account'[event'[r].user] # "none"
    OBVIOUS
  <2>. QED
    BY <2>1, <2>2, <2>3 DEF BornOnce
<1>4. ASSUME NEW u \in Users, account[u] # "none" PROVE Born(u)' = Born(u)
  <2>1. PICK r \in Committed : Birth(r, u)
    BY <1>4 DEF BornOnce
  <2>. QED
    BY <1>2, <1>3, <2>1, BornStays
<1>. QED
  BY <1>3, <1>4

\* An account is born.
LEMMA CommitBirths ==
    ASSUME DeliveryInv, BornOnce, NEW r \in Rows, Commit(r)
    PROVE  BornOnce' /\ \A u \in Users : account[u] # "none" => Born(u)' = Born(u)
<1>. USE DEF DeliveryInv
<1>1. PICK u, op, base : u = event[r].user /\ op = event[r].op /\ base = event[r].base
  OBVIOUS
<1>2. PICK to : to = Outcome(op, base)
  OBVIOUS
<1>3. /\ status[r] = "open" /\ r \notin Committed /\ Committed' = Committed \union {r}
      /\ \A k \in Rows : k # r => status'[k] = status[k]
      /\ status' = [status EXCEPT ![r] = "pending"]
      /\ op \in AccountOps /\ u \in Users /\ base \in States /\ Admits(op, base)
  BY <1>1, Committing
<1>4. account' = [account EXCEPT ![u] = to] /\ to \in {"present", "deleted"}
  <2>1. to \in {"present", "deleted"}
    BY <1>2, <1>3, Outcomes
  <2>. QED
    BY <1>1, <1>2, <2>1, CommitTypes
<1>5. event' = event /\ (op = "register" => account[u] = "none")
  BY <1>1 DEF Commit
<1>6. \A v \in Users : account'[v] = IF v = u THEN to ELSE account[v]
  BY <1>3, <1>4, Types
<1>7. \A k \in Rows : status'[k] = "open" => status[k] = "open" /\ event[k].user \in Users
  BY <1>3, Types
<1>8. CASE op # "register"
  <2>1. account[u] # "none"
    BY <1>1, <1>3, <1>8 DEF BornOnce
  <2>2. \A v \in Users : account'[v] = "none" <=> account[v] = "none"
    BY <1>4, <1>6, <2>1
  <2>3. \A k \in Rows : status'[k] = "open" /\ event'[k].op # "register" =>
           event'[k].user \in Users /\ account[event'[k].user] # "none"
    BY <1>5, <1>7 DEF BornOnce
  <2>4. PICK rows : rows = {r}
    OBVIOUS
  <2>5. \A k \in rows : event'[k].op # "register"
    BY <1>1, <1>5, <1>8, <2>4
  <2>6. Committed' = Committed \union rows /\ \A k \in Committed : event'[k] = event[k]
    BY <1>3, <1>5, <2>4
  <2>. QED
    BY Zenon, <2>2, <2>3, <2>5, <2>6, BirthsStay
<1>9. CASE op = "register"
  <2>1. \A k \in Committed, v \in Users : Birth(k, v) => v # u
    BY <1>3, <1>5, <1>9 DEF BornOnce
  <2>2. \A k, v : Birth(k, v)' <=> Birth(k, v)
    BY <1>5 DEF Birth
  <2>3. \A v : Birth(r, v) <=> v = u
    BY <1>1, <1>9 DEF Birth
  <2>4. \A k \in Committed', j \in Committed', v \in Users : Birth(k, v) /\ Birth(j, v) => k = j
    BY <1>3, <2>1, <2>3 DEF BornOnce
  <2>5. \A v \in Users : account'[v] = "none" <=> ~\E k \in Committed' : Birth(k, v)
    BY <1>3, <1>4, <1>6, <2>1, <2>3 DEF BornOnce
  <2>6. \A k \in Rows :
           status'[k] = "open" /\ event'[k].op # "register" => account'[event'[k].user] # "none"
    BY <1>4, <1>5, <1>6, <1>7 DEF BornOnce
  <2>7. BornOnce'
    BY <2>2, <2>4, <2>5, <2>6 DEF BornOnce
  <2>8. ASSUME NEW v \in Users, account[v] # "none" PROVE Born(v)' = Born(v)
    <3>1. PICK k \in Committed : Birth(k, v)
      BY <2>8 DEF BornOnce
    <3>2. k \in Committed' /\ Birth(k, v)'
      BY <1>3, <2>2, <3>1
    <3>. QED
      BY <2>7, <3>1, <3>2, BornStays
  <2>. QED
    BY <2>7, <2>8
<1>. QED
  BY <1>8, <1>9

\* Who is listed stays so, and nobody has fewer before.
LEMMA BeforeGrows ==
    ASSUME TypeOK, BornOnce, Listed \subseteq Listed',
           \A v \in Users : account[v] # "none" => Born(v)' = Born(v),
           NEW u \in Listed
    PROVE  /\ Cardinality(Before(u)') \in Nat
           /\ Cardinality(Before(u)) <= Cardinality(Before(u)')
<1>1. Listed \subseteq Users /\ Listed' \subseteq Users
  BY DEF Listed
<1>2. \A v \in Listed : Born(v)' = Born(v)
  BY DEF Listed
<1>3. Before(u) \subseteq Before(u)' /\ Before(u)' \in SUBSET Users
  BY <1>1, <1>2 DEF Before
<1>4. IsFiniteSet(Before(u)') /\ Cardinality(Before(u)') \in Nat
  BY <1>3, Numbers, FS_Subset, FS_CardinalityType
<1>. QED
  BY <1>3, <1>4, FS_Subset

\* A step that leaves the listener where it is.
LEMMA PagesStay ==
    ASSUME TypeOK, BornOnce, PagesToCome, replay' = replay, Listed \subseteq Listed',
           \A v \in Users : account[v] # "none" => Born(v)' = Born(v)
    PROVE  PagesToCome'
<1>1. replay.page \in Nat /\ replay.page >= 1
  BY Types DEF Replay, PagesToCome
<1>2. \A u \in Listed : /\ Cardinality(Before(u)') \in Nat /\ Cardinality(Before(u)) \in Nat
                        /\ Cardinality(Before(u)) <= Cardinality(Before(u)')
  BY BeforeGrows, Births
<1>3. PICK from, to : from = (replay.page - 1) * PageSize /\ to = replay.page * PageSize
  OBVIOUS
<1>4. from \in Nat /\ to \in Nat
  BY <1>1, <1>3, Offsets
<1>5. \A u \in Listed : /\ from <= Cardinality(Before(u)) => from <= Cardinality(Before(u)')
                        /\ to <= Cardinality(Before(u)) => to <= Cardinality(Before(u)')
  BY <1>2, <1>4
<1>6. (replay.page - 1)' * PageSize = from /\ replay'.page * PageSize = to
  BY <1>3
<1>7. replay.pc \in {"list", "insert"} => replay.owed \subseteq Listed'
  BY DEF PagesToCome
<1>8. ASSUME ~replay.shifted, replay.pc = "list", NEW u \in replay.owed \ replay.done
      PROVE  from <= Cardinality(Before(u)')
  BY <1>3, <1>5, <1>8 DEF PagesToCome
<1>9. ASSUME ~replay.shifted, replay.pc = "insert",
             NEW u \in replay.owed \ (replay.done \union replay.listed)
      PROVE  to <= Cardinality(Before(u)')
  BY <1>3, <1>5, <1>9 DEF PagesToCome
<1>10. ~replay.shifted /\ replay.pc = "insert" /\ Cardinality(replay.listed) < PageSize =>
          replay.owed \subseteq replay.done \union replay.listed
  BY DEF PagesToCome
<1>11. ~replay.shifted /\ replay.pc = "done" => replay.owed \subseteq replay.done
  BY DEF PagesToCome
<1>. QED
  BY <1>1, <1>3, <1>7, <1>8, <1>9, <1>10, <1>11 DEF PagesToCome


\* An account that goes leaves what is owed; another only moves the pages on.
LEMMA PagesMove ==
    ASSUME DeliveryInv, PageInv, NEW u \in Users, NEW to,
           account' = [account EXCEPT ![u] = to], to \in {"present", "deleted"},
           replay' = Replaying(u, to),
           BornOnce', \A v \in Users : account[v] # "none" => Born(v)' = Born(v)
    PROVE  PageInv'
<1>. USE DEF DeliveryInv
<1>1. \A v \in Users : account'[v] = IF v = u THEN to ELSE account[v]
  BY Types
<1>2. CASE account[u] = "present" /\ to = "deleted" /\ replay.pc \in {"list", "insert"}
  <2>1. /\ replay'.pc = replay.pc /\ replay'.page = replay.page
        /\ replay'.owed = replay.owed \ {u} /\ replay'.shifted = TRUE
    BY <1>2, ReplayGoesOn
  <2>2. Listed \ {u} \subseteq Listed'
    BY <1>1 DEF Listed
  <2>. QED
    BY <1>2, <2>1, <2>2 DEF PageInv, PagesToCome
<1>3. CASE ~(account[u] = "present" /\ to = "deleted")
  <2>1. replay' = replay /\ Listed \subseteq Listed'
    BY <1>1, <1>3 DEF Listed, Replaying
  <2>. QED
    BY <2>1, PagesStay DEF PageInv
<1>4. CASE replay.pc \notin {"list", "insert"}
  <2>1. replay' = replay
    BY <1>4 DEF Replaying
  <2>. QED
    BY <1>4, <2>1 DEF PageInv, PagesToCome
<1>. QED
  BY <1>2, <1>3, <1>4

LEMMA CommitPages ==
    ASSUME DeliveryInv, PageInv, NEW r \in Rows, Commit(r)
    PROVE  PageInv'
<1>. USE DEF DeliveryInv
<1>1. PICK u, to : u = event[r].user /\ to = Outcome(event[r].op, event[r].base)
  OBVIOUS
<1>2. /\ u \in Users /\ account' = [account EXCEPT ![u] = to] /\ to \in {"present", "deleted"}
  <2>1. /\ event[r].op \in AccountOps /\ event[r].base \in States
        /\ Admits(event[r].op, event[r].base) /\ u \in Users
    BY <1>1, Committing
  <2>2. to \in {"present", "deleted"}
    BY <1>1, <2>1, Outcomes
  <2>. QED
    BY <1>1, <2>1, <2>2, CommitTypes
<1>3. replay' = Replaying(u, to)
  BY <1>1 DEF Commit
<1>4. BornOnce' /\ \A v \in Users : account[v] # "none" => Born(v)' = Born(v)
  BY CommitBirths DEF PageInv
<1>. QED
  BY <1>2, <1>3, <1>4, PagesMove

LEMMA InsertPages ==
    ASSUME DeliveryInv, PageInv, ReplayInsert
    PROVE  PageInv'
<1>. USE DEF DeliveryInv
<1>1. PICK rows, order : Inserts(rows, order)
  BY Inserting
<1>2. /\ Committed' = Committed \union rows /\ rows \subseteq Rows
      /\ \A r \in rows : r \notin Committed /\ event'[r].op = "replay" /\ status'[r] = "pending"
      /\ \A r \in Rows \ rows : event'[r] = event[r] /\ status'[r] = status[r]
  BY <1>1 DEF Inserts
<1>3. account' = account /\ Listed' = Listed
  BY DEF ReplayInsert, Listed
<1>4. \A r \in Committed : event'[r] = event[r]
  BY <1>2, Types
<1>5. \A r \in Rows : status'[r] = "open" /\ event'[r].op # "register" =>
         event'[r].user \in Users /\ account[event'[r].user] # "none"
  BY <1>2, Types DEF PageInv, BornOnce
<1>6. \A r \in rows : event'[r].op # "register"
  BY <1>2
<1>7. BornOnce' /\ \A v \in Users : account[v] # "none" => Born(v)' = Born(v)
  BY <1>2, <1>3, <1>4, <1>5, <1>6, BirthsStay DEF PageInv
<1>8. \A u \in Listed : /\ Cardinality(Before(u)') \in Nat /\ Cardinality(Before(u)) \in Nat
                        /\ Cardinality(Before(u)) <= Cardinality(Before(u)')
  BY <1>3, <1>7, BeforeGrows, Births DEF PageInv
<1>9. PICK n : n = Cardinality(replay.listed)
  OBVIOUS
<1>10. /\ replay.pc = "insert" /\ replay'.pc = IF n < PageSize THEN "done" ELSE "list"
       /\ replay'.page = replay.page + 1
       /\ replay'.done = replay.done \union replay.listed
       /\ replay'.owed = replay.owed /\ replay'.shifted = replay.shifted
  BY <1>9, InsertGoesOn
<1>11. replay.page \in Nat /\ replay.page >= 1 /\ replay.owed \subseteq Listed
  BY <1>10, Types DEF PageInv, PagesToCome, Replay
<1>12. PICK to : to = replay.page * PageSize /\ to \in Nat
  BY <1>11, Offsets
<1>13. (replay'.page - 1) * PageSize = to
  BY <1>10, <1>11, <1>12
<1>14. ASSUME ~replay.shifted
       PROVE  /\ n < PageSize => replay.owed \subseteq replay'.done
              /\ \A u \in replay.owed \ replay'.done : to <= Cardinality(Before(u)')
  <2>1. n < PageSize => replay.owed \subseteq replay.done \union replay.listed
    BY <1>9, <1>10, <1>14 DEF PageInv, PagesToCome
  <2>2. \A u \in replay.owed \ (replay.done \union replay.listed) : to <= Cardinality(Before(u))
    BY <1>10, <1>12, <1>14 DEF PageInv, PagesToCome
  <2>3. \A u \in replay.owed \ (replay.done \union replay.listed) : to <= Cardinality(Before(u)')
    BY <1>8, <1>11, <1>12, <2>2
  <2>. QED
    BY <1>10, <2>1, <2>3
<1>15. replay'.page >= 1 /\ replay'.pc \in {"done", "list"} /\ replay'.owed \subseteq Listed'
  BY <1>3, <1>10, <1>11
<1>16. PagesToCome'
  BY <1>10, <1>13, <1>14, <1>15 DEF PagesToCome
<1>. QED
  BY <1>7, <1>16 DEF PageInv

\* Accounts and rows stay.
LEMMA StillBirths ==
    ASSUME DeliveryInv, PageInv, UNCHANGED <<account, rank>>,
           \A r \in Committed : event'[r] = event[r],
           \A r \in Rows : status'[r] = "open" /\ event'[r].op # "register" =>
              event'[r].user \in Users /\ account[event'[r].user] # "none"
    PROVE  /\ BornOnce' /\ Listed' = Listed
           /\ \A v \in Users : account[v] # "none" => Born(v)' = Born(v)
<1>1. PICK rows : rows = {}
  OBVIOUS
<1>2. Committed' = Committed \union rows /\ \A r \in rows : event'[r].op # "register"
  BY <1>1 DEF Committed
<1>3. TypeOK /\ BornOnce
  BY DEF DeliveryInv, PageInv
<1>4. \A u \in Users : account'[u] = "none" <=> account[u] = "none"
  OBVIOUS
<1>5. BornOnce' /\ \A v \in Users : account[v] # "none" => Born(v)' = Born(v)
  BY <1>2, <1>3, <1>4, BirthsStay
<1>6. Listed' = Listed
  BY DEF Listed
<1>. QED
  BY <1>5, <1>6


\* The listener reads a page: nobody owed is left behind it.
LEMMA ListPages ==
    ASSUME DeliveryInv, PageInv, ReplayList
    PROVE  PageInv'
<1>. USE DEF DeliveryInv
<1>1. UNCHANGED <<account, event, rank, status>>
  BY DEF ReplayList, tableVars
<1>2. \A r \in Rows : status'[r] = "open" /\ event'[r].op # "register" =>
         event'[r].user \in Users /\ account[event'[r].user] # "none"
  BY <1>1, Types DEF PageInv, BornOnce
<1>3. /\ BornOnce' /\ Listed' = Listed
      /\ \A v \in Users : account[v] # "none" => Born(v)' = Born(v)
  BY <1>1, <1>2, StillBirths
<1>4. \A u \in Listed : /\ Cardinality(Before(u)') \in Nat /\ Cardinality(Before(u)) \in Nat
                        /\ Cardinality(Before(u)) <= Cardinality(Before(u)')
  BY <1>3, BeforeGrows, Births DEF PageInv
<1>5. PICK k, page : k = replay.page /\ page = PageOf(k)
  OBVIOUS
<1>6. /\ replay.pc = "list" /\ k \in Nat /\ k >= 1 /\ replay.owed \subseteq Listed
      /\ ~replay.shifted => \A u \in replay.owed \ replay.done :
                               (k - 1) * PageSize <= Cardinality(Before(u))
  BY <1>5, Types DEF ReplayList, PageInv, PagesToCome, Replay
<1>7. PICK from, to : from = (k - 1) * PageSize /\ to = k * PageSize
  OBVIOUS
<1>8. from \in Nat /\ to \in Nat /\ PageSize \in Nat
  BY <1>6, <1>7, Offsets
<1>9. \A u \in Listed :
         /\ u \in page <=> from <= Cardinality(Before(u)) /\ Cardinality(Before(u)) < to
         /\ from <= Cardinality(Before(u)) => page # {}
         /\ to <= Cardinality(Before(u)) => Cardinality(page) >= PageSize
  BY <1>5, <1>6, <1>7, PagesFollow DEF PageInv
<1>10. Cardinality(page) \in Nat
  <2>1. page \in SUBSET Users
    BY <1>5 DEF PageOf, Listed
  <2>. QED
    BY <2>1, Numbers, FS_Subset, FS_CardinalityType
<1>11. replay' = IF page = {} THEN [replay EXCEPT !.pc = "done"]
                 ELSE [replay EXCEPT !.pc = "insert", !.listed = page]
  BY <1>5 DEF ReplayList
<1>12. /\ replay'.page = k /\ replay'.owed = replay.owed /\ replay'.done = replay.done
       /\ replay'.shifted = replay.shifted
       /\ page = {} => replay'.pc = "done"
       /\ page # {} => replay'.pc = "insert" /\ replay'.listed = page
  BY <1>5, <1>11, Types DEF Replay
<1>13. CASE page = {}
  <2>1. ~replay.shifted => replay.owed \subseteq replay.done
    BY <1>6, <1>7, <1>9, <1>13
  <2>. QED
    BY <1>3, <1>6, <1>12, <1>13, <2>1 DEF PageInv, PagesToCome
<1>14. CASE page # {}
  <2>1. ASSUME ~replay.shifted, NEW u \in replay.owed \ (replay.done \union page)
        PROVE  /\ to <= Cardinality(Before(u)) /\ Cardinality(page) >= PageSize
               /\ to <= Cardinality(Before(u)')
    <3>1. u \in Listed /\ from <= Cardinality(Before(u)) /\ u \notin page
      BY <1>6, <1>7, <2>1
    <3>2. to <= Cardinality(Before(u))
      BY <1>4, <1>8, <1>9, <3>1
    <3>. QED
      BY <1>4, <1>8, <1>9, <3>1, <3>2
  <2>2. ~replay.shifted /\ Cardinality(page) < PageSize => replay.owed \subseteq replay.done \union page
    BY <1>8, <1>10, <2>1
  <2>. QED
    BY <1>3, <1>6, <1>7, <1>12, <1>14, <2>1, <2>2 DEF PageInv, PagesToCome
<1>. QED
  BY <1>13, <1>14

\* A replay begins, or ends.
LEMMA EndPages ==
    ASSUME DeliveryInv, PageInv, ReplayStart \/ ReplayFails \/ ReplayAck
    PROVE  PageInv'
<1>. USE DEF DeliveryInv
<1>1. UNCHANGED <<account, event, rank, status>>
  BY DEF ReplayStart, ReplayFails, ReplayAck, tableVars
<1>2. \A r \in Rows : status'[r] = "open" /\ event'[r].op # "register" =>
         event'[r].user \in Users /\ account[event'[r].user] # "none"
  BY <1>1, Types DEF PageInv, BornOnce
<1>3. /\ BornOnce' /\ Listed' = Listed
      /\ \A v \in Users : account[v] # "none" => Born(v)' = Born(v)
  BY <1>1, <1>2, StillBirths
<1>4. CASE ReplayStart
  <2>1. /\ replay'.pc = "list" /\ replay'.page = 1 /\ replay'.owed = Listed
        /\ replay'.done = {} /\ replay'.shifted = FALSE
    BY <1>4 DEF ReplayStart, NoReplay
  <2>2. \A u \in Listed : Cardinality(Before(u)') \in Nat
    BY <1>3, BeforeGrows DEF PageInv
  <2>3. (replay'.page - 1) * PageSize = 0
    BY <2>1, Numbers
  <2>. QED
    BY <1>3, <2>1, <2>2, <2>3 DEF PageInv, PagesToCome
<1>5. CASE ReplayFails
  <2>1. replay'.pc = "failed" /\ replay'.page = replay.page
    BY <1>5, Types DEF ReplayFails, Replay
  <2>. QED
    BY <1>3, <2>1 DEF PageInv, PagesToCome
<1>6. CASE ReplayAck
  <2>1. replay'.pc = "idle" /\ replay'.page = 1
    BY <1>6 DEF ReplayAck, NoReplay
  <2>. QED
    BY <1>3, <2>1 DEF PageInv, PagesToCome
<1>. QED
  BY <1>4, <1>5, <1>6

\* The listener is where it was.
LEMMA IdlePages ==
    ASSUME DeliveryInv, PageInv, UNCHANGED <<account, rank, replay>>,
           \A r \in Committed : event'[r] = event[r],
           \A r \in Rows : status'[r] = "open" /\ event'[r].op # "register" =>
              event'[r].user \in Users /\ account[event'[r].user] # "none"
    PROVE  PageInv'
<1>1. /\ BornOnce' /\ Listed' = Listed
      /\ \A v \in Users : account[v] # "none" => Born(v)' = Born(v)
  BY StillBirths
<1>. QED
  BY <1>1, PagesStay DEF PageInv, DeliveryInv

\* A write without an event.
LEMMA EditPages ==
    ASSUME DeliveryInv, PageInv, EditsOfBorn, EditStep
    PROVE  PageInv'
<1>. USE DEF DeliveryInv
<1>1. UNCHANGED <<event, rank, status>>
  BY EditTypes
<1>2. \A r \in Rows : status'[r] = "open" /\ event'[r].op # "register" =>
         event'[r].user \in Users /\ account[event'[r].user] # "none"
  BY <1>1, Types DEF PageInv, BornOnce
<1>3. CASE UNCHANGED <<account, replay>>
  BY <1>1, <1>2, <1>3, IdlePages
<1>4. ASSUME NEW e \in Edit, EditWrite(e) PROVE PageInv'
  <2>1. PICK u, to : u = e.user /\ to = e.base
    OBVIOUS
  <2>2. /\ u \in Users /\ to \in {"present", "deleted"} /\ account[u] # "none"
        /\ account' = [account EXCEPT ![u] = to] /\ replay' = Replaying(u, to)
    BY <1>4, <2>1 DEF Edit, EditWrite, EditsOfBorn
  <2>3. \A v \in Users : account'[v] = IF v = u THEN to ELSE account[v]
    BY <2>2, Types
  <2>4. \A v \in Users : account'[v] = "none" <=> account[v] = "none"
    BY <2>2, <2>3
  <2>5. PICK rows : rows = {}
    OBVIOUS
  <2>6. Committed' = Committed \union rows /\ \A r \in rows : event'[r].op # "register"
    BY <1>1, <2>5 DEF Committed
  <2>7. \A r \in Committed : event'[r] = event[r]
    BY <1>1
  <2>8. BornOnce' /\ \A v \in Users : account[v] # "none" => Born(v)' = Born(v)
    BY Zenon, <1>2, <2>4, <2>6, <2>7, BirthsStay DEF PageInv
  <2>. QED
    BY <2>2, <2>8, PagesMove
<1>5. ASSUME NEW u \in Users, EditRead(u) PROVE UNCHANGED <<account, replay>>
  BY <1>5 DEF EditRead
<1>6. ASSUME NEW e \in Edit, EditRollback(e) PROVE UNCHANGED <<account, replay>>
  BY <1>6 DEF EditRollback
<1>. QED
  BY <1>3, <1>4, <1>5, <1>6 DEF EditStep

LEMMA PageInit == Init => PageInv
<1>. SUFFICES ASSUME Init PROVE PageInv
  OBVIOUS
<1>1. /\ Committed = {} /\ \A u \in Users : account[u] = "none"
      /\ \A r \in Rows : status[r] = "absent"
  BY InitialRows DEF Init
<1>2. replay.pc = "idle" /\ replay.page = 1
  BY DEF Init, NoReplay
<1>. QED
  BY <1>1, <1>2 DEF PageInv, BornOnce, PagesToCome

\* No step but those of the table opens a row.
LEMMA StatusStays ==
    ASSUME DeliveryInv, SendStep \/ TurnStep \/ MarkStep \/ AroundStep \/ UNCHANGED vars
    PROVE  \A r \in Rows : status'[r] = "open" => status[r] = "open"
<1>. USE DEF DeliveryInv
<1>1. CASE SendStep
  BY <1>1 DEF SendStep, Publish, PublishAgain
<1>2. CASE TurnStep
  BY <1>2 DEF TurnStep, Tick, PublishFails, MarkFails, Interrupt
<1>3. ASSUME NEW w \in Workers, Mark(w) \/ MarkFailed(w) \/ Backoff(w), NEW r \in Rows
      PROVE  status'[r] = "open" => status[r] = "open"
  <2>1. CASE Mark(w)
    BY <2>1, Types DEF Mark
  <2>2. CASE MarkFailed(w)
    BY <2>2, Types DEF MarkFailed
  <2>3. CASE Backoff(w)
    BY <2>3 DEF Backoff
  <2>. QED
    BY <1>3, <2>1, <2>2, <2>3
<1>4. CASE ReplayStart \/ ReplayList \/ ReplayFails \/ ReplayAck \/ RedisDown \/ RedisUp
  BY <1>4 DEF ReplayStart, ReplayList, ReplayFails, ReplayAck, RedisDown, RedisUp
<1>5. ASSUME NEW k \in Rows, Elapse(k) \/ Purge(k), NEW r \in Rows
      PROVE  status'[r] = "open" => status[r] = "open"
  BY <1>5, Types DEF Elapse, Purge
<1>6. CASE MarkStep
  BY <1>3, <1>6 DEF MarkStep
<1>7. CASE AroundStep
  BY <1>4, <1>5, <1>7 DEF AroundStep
<1>8. CASE UNCHANGED vars
  BY <1>8 DEF vars
<1>. QED
  BY <1>1, <1>2, <1>6, <1>7, <1>8

\* No account ceases to have been.
LEMMA EditsNext ==
    ASSUME DeliveryInv, EditsOfBorn, [Next]_vars
    PROVE  EditsOfBorn'
<1>. USE DEF DeliveryInv
<1>1. \A e \in edits : e.user \in Users
  BY Types DEF Edit
<1>2. CASE edits' \subseteq edits /\ \A u \in Users : account'[u] = "none" => account[u] = "none"
  BY <1>1, <1>2 DEF EditsOfBorn
<1>3. CASE UNCHANGED <<account, edits>>
  BY <1>3 DEF EditsOfBorn
<1>4. ASSUME NEW r \in Rows, Commit(r) PROVE EditsOfBorn'
  <2>1. PICK u, to : u = event[r].user /\ to = Outcome(event[r].op, event[r].base)
    OBVIOUS
  <2>2. /\ event[r].op \in AccountOps /\ event[r].base \in States
        /\ Admits(event[r].op, event[r].base) /\ u \in Users
    BY <1>4, <2>1, Committing
  <2>3. to # "none"
    BY <2>1, <2>2, Outcomes
  <2>4. account' = [account EXCEPT ![u] = to] /\ edits' = edits
    BY <1>4, <2>1 DEF Commit
  <2>5. \A v \in Users : account'[v] = IF v = u THEN to ELSE account[v]
    BY <2>2, <2>4, Types
  <2>. QED
    BY <1>2, <2>3, <2>4, <2>5
<1>5. ASSUME NEW u \in Users, EditRead(u) PROVE EditsOfBorn'
  BY <1>5 DEF EditRead, EditsOfBorn
<1>6. ASSUME NEW e \in Edit, EditWrite(e) PROVE EditsOfBorn'
  <2>1. e.base # "none" /\ e.user \in Users
    BY DEF Edit
  <2>2. \A v \in Users : account'[v] = IF v = e.user THEN e.base ELSE account[v]
    BY <1>6, <2>1, Types DEF EditWrite
  <2>3. edits' \subseteq edits
    BY <1>6 DEF EditWrite
  <2>. QED
    BY <1>2, <2>1, <2>2, <2>3
<1>7. ASSUME NEW e \in Edit, EditRollback(e) PROVE EditsOfBorn'
  BY <1>7 DEF EditRollback, EditsOfBorn
<1>8. CASE EditStep
  BY <1>5, <1>6, <1>7, <1>8 DEF EditStep
<1>9. CASE TableStep
  <2>1. ASSUME NEW op \in AccountOps, NEW u \in Users, Begin(op, u)
        PROVE  UNCHANGED <<account, edits>>
    BY <2>1 DEF Begin
  <2>2. ASSUME NEW r \in Rows, Rollback(r) PROVE UNCHANGED <<account, edits>>
    BY <2>2 DEF Rollback, tableVars
  <2>3. ReplayInsert => UNCHANGED <<account, edits>>
    BY DEF ReplayInsert
  <2>. QED
    BY Zenon, <1>3, <1>4, <1>9, <2>1, <2>2, <2>3 DEF TableStep
<1>10. CASE SendStep \/ TurnStep \/ MarkStep
  BY <1>3, <1>10, WorkersSteps
<1>11. CASE AroundStep
  BY <1>3, <1>11, ReplaySteps
<1>12. CASE UNCHANGED vars
  BY <1>3, <1>12 DEF vars
<1>. QED
  BY <1>8, <1>9, <1>10, <1>11, <1>12, Steps

LEMMA PageNext ==
    ASSUME DeliveryInv, PageInv, EditsOfBorn, [Next]_vars
    PROVE  PageInv'
<1>. USE DEF DeliveryInv
<1>1. ASSUME NEW op \in AccountOps, NEW u \in Users, Begin(op, u) PROVE PageInv'
  <2>1. UNCHANGED <<account, rank, replay>>
    BY <1>1 DEF Begin
  <2>2. PICK r \in Rows :
           /\ r \notin Committed /\ Admits(op, account[u])
           /\ event'[r].op = op /\ event'[r].user = u
           /\ \A k \in Rows : k # r => event'[k] = event[k] /\ status'[k] = status[k]
    BY <1>1, Beginning
  <2>3. op # "register" => account[u] # "none"
    BY <2>2, Types, Outcomes
  <2>4. \A k \in Rows : status'[k] = "open" /\ event'[k].op # "register" =>
           event'[k].user \in Users /\ account[event'[k].user] # "none"
    <3>1. ASSUME NEW k \in Rows, k # r, status'[k] = "open", event'[k].op # "register"
          PROVE  event'[k].user \in Users /\ account[event'[k].user] # "none"
      BY <2>2, <3>1, Types DEF PageInv, BornOnce
    <3>. QED
      BY <2>2, <2>3, <3>1
  <2>5. \A k \in Committed : event'[k] = event[k]
    BY <2>2, Types
  <2>. QED
    BY <2>1, <2>4, <2>5, IdlePages
<1>2. ASSUME NEW r \in Rows, Rollback(r) PROVE PageInv'
  <2>1. UNCHANGED <<account, rank, replay, event>>
        /\ \A k \in Rows : status'[k] = "open" => status[k] = "open"
    BY <1>2, Types DEF Rollback, tableVars
  <2>2. \A k \in Rows : status'[k] = "open" /\ event'[k].op # "register" =>
           event'[k].user \in Users /\ account[event'[k].user] # "none"
    BY <2>1, Types DEF PageInv, BornOnce
  <2>. QED
    BY <2>1, <2>2, IdlePages
<1>3. CASE TableStep
  BY Zenon, <1>1, <1>2, <1>3, CommitPages, InsertPages DEF TableStep
<1>4. CASE UNCHANGED <<account, rank, replay, event>>
           /\ \A k \in Rows : status'[k] = "open" => status[k] = "open"
  <2>1. \A k \in Rows : status'[k] = "open" /\ event'[k].op # "register" =>
           event'[k].user \in Users /\ account[event'[k].user] # "none"
    BY <1>4, Types DEF PageInv, BornOnce
  <2>. QED
    BY <1>4, <2>1, IdlePages
<1>5. CASE SendStep \/ TurnStep \/ MarkStep
  BY <1>4, <1>5, WorkersSteps, StatusStays
<1>6. CASE UNCHANGED vars
  <2>1. UNCHANGED <<account, rank, replay, event>>
    BY <1>6 DEF vars
  <2>. QED
    BY <1>4, <1>6, <2>1, StatusStays
<1>7. CASE RedisDown \/ RedisUp \/ \E r \in Rows : Elapse(r) \/ Purge(r)
  <2>1. UNCHANGED <<account, rank, replay, event>>
    BY <1>7 DEF RedisDown, RedisUp, Elapse, Purge, tableVars
  <2>2. AroundStep
    BY Zenon, <1>7 DEF AroundStep
  <2>. QED
    BY <1>4, <2>1, <2>2, StatusStays
<1>8. CASE AroundStep
  BY Zenon, <1>7, <1>8, ListPages, EndPages DEF AroundStep
<1>9. CASE EditStep
  BY <1>9, EditPages
<1>. QED
  BY <1>3, <1>5, <1>6, <1>8, <1>9, Steps

\* A replay that no account has left while it ran has emitted every account that was
\* there all along, for any page size.
THEOREM ReplayIsComplete == Spec => []ReplayEmitsEveryAccount
<1>1. Init => DeliveryInv /\ PageInv /\ EditsOfBorn
  BY DeliveryInit, PageInit DEF Init, EditsOfBorn
<1>2. DeliveryInv /\ PageInv /\ EditsOfBorn /\ [Next]_vars =>
         (DeliveryInv /\ PageInv /\ EditsOfBorn)'
  BY DeliveryNext, PageNext, EditsNext
<1>3. PageInv => ReplayEmitsEveryAccount
  BY DEF PageInv, PagesToCome, ReplayEmitsEveryAccount
<1>. QED
  BY <1>1, <1>2, <1>3, PTL DEF Spec
=============================================================================
