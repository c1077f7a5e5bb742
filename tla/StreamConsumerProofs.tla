------------------------- MODULE StreamConsumerProofs -------------------------
(***************************************************************************)
(* Theorems about StreamConsumer, for any group, stream, batch size and    *)
(* number of retries.                                                      *)
(***************************************************************************)
EXTENDS StreamConsumer, FiniteSetTheorems, WellFoundedInduction, TLAPS

\* What an entry that may be acknowledged has come to.
Settled(m) == m \in Handled \/ m \in DeadLetters \/ stream[m] = "stop"

\* A consumer acknowledges what is settled, and gives up what holds no message to
\* itself, for a reason.
Settles(x) ==
    LET m == Min(x.batch)
    IN  /\ x.pc = "ackHandled" => m \in Handled
        /\ x.pc = "ack" => Settled(m)
        /\ x.pc \in {"handle", "deadLetter"} => stream[m] # "stop"
        /\ x.pc = "deadLetter" => x.reason # "none"

OnlyMessagesEnd == \A m \in Handled \union DeadLetters : m \in Added /\ stream[m] # "stop"

\* The inductive invariant of what is settled.
GroupInv ==
    /\ TypeOK /\ OnlyMessagesEnd /\ NothingIsAckedUnsettled
    /\ \A c \in Consumers : Settles(consumer[c])

-----------------------------------------------------------------------------
(* Where an entry that no fault hit is on its way *)

Untouched(m) == successes[m] = 0 /\ dead[m] = "none"

\* In a batch, before its handler ran: this delivery has not failed.
Waits(m) ==
    /\ m \in pending /\ Untouched(m)
    /\ deliveries[m] = failures[m] + 1 /\ failures[m] < MaxRetries

\* In nobody's batch, and not done: each delivery has failed.
Rests(m) == Untouched(m) /\ deliveries[m] = failures[m] /\ failures[m] < MaxRetries

EndsOnce(m) ==
    /\ successes[m] <= 1 /\ failures[m] <= MaxRetries
    /\ m \notin Handled \/ m \notin DeadLetters
    /\ dead[m] = "retries" => failures[m] = MaxRetries

\* What has become of m while x, a consumer, has it in hand.
Stage(x, m) ==
    /\ m # Min(x.batch) \/ x.pc \in {"entry", "handle"} => Waits(m)
    /\ m = Min(x.batch) =>
          /\ x.pc = "handle" => x.count = deliveries[m]
          /\ x.pc = "ackHandled" =>
                successes[m] = 1 /\ dead[m] = "none" /\ failures[m] <= MaxRetries
          /\ x.pc = "deadLetter" =>
                /\ Untouched(m) /\ failures[m] <= MaxRetries
                /\ x.reason = "retries" => failures[m] = MaxRetries
          /\ x.pc = "ack" => EndsOnce(m)

Left(m) == IF m \in pending \/ m > read THEN Rests(m) ELSE EndsOnce(m)

\* One consumer has the entry, and it is not due to be reclaimed.
HeldOnce ==
    \A m \in Entries \ disturbed : \A c, d \in Consumers :
        m \in InHand(c) => m \notin idle /\ (m \in InHand(d) => c = d)

HeldOnTheirWay ==
    \A c \in Consumers : \A m \in InHand(c) \ disturbed : Stage(consumer[c], m)

OthersAreLeft ==
    \A m \in Entries \ disturbed : (\A c \in Consumers : m \notin InHand(c)) => Left(m)

EndsInv == HeldOnce /\ HeldOnTheirWay /\ OthersAreLeft

-----------------------------------------------------------------------------
(* Batches *)

LEMMA Least ==
    ASSUME NEW S \in SUBSET Nat, S # {}
    PROVE  \E x \in S : \A y \in S : x <= y
<1>. DEFINE R == {ss \in Nat \X Nat : ss[1] < ss[2]}
<1>1. IsWellFoundedOn(R, Nat)
  BY NatLessThanWellFounded DEF OpToRel
<1>2. \A x, y \in Nat : y < x => <<y, x>> \in R
  OBVIOUS
<1>. HIDE DEF R
<1>3. PICK x \in S : \A y \in S : <<y, x>> \notin R
  BY <1>1, WFMin
<1>4. ASSUME NEW y \in S PROVE x <= y
  <2>1. ~(y < x)
    BY <1>2, <1>3
  <2>. QED
    BY <2>1
<1>. QED
  BY <1>4

LEMMA FirstOfBatch ==
    ASSUME NEW S \in SUBSET Nat, S # {}
    PROVE  Min(S) \in S /\ \A y \in S : Min(S) <= y
<1>1. \E x \in S : \A y \in S : x =< y
  BY Least
<1>. QED
  BY <1>1 DEF Min

LEMMA LastOfBatch ==
    ASSUME NEW n \in Nat, NEW S \in SUBSET (1..n), S # {}
    PROVE  Max(S) \in S /\ \A y \in S : Max(S) >= y
<1>. DEFINE T == {n - x : x \in S}
<1>1. T \in SUBSET Nat /\ T # {}
  <2>1. \A x \in S : n - x \in Nat
    OBVIOUS
  <2>. QED
    BY <2>1
<1>2. PICK m \in T : \A y \in T : m <= y
  BY <1>1, Least
<1>3. PICK x \in S : m = n - x
  BY <1>2
<1>4. \A y \in S : n - y \in T
  OBVIOUS
<1>. HIDE DEF T
<1>5. \A y \in S : x >= y
  <2>. SUFFICES ASSUME NEW y \in S PROVE x >= y
    OBVIOUS
  <2>1. m <= n - y
    BY <1>2, <1>4
  <2>. QED
    BY <1>3, <2>1
<1>. QED
  BY <1>5 DEF Max

\* A batch is of the entries asked for, and is empty only if there are none.
LEMMA FirstOfSome ==
    ASSUME NEW S \in SUBSET Entries
    PROVE  /\ FirstOf(BatchSize, S) \subseteq S
           /\ S # {} => FirstOf(BatchSize, S) # {}
<1>1. FirstOf(BatchSize, S) \subseteq S
  BY DEF FirstOf
<1>2. ASSUME S # {} PROVE FirstOf(BatchSize, S) # {}
  <2>1. S \in SUBSET Nat
    BY DEF Entries
  <2>2. Min(S) \in S /\ \A y \in S : Min(S) <= y
    BY <1>2, <2>1, FirstOfBatch
  <2>3. {k \in S : k < Min(S)} = {}
    <3>1. ASSUME NEW k \in S PROVE ~(k < Min(S))
      <4>1. k \in Nat /\ Min(S) \in Nat /\ Min(S) <= k
        BY <2>1, <2>2
      <4>. QED
        BY <4>1
    <3>. QED
      BY <3>1
  <2>4. Cardinality({k \in S : k < Min(S)}) = 0
    BY <2>3, FS_EmptySet
  <2>5. Min(S) \in FirstOf(BatchSize, S)
    BY <2>2, <2>4, ConsumerAssumption DEF FirstOf
  <2>. QED
    BY <2>5
<1>. QED
  BY <1>1, <1>2

\* XREADGROUP leaves no gap: the batch is all of the new entries up to its last.
LEMMA NewOnes ==
    ASSUME TypeOK, NEW batch, batch = FirstOf(BatchSize, {m \in Added : m > read}),
           batch # {}
    PROVE  /\ batch \in SUBSET Entries /\ Max(batch) \in batch
           /\ batch = (read + 1)..Max(batch)
           /\ Max(batch) > read /\ Max(batch) <= Len(stream)
<1>. DEFINE n == Len(stream)
            new == {m \in Added : m > read}
<1>1. n \in Nat /\ n <= MaxEntries /\ read \in 0..n /\ MaxEntries \in Nat /\ BatchSize \in Nat \ {0}
  BY ConsumerAssumption DEF TypeOK
<1>2. Added = 1..n
  BY DEF Added
<1>. HIDE DEF n
<1>3. new = (read + 1)..n
  BY <1>1, <1>2
<1>4. batch \subseteq new
  BY DEF FirstOf
<1>5. batch \in SUBSET (1..n)
  BY <1>1, <1>3, <1>4
<1>6. Max(batch) \in batch /\ \A y \in batch : Max(batch) >= y
  BY <1>1, <1>5, LastOfBatch
<1>7. Max(batch) \in (read + 1)..n /\ batch \subseteq (read + 1)..Max(batch)
  BY <1>1, <1>3, <1>4, <1>6
\* Before a place of the new entries are as many as it is away from the last read.
<1>8. \A m \in new : Cardinality({k \in new : k < m}) = m - 1 - read
  <2>. SUFFICES ASSUME NEW m \in new PROVE Cardinality({k \in new : k < m}) = m - 1 - read
    OBVIOUS
  <2>1. m \in (read + 1)..n
    BY <1>3
  <2>2. {k \in new : k < m} = (read + 1)..(m - 1)
    BY <1>1, <1>3, <2>1
  <2>3. read + 1 \in Int /\ m - 1 \in Int
    BY <1>1, <2>1
  <2>4. Cardinality((read + 1)..(m - 1)) =
           IF read + 1 > m - 1 THEN 0 ELSE (m - 1) - (read + 1) + 1
    BY <2>3, FS_Interval
  <2>5. Cardinality((read + 1)..(m - 1)) = m - 1 - read
    BY <1>1, <2>1, <2>4
  <2>. QED
    BY <2>2, <2>5
<1>9. (read + 1)..Max(batch) \subseteq batch
  <2>. SUFFICES ASSUME NEW m \in (read + 1)..Max(batch) PROVE m \in batch
    OBVIOUS
  <2>1. m \in new /\ Max(batch) \in new
    BY <1>1, <1>3, <1>7
  <2>2. Cardinality({k \in new : k < Max(batch)}) < BatchSize
    BY <1>6 DEF FirstOf
  <2>3. Cardinality({k \in new : k < m}) < BatchSize
    BY <1>1, <1>7, <1>8, <2>1, <2>2
  <2>. QED
    BY <2>1, <2>3 DEF FirstOf
<1>10. batch \in SUBSET Entries
  BY <1>1, <1>5 DEF Entries
<1>11. batch = (read + 1)..Max(batch)
  BY <1>7, <1>9
<1>12. Max(batch) > read /\ Max(batch) <= n
  BY <1>1, <1>7
<1>. QED
  BY <1>6, <1>10, <1>11, <1>12 DEF n


-----------------------------------------------------------------------------
(* Consumers *)

LEMMA Types ==
    ASSUME TypeOK
    PROVE  /\ stream \in Seq(Kinds) /\ Len(stream) \in Nat /\ Len(stream) <= MaxEntries
           /\ read \in 0..Len(stream) /\ MaxEntries \in Nat /\ Added = 1..Len(stream)
           /\ idle \subseteq pending /\ pending \subseteq 1..read /\ 1..read \subseteq Added
           /\ Added \subseteq Entries /\ Entries \subseteq Nat
           /\ deliveries \in [Entries -> Nat]
           /\ dead \in [Entries -> {"none", "rejected", "retries"}]
           /\ faults \in 0..MaxFaults /\ MaxFaults \in Nat
           /\ successes \in [Entries -> Nat] /\ failures \in [Entries -> Nat]
           /\ disturbed \subseteq Entries
           /\ consumer \in [Consumers -> Consumer]
           /\ \A c \in Consumers :
                 /\ consumer[c] \in Consumer /\ InHand(c) \subseteq 1..read
                 /\ InHand(c) = {} <=> consumer[c].pc \in {"off", "reclaim", "read"}
<1>1. /\ stream \in Seq(Kinds) /\ Len(stream) \in Nat /\ Len(stream) <= MaxEntries
      /\ read \in 0..Len(stream) /\ MaxEntries \in Nat /\ MaxFaults \in Nat
  BY ConsumerAssumption DEF TypeOK
<1>2. Added = 1..Len(stream) /\ Entries = 1..MaxEntries
  BY DEF Added, Entries
<1>3. 1..read \subseteq Added /\ Added \subseteq Entries /\ Entries \subseteq Nat
  BY <1>1, <1>2
<1>. QED
  BY <1>1, <1>2, <1>3 DEF TypeOK

LEMMA InTheirHand ==
    ASSUME TypeOK, NEW c \in Consumers, consumer[c].pc \notin {"off", "reclaim", "read"}
    PROVE  /\ Current(c) \in InHand(c) /\ Current(c) \in 1..read /\ Current(c) \in Added
           /\ Current(c) \in Entries /\ InHand(c) \subseteq Entries
<1>1. InHand(c) \in SUBSET Nat /\ InHand(c) # {} /\ InHand(c) \subseteq Entries
  BY Types
<1>2. Current(c) \in InHand(c)
  BY <1>1, FirstOfBatch DEF Current
<1>. QED
  BY <1>1, <1>2, Types

\* A consumer between batches, and one that begins with a batch.
Between(x) == x \in Consumer /\ x.pc \in {"off", "reclaim", "read"} /\ x.batch = {}
Begins(x, batch) == x \in Consumer /\ x.pc = "entry" /\ x.batch = batch

LEMMA Places ==
    ASSUME TypeOK, NEW c \in Consumers
    PROVE  /\ Between(Off) /\ Between(BatchDone(c)) /\ Between(Loop(TRUE))
           /\ \A batch \in SUBSET Entries :
                 /\ Begins(Entering(c, batch), batch)
                 /\ \A b \in BOOLEAN : Begins([Entering(c, batch) EXCEPT !.reclaimed = b], batch)
<1>1. Off \in Consumer /\ Off.pc = "off" /\ Off.batch = {}
  BY DEF Off, Consumer
<1>2. consumer[c].running \in BOOLEAN /\ consumer[c].reclaimed \in BOOLEAN
  BY Types DEF Consumer
<1>3. ASSUME NEW b \in BOOLEAN PROVE Between(Loop(b))
  <2>. DEFINE x == [Off EXCEPT !.pc = "reclaim", !.running = TRUE]
  <2>1. x \in Consumer /\ x.pc = "reclaim" /\ x.batch = {}
    BY <1>1 DEF Consumer
  <2>. HIDE DEF x
  <2>2. Loop(b) = IF b THEN x ELSE Off
    BY DEF Loop, x
  <2>. QED
    BY <1>1, <2>1, <2>2 DEF Between
<1>4. Between(BatchDone(c))
  <2>. DEFINE r == consumer[c].running
              x == [Off EXCEPT !.pc = "read", !.running = r]
  <2>1. x \in Consumer /\ x.pc = "read" /\ x.batch = {}
    BY <1>1, <1>2 DEF Consumer
  <2>2. BatchDone(c) = IF consumer[c].reclaimed THEN x ELSE Loop(r)
    BY DEF BatchDone
  <2>. HIDE DEF x
  <2>. QED
    BY <1>2, <1>3, <2>1, <2>2 DEF Between
<1>5. ASSUME NEW batch \in SUBSET Entries, NEW b \in BOOLEAN
      PROVE  /\ Begins(Entering(c, batch), batch)
             /\ Begins([Entering(c, batch) EXCEPT !.reclaimed = b], batch)
  <2>. DEFINE r == consumer[c].running
              e == consumer[c].reclaimed
              x == [Off EXCEPT !.pc = "entry", !.running = r, !.reclaimed = e, !.batch = batch]
  <2>1. x \in Consumer /\ x.pc = "entry" /\ x.batch = batch
    BY <1>1, <1>2 DEF Consumer
  <2>2. Entering(c, batch) = x
    BY DEF Entering
  <2>. HIDE DEF x
  <2>3. /\ [x EXCEPT !.reclaimed = b] \in Consumer
        /\ [x EXCEPT !.reclaimed = b].pc = x.pc /\ [x EXCEPT !.reclaimed = b].batch = x.batch
    BY <2>1 DEF Consumer
  <2>. QED
    BY <2>1, <2>2, <2>3 DEF Begins
<1>. QED
  BY <1>1, <1>3, <1>4, <1>5 DEF Between

\* The next entry, or the end of the batch.
LEMMA Proceeding ==
    ASSUME TypeOK, NEW c \in Consumers, Proceed(c)
    PROVE  \E x : /\ consumer' = [consumer EXCEPT ![c] = x]
                  /\ \/ Rest(c) = {} /\ Between(x)
                     \/ Rest(c) # {} /\ Begins(x, Rest(c))
<1>1. Rest(c) \in SUBSET Entries
  BY Types DEF Rest
<1>2. consumer' = [consumer EXCEPT ![c] = IF Rest(c) = {} THEN BatchDone(c) ELSE Entering(c, Rest(c))]
  BY DEF Proceed
<1>3. CASE Rest(c) = {}
  BY <1>2, <1>3, Places
<1>4. CASE Rest(c) # {}
  BY <1>1, <1>2, <1>4, Places
<1>. QED
  BY <1>3, <1>4

\* The consumer is the same but for where it is.
Goes(c, x, pc) ==
    /\ x \in Consumer /\ x.pc = pc /\ x.batch = InHand(c)
    /\ x.reclaimed = consumer[c].reclaimed

LEMMA Going ==
    ASSUME TypeOK, NEW c \in Consumers
    PROVE  /\ \A pc \in {"reclaim", "read", "entry", "handle", "ackHandled", "ack"} :
                 Goto(c, pc) => \E x : /\ consumer' = [consumer EXCEPT ![c] = x]
                                       /\ Goes(c, x, pc) /\ x.count = consumer[c].count
           /\ \A reason \in {"rejected", "retries"} :
                 SendToDlq(c, reason) =>
                    \E x : /\ consumer' = [consumer EXCEPT ![c] = x]
                           /\ Goes(c, x, "deadLetter") /\ x.reason = reason
<1>1. consumer[c] \in Consumer /\ InHand(c) = consumer[c].batch
  BY Types DEF InHand
<1>2. ASSUME NEW pc \in {"reclaim", "read", "entry", "handle", "ackHandled", "ack"}, Goto(c, pc)
      PROVE  \E x : /\ consumer' = [consumer EXCEPT ![c] = x]
                    /\ Goes(c, x, pc) /\ x.count = consumer[c].count
  <2>. DEFINE x == [consumer[c] EXCEPT !.pc = pc]
  <2>1. /\ x \in Consumer /\ x.pc = pc /\ x.batch = consumer[c].batch
        /\ x.reclaimed = consumer[c].reclaimed /\ x.count = consumer[c].count
    BY <1>1 DEF Consumer
  <2>2. consumer' = [consumer EXCEPT ![c] = x]
    BY <1>2 DEF Goto
  <2>. HIDE DEF x
  <2>. QED
    BY <1>1, <2>1, <2>2 DEF Goes
<1>3. ASSUME NEW reason \in {"rejected", "retries"}, SendToDlq(c, reason)
      PROVE  \E x : /\ consumer' = [consumer EXCEPT ![c] = x]
                    /\ Goes(c, x, "deadLetter") /\ x.reason = reason
  <2>. DEFINE x == [consumer[c] EXCEPT !.pc = "deadLetter", !.reason = reason]
  <2>1. /\ x \in Consumer /\ x.pc = "deadLetter" /\ x.batch = consumer[c].batch
        /\ x.reclaimed = consumer[c].reclaimed /\ x.reason = reason
    BY <1>1 DEF Consumer
  <2>2. consumer' = [consumer EXCEPT ![c] = x]
    BY <1>3 DEF SendToDlq
  <2>. HIDE DEF x
  <2>. QED
    BY <1>1, <2>1, <2>2 DEF Goes
<1>. QED
  BY <1>2, <1>3

LEMMA Faulting ==
    ASSUME TypeOK, NEW c \in Consumers
    PROVE  /\ Spend => faults' \in 0..MaxFaults
           /\ Fault(c) => /\ faults' \in 0..MaxFaults /\ disturbed' \subseteq Entries
                          /\ disturbed' = disturbed \union InHand(c)
<1>1. Spend => faults' \in 0..MaxFaults
  BY Types DEF Spend
<1>2. InHand(c) \subseteq Entries
  BY Types
<1>. QED
  BY <1>1, <1>2, Types DEF Fault


-----------------------------------------------------------------------------
(* What is settled stays settled *)

Ended == Handled \union DeadLetters

\* Entries are added, delivered and settled, and none of it is taken back.
Grows ==
    /\ stream' \in Seq(Kinds) /\ Len(stream) <= Len(stream') /\ Len(stream') <= MaxEntries
    /\ \A m \in Added : stream'[m] = stream[m]
    /\ read' \in Nat /\ read <= read' /\ read' <= Len(stream')
    /\ idle' \subseteq pending' /\ pending' \subseteq 1..read'
    /\ deliveries' \in [Entries -> Nat]
    /\ dead' \in [Entries -> {"none", "rejected", "retries"}]
    /\ faults' \in 0..MaxFaults
    /\ successes' \in [Entries -> Nat] /\ failures' \in [Entries -> Nat]
    /\ disturbed' \subseteq Entries
    /\ Handled \subseteq Handled' /\ DeadLetters \subseteq DeadLetters'
    /\ \A m \in Ended' : m \in Ended \/ (m \in Added /\ stream[m] # "stop")
    /\ \A m \in 1..read' :
          m \in pending' \/ m \in Ended' \/ (m \in 1..read /\ stream[m] = "stop")

\* The group's own state, and where the entries are that it delivered.
LEMMA GroupTypes ==
    ASSUME GroupInv
    PROVE  /\ stream \in Seq(Kinds) /\ Len(stream) \in Nat /\ Len(stream) <= MaxEntries
           /\ read \in Nat /\ read <= Len(stream)
           /\ idle \subseteq pending /\ pending \subseteq 1..read
           /\ deliveries \in [Entries -> Nat]
           /\ dead \in [Entries -> {"none", "rejected", "retries"}]
           /\ faults \in 0..MaxFaults
           /\ successes \in [Entries -> Nat] /\ failures \in [Entries -> Nat]
           /\ disturbed \subseteq Entries
           /\ Entries \subseteq Nat /\ 1..Len(stream) \subseteq Entries
           /\ \A m \in 1..read : m \in pending \/ m \in Ended \/ stream[m] = "stop"
<1>1. TypeOK /\ NothingIsAckedUnsettled
  BY DEF GroupInv
<1>2. /\ read \in 0..Len(stream) /\ Len(stream) \in Nat
      /\ Added = 1..Len(stream) /\ Added \subseteq Entries
  BY <1>1, Types
<1>3. \A m \in 1..read : m \in pending \/ m \in Ended \/ stream[m] = "stop"
  BY <1>1 DEF NothingIsAckedUnsettled, Ended
<1>4. /\ stream \in Seq(Kinds) /\ Len(stream) <= MaxEntries
      /\ idle \subseteq pending /\ pending \subseteq 1..read
      /\ deliveries \in [Entries -> Nat]
      /\ dead \in [Entries -> {"none", "rejected", "retries"}]
      /\ faults \in 0..MaxFaults
      /\ successes \in [Entries -> Nat] /\ failures \in [Entries -> Nat]
      /\ disturbed \subseteq Entries /\ Entries \subseteq Nat
  BY <1>1, Types
<1>. QED
  BY <1>2, <1>3, <1>4

LEMMA SettlesStill ==
    ASSUME GroupInv, Grows, NEW d \in Consumers
    PROVE  Settles(consumer[d]) => \A x : x = consumer[d] => Settles(x)'
<1>. SUFFICES ASSUME Settles(consumer[d]), NEW x, x = consumer[d] PROVE Settles(x)'
  OBVIOUS
<1>1. Handled \subseteq Handled' /\ DeadLetters \subseteq DeadLetters'
  BY DEF Grows
<1>2. CASE x.pc \in {"off", "reclaim", "read", "entry"}
  BY <1>2 DEF Settles
<1>3. CASE x.pc \notin {"off", "reclaim", "read", "entry"}
  <2>1. Min(x.batch) \in Added
    BY <1>3, InTheirHand DEF GroupInv, Current, InHand
  <2>2. stream'[Min(x.batch)] = stream[Min(x.batch)]
    BY <2>1 DEF Grows
  <2>. QED
    BY <1>1, <2>2 DEF Settles, Settled
<1>. QED
  BY <1>2, <1>3

LEMMA GroupGrows ==
    ASSUME GroupInv, Grows
    PROVE  /\ OnlyMessagesEnd' /\ NothingIsAckedUnsettled'
           /\ Added \subseteq Added' /\ 1..read \subseteq 1..read'
<1>1. /\ Len(stream) \in Nat /\ Len(stream') \in Nat /\ Added = 1..Len(stream)
      /\ Added' = 1..Len(stream') /\ Len(stream) <= Len(stream')
      /\ read \in Nat /\ read' \in Nat /\ read <= read' /\ 1..read \subseteq Added
  BY Types DEF GroupInv, Grows, Added
<1>2. Added \subseteq Added' /\ 1..read \subseteq 1..read'
  BY <1>1
<1>3. OnlyMessagesEnd'
  BY <1>2 DEF GroupInv, Grows, OnlyMessagesEnd, Ended
<1>4. NothingIsAckedUnsettled'
  BY <1>1 DEF GroupInv, Grows, NothingIsAckedUnsettled, Ended
<1>. QED
  BY <1>2, <1>3, <1>4

\* A consumer goes to x.
LEMMA GroupStep ==
    ASSUME GroupInv, Grows, NEW c \in Consumers, NEW x \in Consumer,
           consumer' = [consumer EXCEPT ![c] = x],
           x.batch = {} <=> x.pc \in {"off", "reclaim", "read"},
           x.batch \subseteq 1..read', Settles(x)'
    PROVE  GroupInv'
<1>1. /\ consumer' \in [Consumers -> Consumer]
      /\ \A d \in Consumers : consumer'[d] = IF d = c THEN x ELSE consumer[d]
  BY Types DEF GroupInv
<1>2. \A d \in Consumers :
         /\ InHand(d)' = {} <=> consumer'[d].pc \in {"off", "reclaim", "read"}
         /\ InHand(d)' \subseteq 1..read'
  BY <1>1, GroupGrows, Types DEF GroupInv, InHand
<1>3. \A d \in Consumers : Settles(consumer[d])'
  <2>. SUFFICES ASSUME NEW d \in Consumers PROVE Settles(consumer[d])'
    OBVIOUS
  <2>1. CASE d = c
    <3>1. consumer'[d] = x
      BY <1>1, <2>1
    <3>. QED
      BY <3>1
  <2>2. CASE d # c
    <3>1. PICK y : y = consumer[d]
      OBVIOUS
    <3>2. Settles(y)' /\ consumer'[d] = y
      BY <1>1, <2>2, <3>1, SettlesStill DEF GroupInv
    <3>. QED
      BY <3>2
  <2>. QED
    BY <2>1, <2>2
<1>4. TypeOK'
  <2>1. read' \in 0..Len(stream')
    BY Types DEF Grows, GroupInv
  <2>. QED
    BY <1>1, <1>2, <2>1 DEF Grows, TypeOK
<1>. QED
  BY <1>3, <1>4, GroupGrows DEF GroupInv

\* Nobody goes anywhere.
LEMMA GroupStays ==
    ASSUME GroupInv, Grows, consumer' = consumer
    PROVE  GroupInv'
<1>1. \A d \in Consumers : Settles(consumer[d])'
  <2>. SUFFICES ASSUME NEW d \in Consumers PROVE Settles(consumer[d])'
    OBVIOUS
  <2>1. PICK y : y = consumer[d]
    OBVIOUS
  <2>2. Settles(y)' /\ consumer'[d] = y
    BY <2>1, SettlesStill DEF GroupInv
  <2>. QED
    BY <2>2
<1>2. \A d \in Consumers :
         /\ InHand(d)' = {} <=> consumer'[d].pc \in {"off", "reclaim", "read"}
         /\ InHand(d)' \subseteq 1..read'
  BY GroupGrows, Types DEF GroupInv, InHand
<1>3. TypeOK'
  <2>1. read' \in 0..Len(stream') /\ consumer' \in [Consumers -> Consumer]
    BY Types DEF Grows, GroupInv
  <2>. QED
    BY <1>2, <2>1 DEF Grows, TypeOK
<1>. QED
  BY <1>1, <1>3, GroupGrows DEF GroupInv

LEMMA Quiet ==
    ASSUME GroupInv, UNCHANGED <<stream, groupVars, dead, tally>>,
           faults' \in 0..MaxFaults, disturbed' \subseteq Entries
    PROVE  Grows
<1>1. UNCHANGED <<stream, read, pending, idle, deliveries, dead, successes, failures>>
  BY DEF groupVars, tally
<1>2. Handled' = Handled /\ DeadLetters' = DeadLetters /\ Ended' = Ended
  BY <1>1 DEF Handled, DeadLetters, Ended
<1>3. \A m \in 1..read' :
         m \in pending' \/ m \in Ended' \/ (m \in 1..read /\ stream[m] = "stop")
  BY <1>1, <1>2, GroupTypes
<1>4. \A m \in Ended' : m \in Ended
  BY <1>2
<1>5. /\ stream' \in Seq(Kinds) /\ Len(stream) <= Len(stream') /\ Len(stream') <= MaxEntries
      /\ \A m \in Added : stream'[m] = stream[m]
      /\ read' \in Nat /\ read <= read' /\ read' <= Len(stream')
      /\ idle' \subseteq pending' /\ pending' \subseteq 1..read'
      /\ deliveries' \in [Entries -> Nat]
      /\ dead' \in [Entries -> {"none", "rejected", "retries"}]
      /\ successes' \in [Entries -> Nat] /\ failures' \in [Entries -> Nat]
  BY <1>1, GroupTypes
<1>. QED
  BY <1>2, <1>3, <1>4, <1>5 DEF Grows

\* One more entry is handled, or among the dead letters.
LEMMA Settling ==
    ASSUME GroupInv, NEW m \in Added, stream[m] # "stop",
           UNCHANGED <<stream, read, pending, idle, deliveries, faults, disturbed>>,
           dead' \in [Entries -> {"none", "rejected", "retries"}],
           successes' \in [Entries -> Nat], failures' \in [Entries -> Nat],
           Handled \subseteq Handled', DeadLetters \subseteq DeadLetters',
           Handled' \union DeadLetters' \subseteq Handled \union DeadLetters \union {m}
    PROVE  Grows
<1>1. \A k \in Ended' : k \in Ended \/ (k \in Added /\ stream[k] # "stop")
  BY DEF Ended
<1>2. \A k \in 1..read' :
         k \in pending' \/ k \in Ended' \/ (k \in 1..read /\ stream[k] = "stop")
  BY GroupTypes DEF Ended
<1>3. /\ stream' \in Seq(Kinds) /\ Len(stream) <= Len(stream') /\ Len(stream') <= MaxEntries
      /\ \A k \in Added : stream'[k] = stream[k]
      /\ read' \in Nat /\ read <= read' /\ read' <= Len(stream')
      /\ idle' \subseteq pending' /\ pending' \subseteq 1..read'
      /\ deliveries' \in [Entries -> Nat] /\ faults' \in 0..MaxFaults
      /\ disturbed' \subseteq Entries
  BY GroupTypes
<1>. QED
  BY <1>1, <1>2, <1>3 DEF Grows

\* A consumer goes between batches, on in its batch, or stays at its entry.
LEMMA GroupGoes ==
    ASSUME GroupInv, Grows, NEW c \in Consumers, NEW x,
           consumer' = [consumer EXCEPT ![c] = x],
           \/ Between(x)
           \/ \E batch \in SUBSET InHand(c) : batch # {} /\ Begins(x, batch)
           \/ \E pc \in {"handle", "ackHandled", "ack", "deadLetter"} :
                 Goes(c, x, pc) /\ InHand(c) # {} /\ Settles(x)'
           \/ Goes(c, x, consumer[c].pc) /\ x.reason = consumer[c].reason
    PROVE  GroupInv'
<1>1. InHand(c) \subseteq 1..read'
  BY GroupGrows, Types DEF GroupInv
<1>2. CASE Between(x)
  BY <1>2, GroupStep DEF Between, Settles
<1>3. ASSUME NEW batch \in SUBSET InHand(c), batch # {}, Begins(x, batch)
      PROVE  GroupInv'
  BY <1>1, <1>3, GroupStep DEF Begins, Settles
<1>4. ASSUME NEW pc \in {"handle", "ackHandled", "ack", "deadLetter"},
             Goes(c, x, pc), InHand(c) # {}, Settles(x)'
      PROVE  GroupInv'
  BY <1>1, <1>4, GroupStep DEF Goes
<1>5. CASE Goes(c, x, consumer[c].pc) /\ x.reason = consumer[c].reason
  <2>1. Settles(consumer[c]) /\ consumer[c].batch = x.batch
    BY <1>5 DEF GroupInv, Goes, InHand
  <2>2. \A y : y = consumer[c] => Settles(y)'
    BY <2>1, SettlesStill
  <2>3. Settles(x)'
    <3>1. PICK y : y = consumer[c]
      OBVIOUS
    <3>2. Settles(y)' /\ y.batch = x.batch /\ y.pc = x.pc /\ y.reason = x.reason
      BY <1>5, <2>1, <2>2, <3>1 DEF Goes
    <3>. QED
      BY <3>2 DEF Settles
  <2>. QED
    BY <1>1, <1>5, <2>3, GroupStep, Types DEF Goes, GroupInv
<1>. QED
  BY <1>2, <1>3, <1>4, <1>5


-----------------------------------------------------------------------------
(* What no fault hit ends once *)

\* The inductive invariant.
ConsumerInv == GroupInv /\ EndsInv

Same(m) ==
    /\ successes'[m] = successes[m] /\ failures'[m] = failures[m]
    /\ dead'[m] = dead[m] /\ deliveries'[m] = deliveries[m]
    /\ m \in pending' <=> m \in pending
    /\ m \in idle' <=> m \in idle
    /\ m > read' <=> m > read

LEMMA SameStages ==
    ASSUME NEW m \in Entries, Same(m)
    PROVE  /\ Left(m) => Left(m)'
           /\ \A x : Stage(x, m) => Stage(x, m)'
  BY DEF Same, Left, Stage, Waits, Rests, Untouched, EndsOnce, Handled, DeadLetters

LEMMA EndsStep ==
    ASSUME ConsumerInv, NEW c \in Consumers, NEW x \in Consumer,
           consumer' = [consumer EXCEPT ![c] = x],
           disturbed \subseteq disturbed', x.batch \subseteq Entries,
           \A m \in Entries \ disturbed' : m \notin InHand(c) /\ m \notin x.batch => Same(m),
           \A m \in x.batch \ disturbed' :
              /\ Stage(x, m)' /\ m \notin idle'
              /\ m \in InHand(c) \/ \A d \in Consumers : m \notin InHand(d),
           \A m \in InHand(c) \ disturbed' : m \notin x.batch => Left(m)'
    PROVE  EndsInv'
<1>1. /\ \A d \in Consumers : consumer'[d] = IF d = c THEN x ELSE consumer[d]
      /\ \A d \in Consumers : InHand(d)' = IF d = c THEN x.batch ELSE InHand(d)
      /\ \A d \in Consumers : InHand(d) \subseteq Entries
  BY Types DEF ConsumerInv, GroupInv, InHand
<1>2. \A m \in Entries \ disturbed' : \A d, e \in Consumers :
         m \in InHand(d) => m \notin idle /\ (m \in InHand(e) => d = e)
  BY DEF ConsumerInv, EndsInv, HeldOnce
\* Whoever else has an entry keeps it to itself.
<1>3. ASSUME NEW m \in Entries \ disturbed', NEW d \in Consumers, d # c, m \in InHand(d)
      PROVE  m \notin InHand(c) /\ m \notin x.batch /\ Same(m)
  BY <1>2, <1>3
<1>4. HeldOnce'
  <2>. SUFFICES ASSUME NEW m \in Entries \ disturbed', NEW d \in Consumers,
                       NEW e \in Consumers, m \in InHand(d)'
                PROVE  m \notin idle' /\ (m \in InHand(e)' => d = e)
    BY DEF HeldOnce
  <2>1. CASE d = c
    BY <1>1, <1>3, <2>1
  <2>2. CASE d # c
    <3>1. m \in InHand(d) /\ m \notin x.batch /\ Same(m)
      BY <1>1, <1>3, <2>2
    <3>. QED
      BY <1>1, <1>2, <2>2, <3>1 DEF Same
  <2>. QED
    BY <2>1, <2>2
<1>5. HeldOnTheirWay'
  <2>. SUFFICES ASSUME NEW d \in Consumers, NEW m \in InHand(d)' \ disturbed'
                PROVE  Stage(consumer[d], m)'
    BY DEF HeldOnTheirWay
  <2>1. CASE d = c
    <3>1. consumer'[d] = x /\ m \in x.batch
      BY <1>1, <2>1
    <3>. QED
      BY <3>1
  <2>2. CASE d # c
    <3>1. consumer'[d] = consumer[d] /\ m \in InHand(d) /\ m \in Entries
      BY <1>1, <2>2
    <3>2. Same(m) /\ m \notin disturbed
      BY <1>3, <2>2, <3>1
    <3>3. Stage(consumer[d], m)
      BY <3>1, <3>2 DEF ConsumerInv, EndsInv, HeldOnTheirWay
    <3>4. PICK y : y = consumer[d]
      OBVIOUS
    <3>5. Stage(y, m)' /\ consumer'[d] = y
      BY <3>1, <3>2, <3>3, <3>4, SameStages
    <3>. QED
      BY <3>5
  <2>. QED
    BY <2>1, <2>2
<1>6. OthersAreLeft'
  <2>. SUFFICES ASSUME NEW m \in Entries \ disturbed', \A d \in Consumers : m \notin InHand(d)'
                PROVE  Left(m)'
    BY DEF OthersAreLeft
  <2>1. m \notin x.batch
    BY <1>1
  <2>2. CASE m \in InHand(c)
    BY <2>1, <2>2
  <2>3. CASE m \notin InHand(c)
    <3>1. \A d \in Consumers : m \notin InHand(d)
      BY <1>1, <2>3
    <3>2. Left(m) /\ Same(m)
      BY <2>1, <2>3, <3>1 DEF ConsumerInv, EndsInv, OthersAreLeft
    <3>. QED
      BY <3>2, SameStages
  <2>. QED
    BY <2>2, <2>3
<1>. QED
  BY <1>4, <1>5, <1>6 DEF EndsInv

\* An entry in hand is where it is in hand alone.
LEMMA HeldStage ==
    ASSUME ConsumerInv, NEW c \in Consumers, NEW m \in InHand(c), m \notin disturbed
    PROVE  /\ Stage(consumer[c], m) /\ m \in Entries /\ m \notin idle
           /\ \A d \in Consumers : m \in InHand(d) => d = c
<1>1. m \in Entries
  BY Types DEF ConsumerInv, GroupInv
<1>. QED
  BY <1>1 DEF ConsumerInv, EndsInv, HeldOnce, HeldOnTheirWay

GroupAlone == UNCHANGED <<stream, groupVars, dead, tally>>

LEMMA AllSame ==
    ASSUME GroupAlone
    PROVE  \A m \in Entries : Same(m)
  BY DEF GroupAlone, groupVars, tally, Same

\* A fault hits all that the consumer has in hand.
LEMMA EndsFault ==
    ASSUME ConsumerInv, NEW c \in Consumers, NEW x \in Consumer,
           consumer' = [consumer EXCEPT ![c] = x], GroupAlone,
           x.batch \subseteq InHand(c),
           \/ disturbed' = disturbed \union InHand(c)
           \/ disturbed' = disturbed /\ InHand(c) = {}
    PROVE  EndsInv'
<1>1. x.batch \subseteq Entries
  BY Types DEF ConsumerInv, GroupInv
<1>. QED
  BY <1>1, AllSame, EndsStep

LEMMA EndsPrivate ==
    ASSUME ConsumerInv, NEW c \in Consumers, NEW x \in Consumer,
           consumer' = [consumer EXCEPT ![c] = x], \A m \in Entries : Same(m),
           disturbed' = disturbed,
           x.batch = InHand(c), \A m \in InHand(c) \ disturbed : Stage(x, m)
    PROVE  EndsInv'
<1>1. x.batch \subseteq Entries
  BY Types DEF ConsumerInv, GroupInv
<1>2. \A m \in x.batch \ disturbed' : Stage(x, m)' /\ m \notin idle'
  <2>. SUFFICES ASSUME NEW m \in x.batch \ disturbed' PROVE Stage(x, m)' /\ m \notin idle'
    OBVIOUS
  <2>1. m \in Entries /\ Same(m) /\ Stage(x, m) /\ m \notin idle
    BY <1>1, HeldStage
  <2>. QED
    <3>1. Stage(x, m)'
      BY <2>1, SameStages
    <3>. QED
      BY <2>1, <3>1 DEF Same
<1>. QED
  BY <1>1, <1>2, EndsStep

LEMMA Untold ==
    ASSUME TypeOK, NEW m \in Entries
    PROVE  /\ Waits(m) => Untouched(m) /\ failures[m] <= MaxRetries /\ EndsOnce(m)
           /\ Rests(m) => EndsOnce(m)
<1>1. /\ failures[m] \in Nat /\ MaxRetries \in Nat
      /\ m \in Handled <=> successes[m] > 0
      /\ m \in DeadLetters <=> dead[m] # "none"
  BY Types, ConsumerAssumption DEF Handled, DeadLetters
<1>. QED
  BY <1>1 DEF Waits, Rests, Untouched, EndsOnce

\* A consumer is between batches now, and what it had is left to a fault.
LEMMA Retires ==
    ASSUME ConsumerInv, NEW c \in Consumers, NEW x, Between(x),
           consumer' = [consumer EXCEPT ![c] = x], GroupAlone, faults' \in 0..MaxFaults,
           \/ disturbed' = disturbed \union InHand(c)
           \/ disturbed' = disturbed /\ InHand(c) = {}
    PROVE  ConsumerInv'
<1>1. disturbed' \subseteq Entries
  <2>1. disturbed \subseteq Entries /\ InHand(c) \subseteq Entries
    BY Types DEF ConsumerInv, GroupInv
  <2>. QED
    BY <2>1
<1>2. Grows
  BY <1>1, Quiet DEF GroupAlone, ConsumerInv
<1>3. GroupInv'
  BY <1>2, GroupGoes DEF ConsumerInv
<1>4. EndsInv'
  BY EndsFault DEF Between
<1>. QED
  BY <1>3, <1>4 DEF ConsumerInv

LEMMA LoopKeeps ==
    ASSUME ConsumerInv, NEW c \in Consumers, Start(c) \/ LoopFails(c) \/ Exit(c)
    PROVE  ConsumerInv'
<1>. USE DEF ConsumerInv, GroupInv
<1>1. GroupAlone
  BY DEF Start, LoopFails, Exit, GroupAlone
<1>2. At(c, "off") \/ At(c, "reclaim") \/ At(c, "read") => InHand(c) = {}
  BY Types DEF At
<1>3. CASE Start(c)
  BY <1>1, <1>2, <1>3, Places, Retires, Types DEF Start
<1>4. CASE LoopFails(c)
  <2>1. faults' \in 0..MaxFaults /\ disturbed' = disturbed \union InHand(c)
    BY <1>4, Faulting DEF LoopFails
  <2>2. CASE At(c, "reclaim") /\ Goto(c, "read")
    <3>1. PICK x : consumer' = [consumer EXCEPT ![c] = x] /\ Goes(c, x, "read")
      BY <2>2, Going
    <3>2. Between(x)
      BY <1>2, <2>2, <3>1 DEF Goes, Between
    <3>. QED
      BY <1>1, <2>1, <3>1, <3>2, Retires
  <2>3. CASE Abandon(c)
    BY <1>1, <2>1, <2>3, Places, Retires DEF Abandon
  <2>. QED
    BY <1>4, <2>2, <2>3 DEF LoopFails
<1>5. CASE Exit(c)
  <2>1. faults' \in 0..MaxFaults /\ disturbed' = disturbed \union InHand(c)
    BY <1>5, Faulting, Types DEF Exit
  <2>. QED
    BY <1>1, <1>5, <2>1, Places, Retires DEF Exit
<1>. QED
  BY <1>3, <1>4, <1>5


\* What is settled of the entry a consumer is at.
LEMMA AtEntry ==
    ASSUME ConsumerInv, NEW c \in Consumers, consumer[c].pc \notin {"off", "reclaim", "read"}
    PROVE  /\ Current(c) \in InHand(c) /\ Current(c) \in 1..read /\ Current(c) \in Added
           /\ Current(c) \in Entries /\ InHand(c) \subseteq Entries /\ InHand(c) # {}
           /\ Current(c) = Min(consumer[c].batch)
           /\ Settles(consumer[c])
           /\ consumer[c].pc \in {"handle", "ackHandled", "deadLetter"} => stream[Current(c)] # "stop"
           /\ Rest(c) \subseteq InHand(c)
<1>1. Current(c) \in InHand(c) /\ Current(c) \in 1..read /\ Current(c) \in Added
      /\ Current(c) \in Entries /\ InHand(c) \subseteq Entries
  BY InTheirHand DEF ConsumerInv, GroupInv
<1>2. Current(c) = Min(consumer[c].batch)
  BY DEF Current, InHand
<1>3. Settles(consumer[c])
  BY DEF ConsumerInv, GroupInv
<1>4. consumer[c].pc \in {"handle", "ackHandled", "deadLetter"} => stream[Current(c)] # "stop"
  BY <1>2, <1>3 DEF Settles, ConsumerInv, GroupInv, OnlyMessagesEnd
<1>. QED
  BY <1>1, <1>2, <1>3, <1>4 DEF Rest

\* A message is given up.
LEMMA GivesUp ==
    ASSUME ConsumerInv, Grows, NEW c \in Consumers, NEW x,
           consumer' = [consumer EXCEPT ![c] = x],
           consumer[c].pc \notin {"off", "reclaim", "read"}, stream[Current(c)] # "stop",
           Goes(c, x, "deadLetter"), x.reason # "none"
    PROVE  GroupInv'
<1>1. Current(c) \in Added /\ InHand(c) # {} /\ Min(x.batch) = Current(c)
  BY AtEntry DEF Goes, InHand, Current
<1>2. stream'[Min(x.batch)] # "stop"
  BY <1>1 DEF Grows
<1>3. Settles(x)'
  BY <1>2 DEF Settles, Goes
<1>. QED
  BY <1>1, <1>3, GroupGoes DEF ConsumerInv

LEMMA SettleFailsKeeps ==
    ASSUME ConsumerInv, NEW c \in Consumers, SettleFails(c)
    PROVE  ConsumerInv'
<1>. USE DEF ConsumerInv
<1>1. GroupAlone /\ faults' \in 0..MaxFaults /\ disturbed' \subseteq Entries
      /\ disturbed' = disturbed \union InHand(c)
  BY Faulting DEF SettleFails, GroupAlone, GroupInv
<1>2. Grows
  BY <1>1, Quiet DEF GroupAlone
<1>3. CASE Abandon(c)
  BY <1>1, <1>3, Places, Retires DEF Abandon, GroupInv
<1>4. CASE At(c, "ackHandled") /\ Proceed(c)
  <2>1. PICK x : /\ consumer' = [consumer EXCEPT ![c] = x]
                 /\ \/ Rest(c) = {} /\ Between(x)
                    \/ Rest(c) # {} /\ Begins(x, Rest(c))
    BY <1>4, Proceeding DEF GroupInv
  <2>2. Rest(c) \in SUBSET InHand(c)
    BY <1>4, AtEntry DEF At
  <2>3. x \in Consumer /\ x.batch \subseteq InHand(c)
    BY <2>1, <2>2 DEF Between, Begins
  <2>4. GroupInv'
    BY <1>2, <2>1, <2>2, GroupGoes
  <2>. QED
    BY <1>1, <2>1, <2>3, <2>4, EndsFault
<1>5. CASE At(c, "ackHandled") /\ SendToDlq(c, "retries")
  <2>1. PICK x : /\ consumer' = [consumer EXCEPT ![c] = x]
                 /\ Goes(c, x, "deadLetter") /\ x.reason = "retries"
    BY <1>5, Going DEF GroupInv
  <2>2. GroupInv'
    <3>1. /\ consumer[c].pc \notin {"off", "reclaim", "read"}
          /\ stream[Current(c)] # "stop"
      BY <1>5, AtEntry DEF At
    <3>2. x.reason # "none"
      BY <2>1
    <3>. QED
      BY <1>2, <2>1, <3>1, <3>2, GivesUp
  <2>3. EndsInv'
    BY <1>1, <2>1, EndsFault DEF Goes
  <2>. QED
    BY <2>2, <2>3
<1>. QED
  BY <1>3, <1>4, <1>5 DEF SettleFails, Retry

LEMMA StopKeeps ==
    ASSUME ConsumerInv, NEW c \in Consumers, Stop(c)
    PROVE  ConsumerInv'
<1>. USE DEF ConsumerInv
<1>. DEFINE x == [consumer[c] EXCEPT !.running = FALSE]
<1>1. consumer[c] \in Consumer /\ InHand(c) = consumer[c].batch
  BY Types DEF GroupInv, InHand
<1>2. /\ x \in Consumer /\ x.pc = consumer[c].pc /\ x.batch = consumer[c].batch
      /\ x.reason = consumer[c].reason /\ x.count = consumer[c].count
      /\ x.reclaimed = consumer[c].reclaimed
  BY <1>1 DEF Consumer
<1>3. consumer' = [consumer EXCEPT ![c] = x]
  BY DEF Stop
<1>. HIDE DEF x
<1>4. UNCHANGED <<read, pending, idle, deliveries, dead, successes, failures, disturbed>>
  BY DEF Stop, groupVars, tally
<1>5. Handled' = Handled /\ DeadLetters' = DeadLetters /\ Ended' = Ended
  BY <1>4 DEF Handled, DeadLetters, Ended
<1>6. /\ stream' \in Seq(Kinds) /\ Len(stream) <= Len(stream') /\ Len(stream') <= MaxEntries
      /\ \A m \in Added : stream'[m] = stream[m]
      /\ faults' \in 0..MaxFaults
  <2>1. CASE Len(stream) < MaxEntries /\ stream' = Append(stream, "stop") /\ faults' = faults
    BY <2>1, Types DEF GroupInv, Kinds
  <2>2. CASE Spend /\ stream' = stream
    BY <2>2, Faulting, Types DEF GroupInv
  <2>. QED
    BY <2>1, <2>2 DEF Stop
<1>7. Grows
  <2>1. \A m \in 1..read : m \in pending \/ m \in Ended \/ stream[m] = "stop"
    BY DEF GroupInv, NothingIsAckedUnsettled, Ended
  <2>2. read \in Nat /\ read <= Len(stream')
    BY <1>6, Types DEF GroupInv
  <2>. QED
    BY <1>4, <1>5, <1>6, <2>1, <2>2, Types DEF GroupInv, Grows
<1>8. GroupInv'
  BY <1>1, <1>2, <1>3, <1>7, GroupGoes DEF Goes
<1>9. EndsInv'
  <2>1. \A m \in Entries : Same(m)
    BY <1>4 DEF Same
  <2>2. ASSUME NEW m \in InHand(c) \ disturbed PROVE Stage(x, m)
    <3>1. Stage(consumer[c], m)
      BY HeldStage
    <3>. QED
      BY <1>2, <3>1 DEF Stage
  <2>. QED
    BY <1>1, <1>2, <1>3, <1>4, <2>1, <2>2, EndsPrivate
<1>. QED
  BY <1>8, <1>9

LEMMA EntryKeeps ==
    ASSUME ConsumerInv, NEW c \in Consumers, Entry(c)
    PROVE  ConsumerInv'
<1>. USE DEF ConsumerInv
<1>. DEFINE m == Current(c)
<1>1. GroupAlone /\ consumer[c].pc = "entry"
  BY DEF Entry, GroupAlone, At
<1>2. m \in InHand(c) /\ m \in Entries /\ InHand(c) \subseteq Entries /\ InHand(c) # {} /\ m \in Added
  BY <1>1, AtEntry
<1>3. ASSUME NEW k \in InHand(c), k \notin disturbed PROVE Waits(k)
  BY <1>1, <1>3, HeldStage DEF Stage
<1>4. UNCHANGED <<stream, pending, deliveries>> /\ \A k \in Entries : Same(k)
  BY <1>1, AllSame DEF GroupAlone, groupVars
\* It is for the consumer itself.
<1>5. CASE stream[m] = "stop" /\ Goto(c, "ack") /\ UNCHANGED <<faults, disturbed>>
  <2>1. PICK x : consumer' = [consumer EXCEPT ![c] = x] /\ Goes(c, x, "ack")
    BY <1>5, Going DEF GroupInv
  <2>2. Min(x.batch) = m
    BY <2>1 DEF Goes, Current, InHand
  <2>3. Settles(x)'
    BY <1>4, <1>5, <2>1, <2>2 DEF Settles, Settled, Goes
  <2>4. Grows
    BY <1>1, <1>5, Quiet, Types DEF GroupAlone, GroupInv
  <2>5. GroupInv'
    BY <1>2, <2>1, <2>3, <2>4, GroupGoes
  <2>6. ASSUME NEW k \in InHand(c) \ disturbed PROVE Stage(x, k)
    <3>1. Waits(k) /\ EndsOnce(k) /\ x.pc = "ack"
      BY <1>2, <1>3, <2>1, Untold DEF Goes, GroupInv
    <3>. QED
      BY <3>1 DEF Stage
  <2>. QED
    BY <1>4, <1>5, <2>1, <2>5, <2>6, EndsPrivate DEF Goes
\* It cannot be read.
<1>6. CASE stream[m] = "malformed" /\ SendToDlq(c, "rejected") /\ UNCHANGED <<faults, disturbed>>
  <2>1. PICK x : /\ consumer' = [consumer EXCEPT ![c] = x]
                 /\ Goes(c, x, "deadLetter") /\ x.reason = "rejected"
    BY <1>6, Going DEF GroupInv
  <2>2. Min(x.batch) = m
    BY <2>1 DEF Goes, Current, InHand
  <2>3. Grows
    BY <1>1, <1>6, Quiet, Types DEF GroupAlone, GroupInv
  <2>4. GroupInv'
    <3>1. /\ consumer[c].pc \notin {"off", "reclaim", "read"}
          /\ stream[Current(c)] # "stop" /\ x.reason # "none"
      BY <1>1, <1>6, <2>1
    <3>. QED
      BY <2>1, <2>3, <3>1, GivesUp
  <2>5. ASSUME NEW k \in InHand(c) \ disturbed PROVE Stage(x, k)
    <3>1. Waits(k) /\ Untouched(k) /\ failures[k] <= MaxRetries /\ x.pc = "deadLetter"
      BY <1>2, <1>3, <2>1, Untold DEF Goes, GroupInv
    <3>. QED
      BY <2>1, <3>1 DEF Stage
  <2>. QED
    BY <1>4, <1>6, <2>1, <2>4, <2>5, EndsPrivate DEF Goes
\* Its handler is called.
<1>7. ASSUME stream[m] = "event", NEW n \in {CountOf(m), 1},
             consumer' = [consumer EXCEPT ![c] = [consumer[c] EXCEPT !.pc = "handle", !.count = n]],
             \/ n = CountOf(m) /\ UNCHANGED <<faults, disturbed>>
             \/ Fault(c)
      PROVE  ConsumerInv'
  <2>1. n \in Nat
    BY <1>2, Types DEF CountOf, GroupInv
  <2>2. PICK x : consumer' = [consumer EXCEPT ![c] = x] /\ Goes(c, x, "handle") /\ x.count = n
    <3>. DEFINE x == [consumer[c] EXCEPT !.pc = "handle", !.count = n]
    <3>1. consumer[c] \in Consumer
      BY Types DEF GroupInv
    <3>2. Goes(c, x, "handle") /\ x.count = n
      BY <2>1, <3>1 DEF Consumer, Goes, InHand
    <3>3. consumer' = [consumer EXCEPT ![c] = x]
      BY <1>7
    <3>. HIDE DEF x
    <3>. QED
      BY <3>2, <3>3
  <2>3. Min(x.batch) = m
    BY <2>2 DEF Goes, Current, InHand
  <2>4. Settles(x)'
    <3>1. stream'[Min(x.batch)] # "stop" /\ x.pc = "handle"
      BY <1>4, <1>7, <2>2, <2>3 DEF Goes
    <3>. QED
      BY <3>1 DEF Settles
  <2>5. faults' \in 0..MaxFaults /\ disturbed' \subseteq Entries
        /\ \/ disturbed' = disturbed \union InHand(c)
           \/ n = CountOf(m) /\ disturbed' = disturbed
    BY <1>7, Faulting, Types DEF GroupInv
  <2>6. Grows
    BY <1>1, <2>5, Quiet DEF GroupAlone
  <2>7. GroupInv'
    <3>1. \E pc \in {"handle", "ackHandled", "ack", "deadLetter"} :
             Goes(c, x, pc) /\ InHand(c) # {} /\ Settles(x)'
      BY <1>2, <2>2, <2>4
    <3>. QED
      BY <2>2, <2>6, <3>1, GroupGoes
  <2>8. EndsInv'
    <3>1. CASE disturbed' = disturbed \union InHand(c)
      BY <1>1, <2>2, <3>1, EndsFault DEF Goes
    <3>2. CASE n = CountOf(m) /\ disturbed' = disturbed
      <4>1. ASSUME NEW k \in InHand(c) \ disturbed PROVE Stage(x, k)
        <5>1. Waits(k) /\ x.pc = "handle" /\ k \in pending
          BY <1>3, <2>2 DEF Goes, Waits
        <5>2. k = Min(x.batch) => x.count = deliveries[k]
          BY <2>2, <2>3, <3>2, <5>1 DEF CountOf
        <5>. QED
          BY <5>1, <5>2 DEF Stage
      <4>. QED
        BY <1>4, <2>2, <3>2, <4>1, EndsPrivate DEF Goes
    <3>. QED
      BY <2>5, <3>1, <3>2
  <2>. QED
    BY <2>7, <2>8
<1>. QED
  BY Zenon, <1>5, <1>6, <1>7 DEF Entry


\* The rest of the batch waits on.
LEMMA RestWaits ==
    ASSUME ConsumerInv, NEW c \in Consumers, consumer[c].pc \notin {"off", "reclaim", "read"},
           NEW k \in InHand(c) \ disturbed, k # Current(c)
    PROVE  Waits(k) /\ k \in Entries /\ k \notin idle
<1>1. Stage(consumer[c], k) /\ k \in Entries /\ k \notin idle
  BY HeldStage
<1>2. Current(c) = Min(consumer[c].batch)
  BY AtEntry
<1>. QED
  BY <1>1, <1>2 DEF Stage

LEMMA HandlerSucceedsKeeps ==
    ASSUME ConsumerInv, NEW c \in Consumers, HandlerSucceeds(c)
    PROVE  ConsumerInv'
<1>. USE DEF ConsumerInv
<1>. DEFINE m == Current(c)
<1>1. consumer[c].pc = "handle"
  BY DEF HandlerSucceeds, At
<1>2. /\ m \in InHand(c) /\ m \in Entries /\ InHand(c) \subseteq Entries /\ InHand(c) # {}
      /\ m \in Added /\ stream[m] # "stop" /\ m = Min(consumer[c].batch)
  BY <1>1, AtEntry
<1>3. /\ UNCHANGED <<stream, read, pending, idle, deliveries, dead, faults, failures, disturbed>>
      /\ successes' = [successes EXCEPT ![m] = IF m \in disturbed THEN 1 ELSE successes[m] + 1]
  BY DEF HandlerSucceeds, groupVars
<1>4. /\ successes' \in [Entries -> Nat] /\ successes'[m] > 0
      /\ m \notin disturbed => successes'[m] = successes[m] + 1
      /\ \A k \in Entries : k # m => successes'[k] = successes[k]
  <2>1. successes \in [Entries -> Nat] /\ m \in Entries
    BY <1>2, GroupTypes
  <2>. HIDE DEF m
  <2>. QED
    BY <1>3, <2>1
<1>5. PICK x : /\ consumer' = [consumer EXCEPT ![c] = x]
               /\ Goes(c, x, "ackHandled")
  BY Going DEF HandlerSucceeds, GroupInv
<1>6. Min(x.batch) = m /\ x.batch = InHand(c) /\ x \in Consumer /\ x.pc = "ackHandled"
  BY <1>5 DEF Goes, Current, InHand
<1>. HIDE DEF m
<1>7. Handled' = Handled \union {m} /\ DeadLetters' = DeadLetters
  BY <1>2, <1>3, <1>4 DEF Handled, DeadLetters
<1>8. Grows
  <2>1. failures' \in [Entries -> Nat] /\ dead' \in [Entries -> {"none", "rejected", "retries"}]
    BY <1>3, Types DEF GroupInv
  <2>. QED
    BY <1>2, <1>3, <1>4, <1>7, <2>1, Settling
<1>9. GroupInv'
  <2>1. Settles(x)'
    BY <1>6, <1>7 DEF Settles
  <2>2. \E pc \in {"handle", "ackHandled", "ack", "deadLetter"} :
           Goes(c, x, pc) /\ InHand(c) # {} /\ Settles(x)'
    BY <1>2, <1>5, <2>1
  <2>. QED
    BY <1>5, <1>8, <2>2, GroupGoes
<1>10. EndsInv'
  <2>1. ASSUME NEW k \in Entries, k # m PROVE Same(k)
    BY <1>3, <1>4, <2>1 DEF Same
  <2>2. ASSUME NEW k \in InHand(c) \ disturbed PROVE Stage(x, k)' /\ k \notin idle'
    <3>1. CASE k = m
      <4>1. Waits(m) /\ m \notin idle
        BY <1>1, <1>2, <2>2, <3>1, HeldStage DEF Stage
      <4>2. failures[m] \in Nat /\ MaxRetries \in Nat
        BY <1>2, Types, ConsumerAssumption DEF GroupInv
      <4>3. successes'[m] = 1 /\ dead'[m] = "none" /\ failures'[m] <= MaxRetries
        BY <1>3, <1>4, <2>2, <3>1, <4>1, <4>2 DEF Waits, Untouched
      <4>. QED
        BY <1>3, <1>6, <3>1, <4>1, <4>3 DEF Stage
    <3>2. CASE k # m
      <4>1. Waits(k) /\ k \in Entries /\ k \notin idle
        BY <1>1, <2>2, <3>2, RestWaits DEF m
      <4>2. Waits(k)' /\ k \notin idle'
        BY <2>1, <3>2, <4>1 DEF Waits, Untouched, Same
      <4>. QED
        BY <1>6, <3>2, <4>2 DEF Stage
    <3>. QED
      BY <3>1, <3>2
  <2>. QED
    BY <1>2, <1>3, <1>5, <1>6, <2>1, <2>2, EndsStep
<1>. QED
  BY <1>9, <1>10

LEMMA HandlerRejectsKeeps ==
    ASSUME ConsumerInv, NEW c \in Consumers, HandlerRejects(c)
    PROVE  ConsumerInv'
<1>. USE DEF ConsumerInv
<1>1. consumer[c].pc = "handle" /\ GroupAlone /\ UNCHANGED <<faults, disturbed>>
  BY DEF HandlerRejects, At, GroupAlone
<1>2. PICK x : /\ consumer' = [consumer EXCEPT ![c] = x]
               /\ Goes(c, x, "deadLetter") /\ x.reason = "rejected"
  BY Going DEF HandlerRejects, GroupInv
<1>3. GroupInv'
  <2>1. Grows
    BY <1>1, Quiet, Types DEF GroupAlone, GroupInv
  <2>2. /\ consumer[c].pc \notin {"off", "reclaim", "read"}
        /\ stream[Current(c)] # "stop" /\ x.reason # "none"
    BY <1>1, <1>2, AtEntry
  <2>. QED
    BY <1>2, <2>1, <2>2, GivesUp
<1>4. ASSUME NEW k \in InHand(c) \ disturbed PROVE Stage(x, k)
  <2>1. Waits(k) /\ k \in Entries
    BY <1>1, HeldStage DEF Stage
  <2>2. Untouched(k) /\ failures[k] <= MaxRetries
    BY <2>1, Untold DEF GroupInv
  <2>. QED
    BY <1>2, <2>1, <2>2 DEF Stage, Goes
<1>. QED
  BY <1>1, <1>2, <1>3, <1>4, AllSame, EndsPrivate DEF Goes

LEMMA HandlerFailsKeeps ==
    ASSUME ConsumerInv, NEW c \in Consumers, HandlerFails(c)
    PROVE  ConsumerInv'
<1>. USE DEF ConsumerInv
<1>. DEFINE m == Current(c)
<1>1. consumer[c].pc = "handle"
  BY DEF HandlerFails, At
<1>2. /\ m \in InHand(c) /\ m \in Entries /\ InHand(c) \subseteq Entries /\ InHand(c) # {}
      /\ m \in Added /\ m \in 1..read /\ stream[m] # "stop" /\ m = Min(consumer[c].batch)
      /\ Rest(c) = InHand(c) \ {m}
  BY <1>1, AtEntry DEF Rest
<1>3. /\ UNCHANGED <<stream, read, pending, idle, deliveries, dead, faults, successes, disturbed>>
      /\ failures' = [failures EXCEPT ![m] = IF m \in disturbed THEN failures[m] ELSE failures[m] + 1]
  BY DEF HandlerFails, groupVars
<1>4. /\ failures' \in [Entries -> Nat]
      /\ m \notin disturbed => failures'[m] = failures[m] + 1
      /\ \A k \in Entries : k # m => failures'[k] = failures[k]
  <2>1. failures \in [Entries -> Nat] /\ m \in Entries
    BY <1>2, GroupTypes
  <2>. HIDE DEF m
  <2>. QED
    BY <1>3, <2>1
<1>5. /\ failures[m] \in Nat /\ deliveries[m] \in Nat /\ MaxRetries \in Nat
      /\ consumer[c].count \in Nat
  BY <1>2, Types, ConsumerAssumption DEF GroupInv, Consumer
<1>6. m \notin disturbed =>
         Waits(m) /\ m \notin idle /\ consumer[c].count = deliveries[m]
  BY <1>1, <1>2, HeldStage DEF Stage
<1>7. Grows
  <2>1. Handled' = Handled /\ DeadLetters' = DeadLetters
    BY <1>3 DEF Handled, DeadLetters
  <2>2. Ended' = Ended
    BY <2>1 DEF Ended
  <2>. QED
    BY <1>3, <1>4, <2>1, <2>2, GroupTypes DEF Grows
<1>8. ASSUME NEW k \in Entries, k # m PROVE Same(k)
  BY <1>3, <1>4, <1>8 DEF Same
<1>9. ASSUME NEW k \in Rest(c) \ disturbed PROVE Waits(k)' /\ k \notin idle'
  <2>1. Waits(k) /\ k \in Entries /\ k \notin idle /\ k # m
    BY <1>1, <1>2, RestWaits
  <2>. QED
    BY <1>8, <2>1 DEF Waits, Untouched, Same
\* It is left to be reclaimed.
<1>10. CASE consumer[c].count < MaxRetries /\ Proceed(c)
  <2>1. PICK x : /\ consumer' = [consumer EXCEPT ![c] = x]
                 /\ \/ Rest(c) = {} /\ Between(x)
                    \/ Rest(c) # {} /\ Begins(x, Rest(c))
    BY <1>10, Proceeding DEF GroupInv
  <2>2. x \in Consumer /\ x.batch = Rest(c) /\ (Rest(c) # {} => x.pc = "entry")
    BY <2>1 DEF Between, Begins
  <2>3. Rest(c) \in SUBSET InHand(c)
    BY <1>2
  <2>4. GroupInv'
    BY <1>7, <2>1, <2>3, GroupGoes
  <2>5. ASSUME NEW k \in InHand(c) \ disturbed, k = m PROVE Left(k)'
    <3>1. deliveries'[k] = failures'[k] /\ failures'[k] < MaxRetries /\ k \in pending'
      BY <1>3, <1>4, <1>5, <1>6, <1>10, <2>5 DEF Waits
    <3>2. successes'[k] = 0 /\ dead'[k] = "none"
      BY <1>3, <1>6, <2>5 DEF Waits, Untouched
    <3>. QED
      BY <3>1, <3>2 DEF Left, Rests, Untouched
  <2>6. \A k \in x.batch \ disturbed : Stage(x, k)' /\ k \notin idle'
    BY <1>9, <2>2 DEF Stage
  <2>7. \A k \in InHand(c) \ disturbed : k \notin x.batch => Left(k)'
    BY <1>2, <2>2, <2>5
  <2>8. EndsInv'
    BY <1>2, <1>3, <1>8, <2>1, <2>2, <2>6, <2>7, EndsStep
  <2>. QED
    BY <2>4, <2>8
\* It is given up.
<1>11. CASE ~(consumer[c].count < MaxRetries) /\ SendToDlq(c, "retries")
  <2>1. PICK x : /\ consumer' = [consumer EXCEPT ![c] = x]
                 /\ Goes(c, x, "deadLetter") /\ x.reason = "retries"
    BY <1>11, Going DEF GroupInv
  <2>2. Min(x.batch) = m /\ x.batch = InHand(c) /\ x \in Consumer /\ x.pc = "deadLetter"
    BY <2>1 DEF Goes, Current, InHand
  <2>3. GroupInv'
    <3>1. /\ consumer[c].pc \notin {"off", "reclaim", "read"}
          /\ stream[Current(c)] # "stop" /\ x.reason # "none"
      BY <1>1, <1>2, <2>1
    <3>. QED
      BY <1>7, <2>1, <3>1, GivesUp
  <2>4. ASSUME NEW k \in InHand(c) \ disturbed PROVE Stage(x, k)' /\ k \notin idle'
    <3>. HIDE DEF m
    <3>1. CASE k = m
      <4>1. failures'[m] = MaxRetries
        BY <1>4, <1>5, <1>6, <1>11, <2>4, <3>1 DEF Waits
      <4>2. successes'[m] = 0 /\ dead'[m] = "none" /\ m \notin idle'
        BY <1>3, <1>6, <2>4, <3>1 DEF Waits, Untouched
      <4>3. failures'[m] <= MaxRetries
        BY <1>5, <4>1
      <4>. QED
        BY <2>2, <3>1, <4>1, <4>2, <4>3 DEF Stage, Untouched
    <3>2. CASE k # m
      <4>1. Waits(k)' /\ k \notin idle'
        BY <1>2, <1>9, <2>4, <3>2
      <4>. QED
        BY <2>2, <3>2, <4>1 DEF Stage
    <3>. QED
      BY <3>1, <3>2
  <2>5. EndsInv'
    BY <1>2, <1>3, <1>8, <2>1, <2>2, <2>4, EndsStep
  <2>. QED
    BY <2>3, <2>5
<1>. QED
  BY <1>10, <1>11 DEF HandlerFails, Retry

LEMMA DeadLetterKeeps ==
    ASSUME ConsumerInv, NEW c \in Consumers, DeadLetter(c)
    PROVE  ConsumerInv'
<1>. USE DEF ConsumerInv
<1>0. PICK m, reason : m = Current(c) /\ reason = consumer[c].reason
  OBVIOUS
<1>1. consumer[c].pc = "deadLetter"
  BY DEF DeadLetter, At
<1>2. /\ m \in InHand(c) /\ m \in Entries /\ InHand(c) \subseteq Entries /\ InHand(c) # {}
      /\ m \in Added /\ stream[m] # "stop" /\ m = Min(consumer[c].batch)
      /\ Settles(consumer[c])
  BY <1>0, <1>1, AtEntry
<1>3. reason \in {"rejected", "retries"}
  <2>1. reason \in {"none", "rejected", "retries"}
    BY <1>0, Types DEF GroupInv, Consumer
  <2>. QED
    BY <1>0, <1>1, <1>2, <2>1 DEF Settles
<1>4. /\ UNCHANGED <<stream, read, pending, idle, deliveries, successes, failures, faults, disturbed>>
      /\ dead' = [dead EXCEPT ![m] = reason]
  BY <1>0 DEF DeadLetter, groupVars, tally
<1>5. PICK x : /\ consumer' = [consumer EXCEPT ![c] = x]
               /\ Goes(c, x, "ack")
  BY Going DEF DeadLetter, GroupInv
<1>6. Min(x.batch) = m /\ x.batch = InHand(c) /\ x \in Consumer /\ x.pc = "ack"
  BY <1>0, <1>5 DEF Goes, Current, InHand
<1>7. /\ dead' \in [Entries -> {"none", "rejected", "retries"}]
      /\ dead'[m] = reason /\ \A k \in Entries : k # m => dead'[k] = dead[k]
  BY <1>2, <1>3, <1>4, Types DEF GroupInv
<1>8. Handled' = Handled /\ DeadLetters' = DeadLetters \union {m}
  BY <1>2, <1>3, <1>4, <1>7 DEF Handled, DeadLetters
<1>9. GroupInv'
  <2>1. Grows
    BY <1>2, <1>4, <1>7, <1>8, Settling, Types DEF GroupInv
  <2>2. Settles(x)'
    BY <1>6, <1>8 DEF Settles, Settled
  <2>3. \E pc \in {"handle", "ackHandled", "ack", "deadLetter"} :
           Goes(c, x, pc) /\ InHand(c) # {} /\ Settles(x)'
    BY <1>2, <1>5, <2>2
  <2>. QED
    BY <1>5, <2>1, <2>3, GroupGoes
<1>10. EndsInv'
  <2>1. ASSUME NEW k \in Entries, k # m PROVE Same(k)
    BY <1>4, <1>7, <2>1 DEF Same
  <2>2. ASSUME NEW k \in InHand(c) \ disturbed PROVE Stage(x, k)' /\ k \notin idle'
    <3>1. CASE k = m
      <4>1. /\ Untouched(m) /\ failures[m] <= MaxRetries /\ m \notin idle
            /\ reason = "retries" => failures[m] = MaxRetries
        BY <1>1, <1>2, <2>2, <3>1, <1>0, HeldStage DEF Stage
      <4>2. EndsOnce(m)'
        BY <1>2, <1>4, <1>7, <4>1 DEF EndsOnce, Untouched, Handled, DeadLetters
      <4>. QED
        BY <1>4, <1>6, <3>1, <4>1, <4>2 DEF Stage
    <3>2. CASE k # m
      <4>1. Waits(k) /\ k \in Entries /\ k \notin idle
        BY <1>1, <2>2, <3>2, <1>0, RestWaits
      <4>2. Waits(k)' /\ k \notin idle'
        BY <2>1, <3>2, <4>1 DEF Waits, Untouched, Same
      <4>. QED
        BY <1>6, <3>2, <4>2 DEF Stage
    <3>. QED
      BY <3>1, <3>2
  <2>. QED
    BY <1>2, <1>4, <1>5, <1>6, <2>1, <2>2, EndsStep
<1>. QED
  BY <1>9, <1>10

LEMMA AckKeeps ==
    ASSUME ConsumerInv, NEW c \in Consumers, Ack(c)
    PROVE  ConsumerInv'
<1>. USE DEF ConsumerInv
<1>0. PICK m : m = Current(c)
  OBVIOUS
<1>1. consumer[c].pc \in {"ack", "ackHandled"} /\ consumer[c].pc \notin {"off", "reclaim", "read"}
  BY DEF Ack, At
<1>2. /\ m \in InHand(c) /\ m \in Entries /\ InHand(c) \subseteq Entries /\ InHand(c) # {}
      /\ m \in 1..read /\ m = Min(consumer[c].batch) /\ Settles(consumer[c])
      /\ Rest(c) = InHand(c) \ {m}
  BY <1>0, <1>1, AtEntry DEF Rest
<1>3. /\ UNCHANGED <<stream, read, deliveries, dead, faults, successes, failures, disturbed>>
      /\ pending' = pending \ {m} /\ idle' = idle \ {m} /\ Proceed(c)
  BY <1>0 DEF Ack, tally
<1>4. Settled(m)
  BY <1>1, <1>2 DEF Settles, Settled
<1>5. Handled' = Handled /\ DeadLetters' = DeadLetters /\ Ended' = Ended
  BY <1>3 DEF Handled, DeadLetters, Ended
<1>6. Grows
  <2>1. \A k \in 1..read : k \in pending' \/ k \in Ended \/ stream[k] = "stop"
    BY <1>3, <1>4 DEF GroupInv, NothingIsAckedUnsettled, Settled, Ended
  <2>2. idle' \subseteq pending' /\ pending' \subseteq 1..read
    BY <1>3, Types DEF GroupInv
  <2>3. /\ stream \in Seq(Kinds) /\ Len(stream) \in Nat /\ Len(stream) <= MaxEntries
        /\ read \in Nat /\ read <= Len(stream) /\ faults \in 0..MaxFaults
        /\ deliveries \in [Entries -> Nat] /\ disturbed \subseteq Entries
        /\ dead \in [Entries -> {"none", "rejected", "retries"}]
        /\ successes \in [Entries -> Nat] /\ failures \in [Entries -> Nat]
    BY Types DEF GroupInv
  <2>. QED
    BY <1>3, <1>5, <2>1, <2>2, <2>3 DEF Grows
<1>7. PICK x : /\ consumer' = [consumer EXCEPT ![c] = x]
               /\ \/ Rest(c) = {} /\ Between(x)
                  \/ Rest(c) # {} /\ Begins(x, Rest(c))
  BY <1>3, Proceeding DEF GroupInv
<1>8. x \in Consumer /\ x.batch = Rest(c) /\ (Rest(c) # {} => x.pc = "entry")
  BY <1>7 DEF Between, Begins
<1>9. GroupInv'
  <2>1. Rest(c) \in SUBSET InHand(c)
    BY <1>2
  <2>. QED
    BY <1>6, <1>7, <2>1, GroupGoes
<1>10. EndsInv'
  <2>1. ASSUME NEW k \in Entries, k # m PROVE Same(k)
    BY <1>3, <2>1 DEF Same
  <2>2. ASSUME NEW k \in Rest(c) \ disturbed PROVE Stage(x, k)' /\ k \notin idle'
    <3>1. Waits(k) /\ k \in Entries /\ k \notin idle /\ k # m
      BY <1>1, <1>2, <2>2, <1>0, RestWaits
    <3>2. Waits(k)' /\ k \notin idle'
      BY <2>1, <3>1 DEF Waits, Untouched, Same
    <3>. QED
      BY <1>8, <2>2, <3>2 DEF Stage
  <2>3. ASSUME NEW k \in InHand(c) \ disturbed, k = m PROVE Left(k)'
    <3>1. Stage(consumer[c], m)
      BY <2>3, HeldStage
    <3>2. EndsOnce(m)
      <4>1. CASE consumer[c].pc = "ack"
        BY <1>2, <3>1, <4>1 DEF Stage
      <4>2. CASE consumer[c].pc = "ackHandled"
        <5>1. successes[m] = 1 /\ dead[m] = "none" /\ failures[m] <= MaxRetries
          BY <1>2, <3>1, <4>2 DEF Stage
        <5>. QED
          BY <5>1 DEF EndsOnce, DeadLetters
      <4>. QED
        BY <1>1, <4>1, <4>2
    <3>3. EndsOnce(m)'
      BY <1>3, <1>5, <3>2 DEF EndsOnce
    <3>4. m \notin pending' /\ ~(m > read')
      BY <1>2, <1>3, Types DEF GroupInv
    <3>. QED
      BY <2>3, <3>3, <3>4 DEF Left
  <2>4. \A k \in x.batch \ disturbed : Stage(x, k)' /\ k \notin idle'
    BY <1>8, <2>2
  <2>5. \A k \in InHand(c) \ disturbed : k \notin x.batch => Left(k)'
    BY <1>2, <1>8, <2>3
  <2>. QED
    BY <1>2, <1>3, <1>7, <1>8, <2>1, <2>4, <2>5, EndsStep
<1>. QED
  BY <1>9, <1>10

-----------------------------------------------------------------------------
(* What is delivered is in nobody's hand, but for a fault *)

LEMMA Deliverable ==
    ASSUME ConsumerInv, NEW k \in Entries \ disturbed, k \in idle \/ k > read
    PROVE  Rests(k) /\ \A d \in Consumers : k \notin InHand(d)
<1>. USE DEF ConsumerInv
<1>1. \A d \in Consumers : k \notin InHand(d)
  <2>1. CASE k \in idle
    BY <2>1 DEF EndsInv, HeldOnce
  <2>2. CASE k > read
    <3>1. \A d \in Consumers : InHand(d) \subseteq 1..read
      BY Types DEF GroupInv
    <3>2. read \in Nat /\ k \in Nat
      BY Types DEF GroupInv
    <3>. QED
      BY <2>2, <3>1, <3>2
  <2>. QED
    BY <2>1, <2>2
<1>2. Left(k) /\ (k \in pending \/ k > read)
  BY <1>1, Types DEF EndsInv, OthersAreLeft, GroupInv
<1>. QED
  BY <1>1, <1>2 DEF Left

LEMMA Delivers ==
    ASSUME ConsumerInv, NEW c \in Consumers, InHand(c) = {},
           NEW batch \in SUBSET Entries, batch # {}, NEW b \in BOOLEAN,
           Deliver(c, batch, b),
           UNCHANGED <<stream, dead, faults, successes, failures, disturbed>>,
           batch \subseteq 1..read', read' \in Nat, read <= read', read' <= Len(stream),
           \A k \in Entries : k \notin batch => (k > read' <=> k > read),
           \A k \in batch : k \in idle \/ k > read
    PROVE  ConsumerInv'
<1>. USE DEF ConsumerInv
<1>1. PICK x : consumer' = [consumer EXCEPT ![c] = x] /\ Begins(x, batch)
  BY Places DEF Deliver, GroupInv
<1>2. x \in Consumer /\ x.pc = "entry" /\ x.batch = batch
  BY <1>1 DEF Begins
<1>3. /\ pending' = pending \union batch /\ idle' = idle \ batch
      /\ deliveries' \in [Entries -> Nat]
      /\ \A k \in Entries : deliveries'[k] = deliveries[k] + (IF k \in batch THEN 1 ELSE 0)
  <2>1. deliveries \in [Entries -> Nat]
    BY Types DEF GroupInv
  <2>. QED
    BY <2>1 DEF Deliver
<1>4. Handled' = Handled /\ DeadLetters' = DeadLetters /\ Ended' = Ended
  BY DEF Handled, DeadLetters, Ended
<1>5. /\ stream \in Seq(Kinds) /\ Len(stream) \in Nat /\ Len(stream) <= MaxEntries
      /\ read \in Nat /\ read <= Len(stream) /\ faults \in 0..MaxFaults
      /\ disturbed \subseteq Entries
      /\ dead \in [Entries -> {"none", "rejected", "retries"}]
      /\ successes \in [Entries -> Nat] /\ failures \in [Entries -> Nat]
      /\ deliveries \in [Entries -> Nat]
      /\ idle \subseteq pending /\ pending \subseteq 1..read
      /\ Entries \subseteq Nat /\ 1..Len(stream) \subseteq Entries
  BY GroupTypes
<1>6. Grows
  <2>1. ASSUME NEW k \in 1..read'
        PROVE  k \in pending' \/ k \in Ended \/ (k \in 1..read /\ stream[k] = "stop")
    <3>1. CASE k \in batch
      BY <1>3, <3>1
    <3>2. CASE k \notin batch
      <4>1. k \in 1..read
        BY <1>5, <3>2
      <4>. QED
        BY <1>3, <4>1 DEF GroupInv, NothingIsAckedUnsettled, Ended
    <3>. QED
      BY <3>1, <3>2
  <2>2. pending' \subseteq 1..read' /\ idle' \subseteq pending'
    BY <1>3, <1>5
  <2>. QED
    BY <1>3, <1>4, <1>5, <2>1, <2>2 DEF Grows
<1>7. GroupInv'
  <2>1. x.batch = {} <=> x.pc \in {"off", "reclaim", "read"}
    BY <1>2
  <2>2. Settles(x)'
    BY <1>2 DEF Settles
  <2>. QED
    BY <1>1, <1>2, <1>6, <2>1, <2>2, GroupStep
<1>8. EndsInv'
  <2>1. ASSUME NEW k \in Entries, k \notin batch PROVE Same(k)
    BY <1>3, <1>5, <2>1 DEF Same
  <2>2. ASSUME NEW k \in batch \ disturbed
        PROVE  Stage(x, k)' /\ k \notin idle' /\ \A d \in Consumers : k \notin InHand(d)
    <3>1. Rests(k) /\ \A d \in Consumers : k \notin InHand(d)
      BY <2>2, Deliverable
    <3>2. deliveries[k] = failures[k] /\ failures[k] \in Nat
      BY <1>5, <3>1 DEF Rests
    <3>3. Waits(k)'
      BY <1>3, <3>1, <3>2 DEF Rests, Waits, Untouched
    <3>. QED
      BY <1>2, <1>3, <3>1, <3>3 DEF Stage
  <2>3. \A k \in Entries \ disturbed : k \notin InHand(c) /\ k \notin x.batch => Same(k)
    BY <1>2, <2>1
  <2>4. \A k \in x.batch \ disturbed :
           /\ Stage(x, k)' /\ k \notin idle'
           /\ k \in InHand(c) \/ \A d \in Consumers : k \notin InHand(d)
    BY <1>2, <2>2
  <2>. QED
    BY <1>1, <1>2, <2>3, <2>4, EndsStep
<1>. QED
  BY <1>7, <1>8

LEMMA ReclaimKeeps ==
    ASSUME ConsumerInv, NEW c \in Consumers, Reclaim(c)
    PROVE  ConsumerInv'
<1>0. TypeOK
  BY DEF ConsumerInv, GroupInv
<1>1. InHand(c) = {}
  BY <1>0, Types DEF Reclaim, At
<1>2. UNCHANGED <<stream, dead, faults, successes, failures, disturbed>>
  BY DEF Reclaim, tally
<1>3. CASE idle = {}
  <2>1. Goto(c, "read") /\ GroupAlone
    BY <1>3 DEF Reclaim, GroupAlone
  <2>2. PICK x : consumer' = [consumer EXCEPT ![c] = x] /\ Goes(c, x, "read")
    BY <1>0, <2>1, Going
  <2>3. Between(x)
    BY <1>1, <2>2 DEF Goes, Between
  <2>. QED
    BY <1>0, <1>1, <1>2, <2>1, <2>2, <2>3, Retires, Types
<1>4. CASE idle # {}
  <2>. DEFINE batch == FirstOf(BatchSize, idle)
  <2>1. Deliver(c, batch, TRUE) /\ read' = read
    BY <1>4 DEF Reclaim
  <2>2. idle \in SUBSET Entries /\ idle \subseteq 1..read /\ read \in Nat /\ read <= Len(stream)
    BY <1>0, Types
  <2>3. batch \subseteq idle /\ batch # {}
    BY <1>4, <2>2, FirstOfSome
  <2>. HIDE DEF batch
  <2>4. batch \in SUBSET Entries /\ batch \subseteq 1..read'
    BY <2>1, <2>2, <2>3
  <2>5. /\ read' \in Nat /\ read <= read' /\ read' <= Len(stream)
        /\ \A k \in Entries : k \notin batch => (k > read' <=> k > read)
        /\ \A k \in batch : k \in idle \/ k > read
    BY <2>1, <2>2, <2>3
  <2>. QED
    BY <1>1, <1>2, <2>1, <2>3, <2>4, <2>5, Delivers
<1>. QED
  BY <1>3, <1>4

LEMMA ReadKeeps ==
    ASSUME ConsumerInv, NEW c \in Consumers, Read(c)
    PROVE  ConsumerInv'
<1>0. TypeOK
  BY DEF ConsumerInv, GroupInv
<1>. DEFINE batch == FirstOf(BatchSize, {m \in Added : m > read})
<1>1. InHand(c) = {}
  BY <1>0, Types DEF Read, At
<1>2. UNCHANGED <<stream, dead, faults, successes, failures, disturbed>>
  BY DEF Read, tally
<1>3. CASE batch = {}
  <2>1. Abandon(c) /\ GroupAlone
    BY <1>3 DEF Read, GroupAlone
  <2>. HIDE DEF batch
  <2>. QED
    BY <1>1, <1>2, <2>1, <1>0, Places, Retires, Types DEF Abandon
<1>4. CASE batch # {}
  <2>1. Deliver(c, batch, FALSE) /\ read' = Max(batch)
    BY <1>4 DEF Read
  <2>2. /\ batch \in SUBSET Entries /\ Max(batch) \in batch
        /\ batch = (read + 1)..Max(batch)
        /\ Max(batch) > read /\ Max(batch) <= Len(stream)
    BY <1>0, <1>4, NewOnes
  <2>. HIDE DEF batch
  <2>3. read \in Nat /\ Max(batch) \in Nat /\ Entries \subseteq Nat
    BY <2>2, <1>0, Types
  <2>4. /\ batch \subseteq 1..read' /\ read' \in Nat /\ read <= read' /\ read' <= Len(stream)
        /\ \A k \in batch : k \in idle \/ k > read
    BY <2>1, <2>2, <2>3
  <2>5. \A k \in Entries : k \notin batch => (k > read' <=> k > read)
    BY <2>1, <2>2, <2>3
  <2>. QED
    BY <1>1, <1>2, <1>4, <2>1, <2>2, <2>4, <2>5, Delivers
<1>. QED
  BY <1>3, <1>4

-----------------------------------------------------------------------------
(* Around the consumers *)

\* Nobody goes anywhere, and an entry that changes is from now on disturbed, or in
\* nobody's hand.
LEMMA EndsStays ==
    ASSUME ConsumerInv, consumer' = consumer, disturbed \subseteq disturbed',
           \A m \in Entries \ disturbed' :
              \/ Same(m)
              \/ (\A d \in Consumers : m \notin InHand(d)) /\ (Left(m) => Left(m)')
    PROVE  EndsInv'
<1>1. \A d \in Consumers : InHand(d)' = InHand(d) /\ InHand(d) \subseteq Entries
  BY Types DEF ConsumerInv, GroupInv, InHand
<1>2. HeldOnce'
  <2>. SUFFICES ASSUME NEW m \in Entries \ disturbed', NEW d \in Consumers,
                       NEW e \in Consumers, m \in InHand(d)'
                PROVE  m \notin idle' /\ (m \in InHand(e)' => d = e)
    BY DEF HeldOnce
  <2>1. Same(m) /\ m \in InHand(d)
    BY <1>1
  <2>. QED
    BY <1>1, <2>1 DEF ConsumerInv, EndsInv, HeldOnce, Same
<1>3. HeldOnTheirWay'
  <2>. SUFFICES ASSUME NEW d \in Consumers, NEW m \in InHand(d)' \ disturbed'
                PROVE  Stage(consumer[d], m)'
    BY DEF HeldOnTheirWay
  <2>1. Same(m) /\ m \in InHand(d) /\ m \in Entries /\ m \notin disturbed
    BY <1>1
  <2>2. Stage(consumer[d], m)
    BY <2>1 DEF ConsumerInv, EndsInv, HeldOnTheirWay
  <2>3. PICK y : y = consumer[d]
    OBVIOUS
  <2>4. Stage(y, m)' /\ consumer'[d] = y
    BY <2>1, <2>2, <2>3, SameStages
  <2>. QED
    BY <2>4
<1>4. OthersAreLeft'
  <2>. SUFFICES ASSUME NEW m \in Entries \ disturbed', \A d \in Consumers : m \notin InHand(d)'
                PROVE  Left(m)'
    BY DEF OthersAreLeft
  <2>1. Left(m)
    BY <1>1 DEF ConsumerInv, EndsInv, OthersAreLeft
  <2>. QED
    BY <2>1, SameStages
<1>. QED
  BY <1>2, <1>3, <1>4 DEF EndsInv

LEMMA AddKeeps ==
    ASSUME ConsumerInv, NEW kind \in Kinds, Add(kind)
    PROVE  ConsumerInv'
<1>. USE DEF ConsumerInv
<1>1. UNCHANGED <<read, pending, idle, deliveries, consumer, dead, faults, successes, failures, disturbed>>
  BY DEF Add, groupVars, tally
<1>2. /\ stream' \in Seq(Kinds) /\ Len(stream) <= Len(stream') /\ Len(stream') <= MaxEntries
      /\ \A m \in Added : stream'[m] = stream[m]
  BY Types DEF Add, GroupInv
<1>3. Handled' = Handled /\ DeadLetters' = DeadLetters /\ Ended' = Ended
  BY <1>1 DEF Handled, DeadLetters, Ended
<1>4. Grows
  <2>1. read \in Nat /\ read <= Len(stream')
    BY <1>2, GroupTypes
  <2>. QED
    BY <1>1, <1>2, <1>3, <2>1, GroupTypes DEF Grows
<1>5. GroupInv'
  BY <1>1, <1>4, GroupStays
<1>6. \A m \in Entries : Same(m)
  BY <1>1 DEF Same
<1>. QED
  BY <1>1, <1>5, <1>6, EndsStays

LEMMA IdleKeeps ==
    ASSUME ConsumerInv, NEW m \in Entries, Idle(m)
    PROVE  ConsumerInv'
<1>. USE DEF ConsumerInv
<1>1. /\ UNCHANGED <<stream, read, pending, deliveries, consumer, dead, successes, failures>>
      /\ m \in pending /\ idle' = idle \union {m}
  BY DEF Idle, tally
<1>2. /\ faults' \in 0..MaxFaults /\ disturbed \subseteq disturbed' /\ disturbed' \subseteq Entries
      /\ m \in disturbed' \/ \A d \in Consumers : m \notin InHand(d)
  BY Types DEF Idle, Spend, GroupInv
<1>3. Handled' = Handled /\ DeadLetters' = DeadLetters /\ Ended' = Ended
  BY <1>1 DEF Handled, DeadLetters, Ended
<1>4. Grows
  BY <1>1, <1>2, <1>3, GroupTypes DEF Grows
<1>5. GroupInv'
  BY <1>1, <1>4, GroupStays
<1>6. ASSUME NEW k \in Entries, k # m PROVE Same(k)
  BY <1>1, <1>6 DEF Same
<1>7. Left(m) => Left(m)'
  BY <1>1, <1>3 DEF Left, Rests, Untouched, EndsOnce
<1>. QED
  BY <1>1, <1>2, <1>5, <1>6, <1>7, EndsStays

LEMMA ConsumerInit ==
    ASSUME Init
    PROVE  ConsumerInv
<1>1. /\ stream = <<>> /\ read = 0 /\ pending = {} /\ idle = {} /\ disturbed = {} /\ faults = 0
      /\ deliveries = [m \in Entries |-> 0] /\ dead = [m \in Entries |-> "none"]
      /\ successes = [m \in Entries |-> 0] /\ failures = [m \in Entries |-> 0]
      /\ consumer = [c \in Consumers |-> Off]
  BY DEF Init
<1>2. Off \in Consumer /\ Off.pc = "off" /\ Off.batch = {}
  BY DEF Off, Consumer
<1>3. \A c \in Consumers : InHand(c) = {} /\ consumer[c].pc = "off" /\ consumer[c] \in Consumer
  BY <1>1, <1>2 DEF InHand
<1>4. Handled = {} /\ DeadLetters = {}
  BY <1>1 DEF Handled, DeadLetters
<1>5. TypeOK
  <2>1. stream \in Seq(Kinds) /\ Len(stream) = 0
    BY <1>1
  <2>2. faults \in 0..MaxFaults /\ Len(stream) <= MaxEntries /\ read \in 0..Len(stream)
    BY <1>1, <2>1, ConsumerAssumption
  <2>3. consumer \in [Consumers -> Consumer]
    BY <1>1, <1>2
  <2>4. \A c \in Consumers :
           /\ InHand(c) = {} <=> consumer[c].pc \in {"off", "reclaim", "read"}
           /\ InHand(c) \subseteq 1..read
    BY <1>3
  <2>. QED
    BY <1>1, <2>1, <2>2, <2>3, <2>4 DEF TypeOK
<1>6. GroupInv
  <2>1. NothingIsAckedUnsettled
    BY <1>1 DEF NothingIsAckedUnsettled
  <2>2. \A c \in Consumers : Settles(consumer[c])
    BY <1>3 DEF Settles
  <2>. QED
    BY <1>4, <1>5, <2>1, <2>2 DEF GroupInv, OnlyMessagesEnd
<1>7. EndsInv
  <2>1. \A m \in Entries : Left(m)
    <3>. SUFFICES ASSUME NEW m \in Entries PROVE Left(m)
      OBVIOUS
    <3>1. m > read /\ failures[m] < MaxRetries
      BY <1>1, ConsumerAssumption DEF Entries
    <3>. QED
      BY <1>1, <3>1 DEF Left, Rests, Untouched
  <2>. QED
    BY <1>3, <2>1 DEF EndsInv, HeldOnce, HeldOnTheirWay, OthersAreLeft
<1>. QED
  BY <1>6, <1>7 DEF ConsumerInv

LEMMA ConsumerNext ==
    ASSUME ConsumerInv, [Next]_vars
    PROVE  ConsumerInv'
<1>1. ASSUME NEW c \in Consumers,
             \/ Start(c) \/ Stop(c) \/ Step(c)
             \/ LoopFails(c) \/ SettleFails(c) \/ Exit(c)
      PROVE  ConsumerInv'
  <2>1. CASE Step(c)
    BY <2>1, ReclaimKeeps, ReadKeeps, EntryKeeps, HandlerSucceedsKeeps,
       HandlerRejectsKeeps, HandlerFailsKeeps, DeadLetterKeeps, AckKeeps DEF Step
  <2>. QED
    BY <1>1, <2>1, LoopKeeps, StopKeeps, SettleFailsKeeps
<1>2. CASE Add("event") \/ Add("malformed")
  BY <1>2, AddKeeps DEF Kinds
<1>3. CASE \E m \in Entries : Idle(m)
  BY <1>3, IdleKeeps
<1>4. CASE UNCHANGED vars
  <2>1. consumer' = consumer /\ GroupAlone /\ UNCHANGED <<faults, disturbed>>
    BY <1>4 DEF vars, GroupAlone
  <2>2. Grows
    BY <2>1, Quiet, Types DEF GroupAlone, ConsumerInv, GroupInv
  <2>3. GroupInv'
    BY <2>1, <2>2, GroupStays DEF ConsumerInv
  <2>4. EndsInv'
    BY <2>1, AllSame, EndsStays
  <2>. QED
    BY <2>3, <2>4 DEF ConsumerInv
<1>. QED
  BY Zenon, <1>1, <1>2, <1>3, <1>4 DEF Next

-----------------------------------------------------------------------------
(* Theorems *)

\* The inductive invariant: what may be acknowledged is settled, and an entry that
\* no fault hit is in one hand at most, where each delivery before this one has
\* failed.
THEOREM ConsumerInvariant == Spec => []ConsumerInv
<1>1. Init => ConsumerInv
  BY ConsumerInit
<1>2. ConsumerInv /\ [Next]_vars => ConsumerInv'
  BY ConsumerNext
<1>. QED
  BY <1>1, <1>2, PTL DEF Spec

\* The stream, the group and the consumers hold what they can hold.
THEOREM TypeCorrect == Spec => []TypeOK
<1>1. ConsumerInv => TypeOK
  BY DEF ConsumerInv, GroupInv
<1>. QED
  BY <1>1, ConsumerInvariant, PTL

\* XACK is only sent for an entry that was handled, that onDlq took, or that is the
\* message of stop: any other one that was delivered stays pending, through
\* crashes, errors and consumers that acknowledge for one another.
THEOREM AckedIsSettled == Spec => []NothingIsAckedUnsettled
<1>1. ConsumerInv => NothingIsAckedUnsettled
  BY DEF ConsumerInv, GroupInv
<1>. QED
  BY <1>1, ConsumerInvariant, PTL

\* shouldRetry counts deliveries, not failures; for an entry that no fault hit
\* they are the same, so that it ends once, and is given up for its retries after
\* exactly MaxRetries failures of its handler.
THEOREM UndisturbedEndOnce == Spec => []UndisturbedEntriesEndOnce
<1>1. ASSUME ConsumerInv, NEW m \in Entries \ disturbed PROVE EndsOnce(m)
  <2>0. TypeOK
    BY <1>1 DEF ConsumerInv, GroupInv
  <2>1. ASSUME NEW c \in Consumers, m \in InHand(c) PROVE EndsOnce(m)
    <3>1. Stage(consumer[c], m) /\ consumer[c] \in Consumer
          /\ consumer[c].pc \notin {"off", "reclaim", "read"}
      BY <1>1, <2>0, <2>1, HeldStage, Types
    <3>2. Waits(m) => EndsOnce(m)
      BY <2>0, Untold
    <3>3. CASE Waits(m) \/ consumer[c].pc \in {"entry", "handle"} \/ m # Min(consumer[c].batch)
      BY <3>1, <3>2, <3>3 DEF Stage
    <3>4. CASE m = Min(consumer[c].batch) /\ consumer[c].pc = "ackHandled"
      <4>1. successes[m] = 1 /\ dead[m] = "none" /\ failures[m] <= MaxRetries
        BY <3>1, <3>4 DEF Stage
      <4>. QED
        BY <4>1 DEF EndsOnce, DeadLetters
    <3>5. CASE m = Min(consumer[c].batch) /\ consumer[c].pc = "deadLetter"
      <4>1. successes[m] = 0 /\ dead[m] = "none" /\ failures[m] <= MaxRetries
        BY <3>1, <3>5 DEF Stage, Untouched
      <4>. QED
        BY <4>1 DEF EndsOnce, DeadLetters
    <3>6. CASE m = Min(consumer[c].batch) /\ consumer[c].pc = "ack"
      BY <3>1, <3>6 DEF Stage
    <3>7. consumer[c].pc \in {"entry", "handle", "ackHandled", "deadLetter", "ack"}
      BY <3>1 DEF Consumer
    <3>. QED
      BY <3>3, <3>4, <3>5, <3>6, <3>7
  <2>2. CASE \A c \in Consumers : m \notin InHand(c)
    <3>1. Left(m)
      BY <1>1, <2>2 DEF ConsumerInv, EndsInv, OthersAreLeft
    <3>. QED
      BY <2>0, <3>1, Untold DEF Left
  <2>. QED
    BY <2>1, <2>2
<1>2. ConsumerInv => UndisturbedEntriesEndOnce
  BY <1>1 DEF UndisturbedEntriesEndOnce, EndsOnce
<1>. QED
  BY <1>2, ConsumerInvariant, PTL

\* A handler that succeeds, or onDlq, settles the entry its consumer is at.
LEMMA SettlesOne ==
    ASSUME ConsumerInv, NEW c \in Consumers, HandlerSucceeds(c) \/ DeadLetter(c)
    PROVE  \E m \in Entries : Promise!Deliver(m)
<1>. USE DEF ConsumerInv
<1>0. PICK m : m = Current(c)
  OBVIOUS
<1>1. consumer[c].pc \in {"handle", "deadLetter"}
  BY DEF HandlerSucceeds, DeadLetter, At
<1>2. /\ m \in Entries /\ m \in Added /\ stream[m] # "stop" /\ m = Min(consumer[c].batch)
      /\ Settles(consumer[c])
  BY <1>0, <1>1, AtEntry
<1>3. successes \in [Entries -> Nat] /\ dead \in [Entries -> {"none", "rejected", "retries"}]
  BY Types DEF GroupInv
<1>4. UNCHANGED stream /\ Added' = Added
  BY DEF HandlerSucceeds, DeadLetter, Added
<1>5. Handled' \union DeadLetters' = Handled \union DeadLetters \union {m}
  <2>1. CASE HandlerSucceeds(c)
    <3>1. /\ successes' = [successes EXCEPT ![m] = IF m \in disturbed THEN 1 ELSE successes[m] + 1]
          /\ dead' = dead
      BY <1>0, <2>1 DEF HandlerSucceeds
    <3>2. successes'[m] > 0 /\ \A k \in Entries : k # m => successes'[k] = successes[k]
      BY <1>2, <1>3, <3>1
    <3>3. Handled' = Handled \union {m} /\ DeadLetters' = DeadLetters
      BY <1>2, <3>1, <3>2 DEF Handled, DeadLetters
    <3>. QED
      BY <3>3
  <2>2. CASE DeadLetter(c)
    <3>1. dead' = [dead EXCEPT ![m] = consumer[c].reason] /\ successes' = successes
      BY <1>0, <2>2 DEF DeadLetter, tally
    <3>2. consumer[c].reason # "none"
      BY <1>2, <2>2 DEF DeadLetter, At, Settles
    <3>3. dead'[m] # "none" /\ \A k \in Entries : k # m => dead'[k] = dead[k]
      BY <1>2, <1>3, <3>1, <3>2
    <3>4. Handled' = Handled /\ DeadLetters' = DeadLetters \union {m}
      BY <1>2, <3>1, <3>3 DEF Handled, DeadLetters
    <3>. QED
      BY <3>4
  <2>. QED
    BY <2>1, <2>2
<1>6. Promise!Deliver(m)
  BY <1>2, <1>4, <1>5 DEF Promise!Deliver
<1>. QED
  BY <1>2, <1>6

\* What the stream is given: an event, or the message of stop.
LEMMA Adding ==
    ASSUME TypeOK, NEW kind \in Kinds, Len(stream) < MaxEntries, stream' = Append(stream, kind)
    PROVE  /\ Len(stream) + 1 \in Entries
           /\ {m \in Added : stream[m] # "stop"}' =
                 {m \in Added : stream[m] # "stop"}
                    \union (IF kind = "stop" THEN {} ELSE {Len(stream) + 1})
<1>. DEFINE n == Len(stream)
<1>1. n \in Nat /\ MaxEntries \in Nat /\ Added = 1..n
  BY Types
<1>2. /\ Len(stream') = n + 1 /\ Added' = 1..(n + 1)
      /\ \A m \in 1..n : stream'[m] = stream[m]
      /\ stream'[n + 1] = kind
  BY Types DEF Added
<1>. HIDE DEF n
<1>3. n + 1 \in Entries
  BY <1>1 DEF n, Entries
<1>4. {m \in Added' : stream'[m] # "stop"} =
         {m \in Added : stream[m] # "stop"} \union (IF kind = "stop" THEN {} ELSE {n + 1})
  <2>1. \A m \in 1..(n + 1) : m \in 1..n \/ m = n + 1
    BY <1>1
  <2>2. n + 1 \in 1..(n + 1) /\ 1..n \subseteq 1..(n + 1)
    BY <1>1
  <2>. QED
    BY <1>1, <1>2, <2>1, <2>2
<1>. QED
  BY <1>3, <1>4 DEF n

\* The group implements the safety of AtLeastOnce: nothing is settled that was not
\* added, and neither is taken back.
THEOREM SettledAtLeastOnce == Spec => Promise!Safety
<1>1. Init => Promise!Init
  <2>. SUFFICES ASSUME Init PROVE Promise!Init
    OBVIOUS
  <2>1. Added = {}
    BY DEF Init, Added
  <2>2. Handled = {} /\ DeadLetters = {}
    BY DEF Init, Handled, DeadLetters
  <2>. QED
    BY <2>1, <2>2 DEF Promise!Init
<1>2. ConsumerInv /\ [Next]_vars => [Promise!Next]_(Promise!vars)
  <2>. SUFFICES ASSUME ConsumerInv, [Next]_vars
                PROVE  Promise!Next \/ UNCHANGED Promise!vars
    OBVIOUS
  <2>0. TypeOK
    BY DEF ConsumerInv, GroupInv
  <2>1. ASSUME stream' = stream, successes' = successes, dead' = dead
        PROVE  UNCHANGED Promise!vars
    BY <2>1 DEF Promise!vars, Added, Handled, DeadLetters
  <2>2. ASSUME NEW c \in Consumers, HandlerSucceeds(c) \/ DeadLetter(c) PROVE Promise!Next
    BY <2>2, SettlesOne DEF Promise!Next
  <2>3. ASSUME NEW kind \in {"event", "malformed"}, Add(kind) PROVE Promise!Next
    <3>1. successes' = successes /\ dead' = dead
      BY <2>3 DEF Add, tally
    <3>2. Handled' = Handled /\ DeadLetters' = DeadLetters
      BY <3>1 DEF Handled, DeadLetters
    <3>3. /\ Len(stream) + 1 \in Entries
          /\ {m \in Added : stream[m] # "stop"}' =
                {m \in Added : stream[m] # "stop"} \union {Len(stream) + 1}
      BY <2>0, <2>3, Adding DEF Add, Kinds
    <3>4. PICK es : es = {Len(stream) + 1}
      OBVIOUS
    <3>5. es \in SUBSET Entries /\ Promise!Commit(es)
      BY <3>2, <3>3, <3>4 DEF Promise!Commit
    <3>. QED
      BY <3>5 DEF Promise!Next
  <2>4. ASSUME NEW c \in Consumers, Stop(c) PROVE UNCHANGED Promise!vars
    <3>1. successes' = successes /\ dead' = dead
      BY <2>4 DEF Stop, tally
    <3>2. CASE stream' = stream
      BY <2>1, <3>1, <3>2
    <3>3. CASE Len(stream) < MaxEntries /\ stream' = Append(stream, "stop")
      <4>1. Handled' = Handled /\ DeadLetters' = DeadLetters
        BY <3>1 DEF Handled, DeadLetters
      <4>2. {m \in Added : stream[m] # "stop"}' = {m \in Added : stream[m] # "stop"}
        BY <2>0, <3>3, Adding DEF Kinds
      <4>. QED
        BY <4>1, <4>2 DEF Promise!vars
    <3>. QED
      BY <2>4, <3>2, <3>3 DEF Stop
  <2>5. ASSUME NEW c \in Consumers,
               \/ Start(c) \/ Reclaim(c) \/ Read(c) \/ Entry(c)
               \/ HandlerRejects(c) \/ HandlerFails(c) \/ Ack(c)
               \/ LoopFails(c) \/ SettleFails(c) \/ Exit(c)
        PROVE  UNCHANGED Promise!vars
    <3>1. stream' = stream /\ successes' = successes /\ dead' = dead
      BY <2>5 DEF Start, Reclaim, Read, Entry, HandlerRejects, HandlerFails, Ack,
                  LoopFails, SettleFails, Exit, tally
    <3>. QED
      BY <2>1, <3>1
  <2>6. ASSUME NEW m \in Entries, Idle(m) PROVE UNCHANGED Promise!vars
    BY <2>1, <2>6 DEF Idle, tally
  <2>7. ASSUME UNCHANGED vars PROVE UNCHANGED Promise!vars
    BY <2>1, <2>7 DEF vars, tally
  <2>8. \A c \in Consumers : Step(c) <=>
           \/ Reclaim(c) \/ Read(c) \/ Entry(c)
           \/ HandlerSucceeds(c) \/ HandlerRejects(c) \/ HandlerFails(c)
           \/ DeadLetter(c) \/ Ack(c)
    BY Zenon DEF Step
  <2>. QED
    BY Zenon, <2>2, <2>3, <2>4, <2>5, <2>6, <2>7, <2>8 DEF Next
<1>. QED
  BY <1>1, <1>2, ConsumerInvariant, PTL DEF Spec, Promise!Safety
=============================================================================
