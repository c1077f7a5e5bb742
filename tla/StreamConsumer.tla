--------------------------- MODULE StreamConsumer ---------------------------
(***************************************************************************)
(* RedisStreamConsumer of cima-contracts: the consumers of one group share *)
(* a stream.  Each reads new entries in batches, reclaims those that       *)
(* someone left pending for too long, and works through its batch one      *)
(* entry after the other: malformed ones and those whose handler has       *)
(* failed too often go to the dead letters, the others are acknowledged    *)
(* once handled.  An entry is not locked: one that waits for pendingIdleMs *)
(* in a batch is reclaimed by another consumer while the first still has   *)
(* it in hand.                                                             *)
(*                                                                         *)
(* Who of the group an entry is pending for makes no difference: XAUTOCLAIM*)
(* takes it from anyone, XPENDING and XACK go by its id.                   *)
(***************************************************************************)
EXTENDS FiniteSets, FiniteSetsExt, Integers, Sequences

CONSTANTS Consumers,   \* processes of the group
          MaxEntries,  \* bound on the length of the stream
          BatchSize,   \* batchSize
          MaxRetries,  \* maxRetries
          MaxFaults    \* bound on errors of Redis and onDlq, crashes and slow consumers

ASSUME ConsumerAssumption ==
    /\ MaxEntries \in Nat /\ BatchSize \in Nat \ {0}
    /\ MaxRetries \in Nat \ {0} /\ MaxFaults \in Nat

VARIABLES
    stream,      \* what the entries hold, in order; an entry's id is its place
    read,        \* last-delivered-id of the group
    pending,     \* entries delivered and not acknowledged
    idle,        \* pending entries that were delivered pendingIdleMs ago
    deliveries,  \* how often each entry was delivered, the counter of XPENDING
    consumer,    \* what each process is doing
    dead,        \* onDlq: the reason it was given for the entry, "none" before
    faults,      \* how many faults occurred
    \* History, read by no action's guard:
    successes,   \* how often the handler has succeeded on the entry
    failures,    \* how often it threw an error that can be retried
    disturbed    \* entries that a fault hit: an error, a crash, a slow consumer

groupVars == <<read, pending, idle, deliveries>>
tally == <<successes, failures>>
vars == <<stream, groupVars, consumer, dead, faults, tally, disturbed>>

Entries == 1..MaxEntries
Added == 1..Len(stream)

\* stop: the message with which a consumer that stops means to wake itself.
\* malformed: no payload, no JSON, an unknown version or not of its schema.
Kinds == {"event", "malformed", "stop"}

\* The step that comes next is the pc, count the deliveryCount it has read;
\* reclaimed: the batch came from XAUTOCLAIM.  Redis gives a batch by ids.
Consumer ==
    [pc : {"off", "reclaim", "read", "entry", "handle", "ackHandled",
           "deadLetter", "ack"},
     running : BOOLEAN, reclaimed : BOOLEAN, batch : SUBSET Entries, count : Nat,
     reason : {"none", "rejected", "retries"}]

Off == [pc |-> "off", running |-> FALSE, reclaimed |-> FALSE, batch |-> {},
        count |-> 0, reason |-> "none"]

Init ==
    /\ stream = <<>> /\ read = 0 /\ pending = {} /\ idle = {}
    /\ deliveries = [m \in Entries |-> 0]
    /\ consumer = [c \in Consumers |-> Off]
    /\ dead = [m \in Entries |-> "none"]
    /\ faults = 0
    /\ successes = [m \in Entries |-> 0]
    /\ failures = [m \in Entries |-> 0]
    /\ disturbed = {}

-----------------------------------------------------------------------------
(* Where a consumer goes *)

At(c, pc) == consumer[c].pc = pc
InHand(c) == consumer[c].batch
Current(c) == Min(InHand(c))
Rest(c) == InHand(c) \ {Current(c)}
Goto(c, pc) == consumer' = [consumer EXCEPT ![c].pc = pc]

Spend == faults < MaxFaults /\ faults' = faults + 1

Fault(c) ==
    /\ Spend
    /\ disturbed' = disturbed \union InHand(c)

\* while (this.running), after the sleep if there was an error
Loop(running) == IF running THEN [Off EXCEPT !.pc = "reclaim", !.running = TRUE] ELSE Off

\* After its batch reclaimPending goes on to XREADGROUP, readLoop to its test.
BatchDone(c) ==
    IF consumer[c].reclaimed
    THEN [Off EXCEPT !.pc = "read", !.running = consumer[c].running]
    ELSE Loop(consumer[c].running)

\* The consumer at the first of these entries.
Entering(c, batch) ==
    [Off EXCEPT !.pc = "entry", !.running = consumer[c].running,
                !.reclaimed = consumer[c].reclaimed, !.batch = batch]

\* Mutant: the end of the batch is not noticed.
ProceedOn(c) ==
    consumer' = [consumer EXCEPT ![c] = Entering(c, Rest(c))]

\* The next entry of the batch, or the end of processMessages.
Proceed(c) ==
    consumer' = [consumer EXCEPT ![c] =
                   IF Rest(c) = {} THEN BatchDone(c) ELSE Entering(c, Rest(c))]

\* An error leaves processMessages; the rest of the batch stays pending.
Abandon(c) == consumer' = [consumer EXCEPT ![c] = BatchDone(c)]

SendToDlq(c, reason) ==
    consumer' = [consumer EXCEPT ![c] =
                   [@ EXCEPT !.pc = "deadLetter", !.reason = reason]]

-----------------------------------------------------------------------------
(* The loop *)

Add(kind) ==
    /\ Len(stream) < MaxEntries
    /\ stream' = Append(stream, kind)
    /\ UNCHANGED <<groupVars, consumer, dead, faults, tally, disturbed>>

\* start: the group is there, or is created to read the stream from its start.
Start(c) ==
    /\ At(c, "off")
    /\ consumer' = [consumer EXCEPT ![c] = Loop(TRUE)]
    /\ UNCHANGED <<stream, groupVars, dead, faults, tally, disturbed>>

\* stop, with its message or, on an error, without.
Stop(c) ==
    /\ ~At(c, "off") /\ consumer[c].running
    /\ consumer' = [consumer EXCEPT ![c].running = FALSE]
    /\ \/ /\ Len(stream) < MaxEntries
          /\ stream' = Append(stream, "stop")
          /\ UNCHANGED faults
       \/ Spend /\ UNCHANGED stream
    /\ UNCHANGED <<groupVars, dead, tally, disturbed>>

\* The first n of a set of entries, by their ids.
FirstOf(n, entries) ==
    {m \in entries : Cardinality({k \in entries : k < m}) < n}

\* Redis delivers the entries once more, to c.
Deliver(c, batch, reclaimed) ==
    /\ consumer' = [consumer EXCEPT ![c] =
                       [Entering(c, batch) EXCEPT !.reclaimed = reclaimed]]
    /\ pending' = pending \union batch
    /\ idle' = idle \ batch
    /\ deliveries' = [m \in Entries |->
                        deliveries[m] + (IF m \in batch THEN 1 ELSE 0)]

\* Mutant: XAUTOCLAIM is passed a time that no entry reaches.
ReclaimNothing(c) ==
    /\ At(c, "reclaim")
    /\ Goto(c, "read")
    /\ UNCHANGED <<stream, groupVars, dead, faults, tally, disturbed>>

\* XAUTOCLAIM from 0-0: the first that are idle, whoever has them.
Reclaim(c) ==
    /\ At(c, "reclaim")
    /\ IF idle = {}
       THEN Goto(c, "read") /\ UNCHANGED groupVars
       ELSE Deliver(c, FirstOf(BatchSize, idle), TRUE) /\ UNCHANGED read
    /\ UNCHANGED <<stream, dead, faults, tally, disturbed>>

\* XREADGROUP >: the next new entries, or none for blockMs.
Read(c) ==
    LET batch == FirstOf(BatchSize, {m \in Added : m > read})
    IN  /\ At(c, "read")
        /\ IF batch = {}
           THEN Abandon(c) /\ UNCHANGED groupVars
           ELSE Deliver(c, batch, FALSE) /\ read' = Max(batch)
        /\ UNCHANGED <<stream, dead, faults, tally, disturbed>>

\* Either command fails: the error of the first is swallowed, after that of
\* the second the loop sleeps for a moment.
LoopFails(c) ==
    /\ \/ At(c, "reclaim") /\ Goto(c, "read")
       \/ At(c, "read") /\ Abandon(c)
    /\ Fault(c)
    /\ UNCHANGED <<stream, groupVars, dead, tally>>

-----------------------------------------------------------------------------
(* processMessages *)

\* getDeliveryCount: 1 too if another has acknowledged the entry.
CountOf(m) == IF m \in pending THEN deliveries[m] ELSE 1

\* What the entry is decides what is done with it; the XPENDING of an event
\* may fail, which counts as the first delivery.
Entry(c) ==
    LET m == Current(c)
    IN  /\ At(c, "entry")
        /\ \/ stream[m] = "stop" /\ Goto(c, "ack") /\ UNCHANGED <<faults, disturbed>>
           \/ stream[m] = "malformed" /\ SendToDlq(c, "rejected")
                                      /\ UNCHANGED <<faults, disturbed>>
           \/ /\ stream[m] = "event"
              /\ \E n \in {CountOf(m), 1} :
                   /\ consumer' = [consumer EXCEPT ![c] =
                                     [@ EXCEPT !.pc = "handle", !.count = n]]
                   /\ IF n = CountOf(m) THEN UNCHANGED <<faults, disturbed>> ELSE Fault(c)
        /\ UNCHANGED <<stream, groupVars, dead, tally>>

HandlerSucceeds(c) ==
    LET m == Current(c)
    IN  /\ At(c, "handle")
        /\ successes' = [successes EXCEPT ![m] = IF m \in disturbed THEN 1 ELSE @ + 1]
        /\ Goto(c, "ackHandled")
        /\ UNCHANGED <<stream, groupVars, dead, faults, failures, disturbed>>

\* The handler throws NonRetryableStreamError.
HandlerRejects(c) ==
    /\ At(c, "handle")
    /\ SendToDlq(c, "rejected")
    /\ UNCHANGED <<stream, groupVars, dead, faults, tally, disturbed>>

\* Mutant: one attempt more.
RetryOnceMore(c) ==
    IF consumer[c].count <= MaxRetries THEN Proceed(c) ELSE SendToDlq(c, "retries")

\* shouldRetry: the entry is left unacknowledged, to be reclaimed.
Retry(c) ==
    IF consumer[c].count < MaxRetries THEN Proceed(c) ELSE SendToDlq(c, "retries")

HandlerFails(c) ==
    LET m == Current(c)
    IN  /\ At(c, "handle")
        /\ failures' = [failures EXCEPT ![m] = IF m \in disturbed THEN @ ELSE @ + 1]
        /\ Retry(c)
        /\ UNCHANGED <<stream, groupVars, dead, faults, successes, disturbed>>

\* onDlq
DeadLetter(c) ==
    /\ At(c, "deadLetter")
    /\ dead' = [dead EXCEPT ![Current(c)] = consumer[c].reason]
    /\ Goto(c, "ack")
    /\ UNCHANGED <<stream, groupVars, faults, tally, disturbed>>

\* XACK
Ack(c) ==
    /\ At(c, "ack") \/ At(c, "ackHandled")
    /\ pending' = pending \ {Current(c)}
    /\ idle' = idle \ {Current(c)}
    /\ Proceed(c)
    /\ UNCHANGED <<stream, read, deliveries, dead, faults, tally, disturbed>>

\* Mutant: the error of onDlq is ignored, and the entry acknowledged.
SettleFailsOpen(c) ==
    /\ \/ At(c, "deadLetter") /\ Goto(c, "ack")
       \/ At(c, "ack") /\ Abandon(c)
       \/ At(c, "ackHandled") /\ Retry(c)
    /\ Fault(c)
    /\ UNCHANGED <<stream, groupVars, dead, tally>>

\* onDlq or the XACK after it fails, and the batch is abandoned; the XACK of a
\* handled entry fails, and that is taken for an error of its handler.
SettleFails(c) ==
    /\ \/ (At(c, "deadLetter") \/ At(c, "ack")) /\ Abandon(c)
       \/ At(c, "ackHandled") /\ Retry(c)
    /\ Fault(c)
    /\ UNCHANGED <<stream, groupVars, dead, tally>>

-----------------------------------------------------------------------------
(* Around them *)

\* pendingIdleMs have passed since the entry was last delivered: it was left
\* behind, or whoever has it in hand is slow, which is counted as a fault.
Idle(m) ==
    /\ m \in pending \ idle
    /\ idle' = idle \union {m}
    /\ IF \E c \in Consumers : m \in InHand(c)
       THEN Spend /\ disturbed' = disturbed \union {m}
       ELSE UNCHANGED <<faults, disturbed>>
    /\ UNCHANGED <<stream, read, pending, deliveries, consumer, dead, tally>>

\* The process is killed, or ends three seconds after stop.
Exit(c) ==
    /\ ~At(c, "off")
    /\ IF consumer[c].running THEN Fault(c)
       ELSE disturbed' = disturbed \union InHand(c) /\ UNCHANGED faults
    /\ consumer' = [consumer EXCEPT ![c] = Off]
    /\ UNCHANGED <<stream, groupVars, dead, tally>>

Step(c) ==
    \/ Reclaim(c) \/ Read(c) \/ Entry(c)
    \/ HandlerSucceeds(c) \/ HandlerRejects(c) \/ HandlerFails(c)
    \/ DeadLetter(c) \/ Ack(c)

Next ==
    \/ Add("event") \/ Add("malformed")
    \/ \E c \in Consumers : \/ Start(c) \/ Stop(c) \/ Step(c)
                            \/ LoopFails(c) \/ SettleFails(c) \/ Exit(c)
    \/ \E m \in Entries : Idle(m)

Spec == Init /\ [][Next]_vars

\* A process that ended is started again, its loop and its handlers run on,
\* time passes.  Nothing is assumed of what handlers return.
Fairness ==
    /\ \A c \in Consumers : WF_vars(Start(c)) /\ WF_vars(Step(c))
    /\ \A m \in Entries : WF_vars(Idle(m))

FairSpec == Spec /\ Fairness

-----------------------------------------------------------------------------
(* Properties *)

\* The stream, the group and the consumers hold what they can hold; a consumer
\* that is at an entry has one.
TypeOK ==
    /\ stream \in Seq(Kinds) /\ Len(stream) <= MaxEntries
    /\ read \in 0..Len(stream)
    /\ idle \subseteq pending /\ pending \subseteq 1..read
    /\ deliveries \in [Entries -> Nat]
    /\ consumer \in [Consumers -> Consumer]
    /\ \A c \in Consumers :
          InHand(c) = {} <=> consumer[c].pc \in {"off", "reclaim", "read"}
    /\ \A c \in Consumers : InHand(c) \subseteq 1..read
    /\ dead \in [Entries -> {"none", "rejected", "retries"}]
    /\ faults \in 0..MaxFaults
    /\ successes \in [Entries -> Nat] /\ failures \in [Entries -> Nat]
    /\ disturbed \subseteq Entries

Handled == {m \in Entries : successes[m] > 0}
DeadLetters == {m \in Entries : dead[m] # "none"}

\* An entry that was delivered stays pending until it has been handled or is
\* among the dead letters, whichever consumer dies with it in hand and whoever
\* acknowledges it for another.
NothingIsAckedUnsettled ==
    \A m \in 1..read :
        m \in pending \/ m \in Handled \/ m \in DeadLetters \/ stream[m] = "stop"

\* An entry that no fault hit and that was not reclaimed from under a consumer is
\* handled once or dead-lettered, never both; it is given up for its retries
\* when the handler has failed exactly MaxRetries times.
UndisturbedEntriesEndOnce ==
    \A m \in Entries \ disturbed :
        /\ successes[m] <= 1 /\ failures[m] <= MaxRetries
        /\ m \notin Handled \/ m \notin DeadLetters
        /\ dead[m] = "retries" => failures[m] = MaxRetries

\* Every entry that is added is handled or dead-lettered in the end.
Promise == INSTANCE AtLeastOnce
           WITH Events <- Entries, committed <- {m \in Added : stream[m] # "stop"},
                delivered <- Handled \union DeadLetters

HandledOrDeadLettered == Promise!Spec
=============================================================================
