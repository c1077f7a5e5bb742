---------------------------- MODULE EmailOutbox ----------------------------
(***************************************************************************)
(* The e-mails of the service, from the transaction that writes one to     *)
(* email_outbox until crm-media has it or it is too old.  A tick of a      *)
(* worker lists what is due and works through it without claiming it.  The *)
(* transactions are those of the module that extends this one.             *)
(***************************************************************************)
EXTENDS FiniteSets, FiniteSetsExt, Integers

CONSTANTS Workers,   \* processes that run tickEmailOutbox
          MaxMails,  \* bound on the e-mails ever written
          MaxFaults  \* bound on the errors and crashes in a tick, and on the payloads
                     \* that become unreadable

ASSUME EmailAssumption == MaxMails \in Nat /\ MaxFaults \in Nat

VARIABLES
    mail,     \* the rows, numbered by created_at
    worker,   \* what each process does
    sent,     \* e-mails that crm-media has received, once or more often
    overdue,  \* e-mails that a worker has found too old (history)
    faults    \* how many of them so far

mailVars == <<mail, worker, sent, overdue, faults>>

Mails == 1..MaxMails

\* due: available_at has passed.  over: the e-mail is too old, and so is what it
\* offers, whose expiresAt is computed with it.  readable: decryptEmailJob makes a
\* job of the payload, with the key that the workers have.
Mail == [status : {"none", "pending", "failed", "published", "expired", "purged"},
         due : BOOLEAN, over : BOOLEAN, readable : BOOLEAN]

Written == {t \in Mails : mail[t].status # "none"}
Unreadable == {t \in Written : ~mail[t].readable}

Worker == [pc : {"idle", "next", "mark", "fail", "backoff"}, batch : SUBSET Mails]
Idle == [pc |-> "idle", batch |-> {}]

EmailInit ==
    /\ mail = [t \in Mails |-> [status |-> "none", due |-> FALSE, over |-> FALSE,
                               readable |-> TRUE]]
    /\ worker = [w \in Workers |-> Idle]
    /\ sent = {} /\ overdue = {} /\ faults = 0

-----------------------------------------------------------------------------
(* createEmailOutboxEvent, within a transaction *)

Write(t) ==
    mail' = [mail EXCEPT ![t] = [status |-> "pending", due |-> TRUE, over |-> FALSE,
                                 readable |-> TRUE]]

-----------------------------------------------------------------------------
(* runEmailOutbox *)

Current(w) == Min(worker[w].batch)
Goto(w, pc) == worker' = [worker EXCEPT ![w].pc = pc]

\* Mutant: the end of the batch is not noticed.
ProceedOn(w) ==
    worker' = [worker EXCEPT ![w] =
                 [pc |-> "next", batch |-> worker[w].batch \ {Current(w)}]]

\* The loop goes on to the next row of the batch, or the tick ends.
Proceed(w) ==
    LET rest == worker[w].batch \ {Current(w)}
    IN  worker' = [worker EXCEPT ![w] = IF rest = {} THEN Idle
                                        ELSE [pc |-> "next", batch |-> rest]]

\* An UPDATE by id finds no row that was purged.
SetStatus(t, status) ==
    mail' = [mail EXCEPT ![t].status = IF @ = "purged" THEN @ ELSE status]

\* Mutant: what failed once is not listed.
DueOnce == {t \in Mails : mail[t].status = "pending" /\ mail[t].due}

\* listPendingEmailOutboxEvents; the batch has room for all of them.
Due == {t \in Mails : mail[t].status \in {"pending", "failed"} /\ mail[t].due}

\* The timer fires (a tick that finds no row changes nothing).
Tick(w) ==
    /\ worker[w].pc = "idle"
    /\ worker' = [worker EXCEPT ![w] =
                     IF Due = {} THEN Idle ELSE [pc |-> "next", batch |-> Due]]
    /\ UNCHANGED <<mail, sent, overdue, faults>>

\* The worker takes the next row, and its payload can be decrypted.
Reads(w) == worker[w].pc = "next" /\ mail[Current(w)].readable

\* decryptEmailJob throws before the age is looked at: the row fails, however old.
DecryptFails(w) ==
    /\ worker[w].pc = "next" /\ ~mail[Current(w)].readable
    /\ Goto(w, "fail")
    /\ UNCHANGED <<mail, sent, overdue, faults>>

\* markEmailOutboxExpired
Expire(w) ==
    LET t == Current(w)
    IN  /\ Reads(w) /\ mail[t].over
        /\ SetStatus(t, "expired")
        /\ overdue' = overdue \union {t}
        /\ Proceed(w)
        /\ UNCHANGED <<sent, faults>>

\* crm-media answers 202, to one of the three attempts of withRetry.
Dispatch(w) ==
    /\ Reads(w) /\ ~mail[Current(w)].over
    /\ sent' = sent \union {Current(w)}
    /\ Goto(w, "mark")
    /\ UNCHANGED <<mail, overdue, faults>>

\* Mutant: an error of crm-media is not noticed.
DispatchFailsSilently(w) ==
    /\ Reads(w) /\ ~mail[Current(w)].over
    /\ Goto(w, "mark")
    /\ UNCHANGED <<mail, sent, overdue, faults>>

\* The attempts end in an error or a timeout; one may have got there all the same.
DispatchFails(w) ==
    /\ Reads(w) /\ ~mail[Current(w)].over
    /\ sent' \in {sent, sent \union {Current(w)}}
    /\ Goto(w, "fail")
    /\ UNCHANGED <<mail, overdue, faults>>

\* markEmailOutboxPublished
Mark(w) ==
    /\ worker[w].pc = "mark"
    /\ SetStatus(Current(w), "published")
    /\ Proceed(w)
    /\ UNCHANGED <<sent, overdue, faults>>

\* The two UPDATEs of markEmailOutboxFailed, whatever the status is by now.
MarkFailed(w) ==
    /\ worker[w].pc = "fail"
    /\ SetStatus(Current(w), "failed")
    /\ Goto(w, "backoff")
    /\ UNCHANGED <<sent, overdue, faults>>

Backoff(w) ==
    /\ worker[w].pc = "backoff"
    /\ mail' = [mail EXCEPT ![Current(w)].due = FALSE]
    /\ Proceed(w)
    /\ UNCHANGED <<sent, overdue, faults>>

\* A crash, or an error of the database, where the status is not yet written: an
\* UPDATE in the try block that fails, be it of a row that has expired or of one
\* that was sent, leads to markEmailOutboxFailed; so does a key that a process has
\* not got for once.
Interrupt(w) ==
    /\ worker[w].pc # "idle" /\ faults < MaxFaults
    /\ faults' = faults + 1
    /\ \/ worker' = [worker EXCEPT ![w] = Idle]
       \/ worker[w].pc \in {"next", "mark"} /\ Goto(w, "fail")
    /\ UNCHANGED <<mail, sent, overdue>>

-----------------------------------------------------------------------------
(* Keys and time *)

\* The workers get another EMAIL_OUTBOX_ENCRYPTION_KEY, or the payload is damaged,
\* for good.  (A batch in hand has the payloads of its tick: for a row of it that
\* comes to the same as damage after its turn.)
MakeUnreadable(t) ==
    /\ mail[t].status \notin {"none", "purged"} /\ mail[t].readable
    /\ faults < MaxFaults
    /\ faults' = faults + 1
    /\ mail' = [mail EXCEPT ![t].readable = FALSE]
    /\ UNCHANGED <<worker, sent, overdue>>

\* available_at passes.
Elapse(t) ==
    /\ mail[t].status = "failed" /\ ~mail[t].due
    /\ mail' = [mail EXCEPT ![t].due = TRUE]
    /\ UNCHANGED <<worker, sent, overdue, faults>>

\* An hour, two days or seven pass, by the kind of the e-mail.
Age(t) ==
    /\ mail[t].status # "none" /\ ~mail[t].over
    /\ mail' = [mail EXCEPT ![t].over = TRUE]
    /\ UNCHANGED <<worker, sent, overdue, faults>>

\* purgeStaleAuthArtifacts deletes what was published long ago, and nothing else.
PurgeMail(t) ==
    /\ mail[t].status = "published" /\ mail[t].over
    /\ mail' = [mail EXCEPT ![t].status = "purged"]
    /\ UNCHANGED <<worker, sent, overdue, faults>>

Step(w) ==
    \/ DecryptFails(w) \/ Expire(w) \/ Dispatch(w) \/ DispatchFails(w) \/ Mark(w)
    \/ MarkFailed(w) \/ Backoff(w)

EmailNext ==
    \/ \E w \in Workers : Tick(w) \/ Step(w) \/ Interrupt(w)
    \/ \E t \in Mails : MakeUnreadable(t) \/ Elapse(t) \/ Age(t) \/ PurgeMail(t)

\* setInterval goes on, a tick runs on, time passes.  Nothing is assumed of
\* crm-media: an e-mail it never takes is too old some day.
EmailFairness ==
    /\ \A w \in Workers : WF_mailVars(Tick(w)) /\ WF_mailVars(Step(w))
    /\ \A t \in Mails : WF_mailVars(Elapse(t)) /\ WF_mailVars(Age(t))

-----------------------------------------------------------------------------
(* Properties *)

EmailTypeOK ==
    /\ mail \in [Mails -> Mail]
    /\ worker \in [Workers -> Worker]
    /\ \A w \in Workers : worker[w].pc = "idle" <=> worker[w].batch = {}
    /\ sent \subseteq Written /\ overdue \subseteq Written
    /\ faults \in 0..MaxFaults

\* Every e-mail that a transaction has written reaches crm-media or is found to be
\* too old, whatever fails and whoever marks its row in between, as long as the
\* workers can decrypt it: a row that they cannot is tried for ever, and its age is
\* never looked at.
Promise == INSTANCE AtLeastOnce
           WITH Events <- Mails, committed <- Written,
                delivered <- sent \union overdue \union Unreadable

SentOrOverdue == Promise!Spec
=============================================================================
