--------------------------- MODULE OnboardingProofs ---------------------------
(***************************************************************************)
(* Theorems about Onboarding and the e-mail outbox it writes to, for any   *)
(* number of requests, workers and e-mails.                                *)
(***************************************************************************)
EXTENDS Onboarding, FiniteSetTheorems, WellFoundedInduction, TLAPS

\* E-mails are numbered as they are written.
WrittenInOrder == Written = 1..Issued

BatchesAreWritten == \A w \in Workers : worker[w].batch \subseteq Written

\* A worker marks what it has handed over.
MarksAreSent ==
    \A w \in Workers : worker[w].pc = "mark" => Current(w) \in sent

\* What the status of a row says of its e-mail.
Tells(row, isSent) ==
    /\ row.status = "published" => isSent
    /\ row.status \in {"expired", "purged"} => row.over

StatusesTell == \A t \in Mails : Tells(mail[t], t \in sent)

\* The inductive invariant of the outbox.
MailInv ==
    /\ EmailTypeOK /\ WrittenInOrder /\ BatchesAreWritten
    /\ MarksAreSent /\ StatusesTell

Inviting == {p \in Procs : At(p, "invite")}

\* The bound leaves room for what is on its way.
RoomIsKept == Issued + Cardinality(Inviting) <= MaxMails

\* No two invitations have one link.
LinksAreOwn ==
    \A i, j \in Mails :
        /\ invitation[i].state # "none" /\ invitation[j].state # "none"
        /\ invitation[i].token = invitation[j].token
        => i = j

\* A valid row has the role its link offers: renewing an invitation of another role
\* leaves one that makes no valid user.
RolesAgree ==
    \A i \in Mails :
        invitation[i].state # "none" /\ Valid(invitation[i])
            => invitation[i].role = offered[invitation[i].token]

\* A request that accepts holds what it has read: a link that was mailed, that no
\* other invitation has, and the role it offers.
Accepts(r) == r.pc \in {"create", "commit"}

Holds(r) ==
    /\ r.pc = "invite" /\ r.found # 0 => r.role = "client"
    /\ Accepts(r) =>
          /\ r.found \in Mails /\ r.row.token \in Written
          /\ Valid(r.row) => r.row.role = offered[r.row.token]
          /\ \A i \in Mails :
                invitation[i].state # "none" /\ invitation[i].token = r.row.token
                    => i = r.found
    /\ r.pc = "commit" => Valid(r.row) /\ account = "none"

RequestsHold == \A p \in Procs : Holds(req[p])

\* The account came by a link that is used up.
JoinedOnce ==
    /\ account = "none" => joined = 0
    /\ account # "none" => joined \in Written
    /\ \A i \in Mails : invitation[i].state = "open" => invitation[i].token # joined

Used == {i \in Mails : invitation[i].state = "used"}

UsedByOne ==
    /\ account = "none" => Used = {}
    /\ \A i, j \in Used : i = j

\* Undisturbed requests see the one open invitation there is.
OneAtATime ==
    ~crowded =>
        /\ \A i, j \in Open : i = j
        /\ account # "none" => Open = {}
        /\ \A p \in Procs : ~At(p, "idle") => Open \subseteq {req[p].found}

\* The inductive invariant of the whole.
OnboardingInv ==
    /\ MailInv /\ TypeOK /\ RoomIsKept
    /\ LinksAreOwn /\ RolesAgree /\ RequestsHold /\ AcceptedAsOffered
    /\ JoinedOnce /\ UsedByOne /\ OneAtATime

-----------------------------------------------------------------------------
(* The outbox *)

LEMMA FirstOfBatch ==
    ASSUME NEW S \in SUBSET Nat, S # {}
    PROVE  Min(S) \in S
<1>. DEFINE R == {ss \in Nat \X Nat : ss[1] < ss[2]}
<1>1. IsWellFoundedOn(R, Nat)
  BY NatLessThanWellFounded DEF OpToRel
<1>2. \A x, y \in Nat : y < x => <<y, x>> \in R
  OBVIOUS
<1>. HIDE DEF R
<1>3. PICK x \in S : \A y \in S : <<y, x>> \notin R
  BY <1>1, WFMin
<1>4. ASSUME NEW y \in S PROVE x =< y
  <2>1. ~(y < x)
    BY <1>2, <1>3
  <2>. QED
    BY <2>1
<1>5. \E y \in S : \A z \in S : y =< z
  BY <1>4
<1>. QED
  BY <1>5 DEF Min

LEMMA WorkerTypes ==
    ASSUME MailInv
    PROVE  /\ mail \in [Mails -> Mail] /\ worker \in [Workers -> Worker]
           /\ sent \subseteq Written /\ overdue \subseteq Written
           /\ faults \in 0..MaxFaults /\ MaxFaults \in Nat
           /\ Written \subseteq Mails /\ Mails \subseteq Nat
           /\ \A w \in Workers :
                 /\ worker[w] \in Worker /\ worker[w].batch \subseteq Written
                 /\ worker[w].pc = "idle" <=> worker[w].batch = {}
                 /\ worker[w].pc # "idle" => Current(w) \in worker[w].batch
<1>1. /\ mail \in [Mails -> Mail] /\ worker \in [Workers -> Worker]
      /\ sent \subseteq Written /\ overdue \subseteq Written
      /\ faults \in 0..MaxFaults
      /\ \A w \in Workers : worker[w].pc = "idle" <=> worker[w].batch = {}
      /\ \A w \in Workers : worker[w].batch \subseteq Written
  BY DEF MailInv, EmailTypeOK, BatchesAreWritten
<1>2. MaxFaults \in Nat /\ Written \subseteq Mails /\ Mails \subseteq Nat
  BY EmailAssumption DEF Mails, Written
<1>3. ASSUME NEW w \in Workers, worker[w].pc # "idle"
      PROVE  Current(w) \in worker[w].batch
  <2>1. worker[w].batch \in SUBSET Nat /\ worker[w].batch # {}
    BY <1>1, <1>2, <1>3
  <2>. QED
    BY <2>1, FirstOfBatch DEF Current
<1>. QED
  BY <1>1, <1>2, <1>3

\* What a worker or the time may do to the rows.
Keeps(row, rowNow, isSent) ==
    /\ row.status = "none" <=> rowNow.status = "none"
    /\ row.over => rowNow.over
    /\ rowNow.readable => row.readable
    /\ Tells(rowNow, isSent)

RowsAreKept ==
    /\ mail' \in [Mails -> Mail]
    /\ \A t \in Mails : Keeps(mail[t], mail'[t], t \in sent')
    /\ sent \subseteq sent' /\ sent' \subseteq Written /\ overdue' \subseteq Written
    /\ faults' \in 0..MaxFaults

LEMMA Kept ==
    ASSUME MailInv, RowsAreKept
    PROVE  /\ Written' = Written /\ Issued' = Issued
           /\ WrittenInOrder' /\ StatusesTell'
           /\ sent' \subseteq Written' /\ overdue' \subseteq Written'
<1>1. \A t \in Mails : Keeps(mail[t], mail'[t], t \in sent')
  BY DEF RowsAreKept
<1>2. Written' = Written
  BY <1>1 DEF Written, Keeps
<1>3. Issued' = Issued
  BY <1>2 DEF Issued
<1>4. StatusesTell'
  BY <1>1 DEF StatusesTell, Keeps, Tells
<1>. QED
  BY <1>2, <1>3, <1>4 DEF RowsAreKept, WrittenInOrder, MailInv

\* A worker goes to x.
LEMMA WorkerGoes ==
    ASSUME MailInv, RowsAreKept, NEW w \in Workers, NEW x \in Worker,
           worker' = [worker EXCEPT ![w] = x],
           x.pc = "idle" <=> x.batch = {}, x.batch \subseteq Written,
           x.pc = "mark" => Min(x.batch) \in sent'
    PROVE  MailInv'
<1>1. /\ worker' \in [Workers -> Worker]
      /\ \A v \in Workers : worker'[v] = IF v = w THEN x ELSE worker[v]
  BY WorkerTypes
<1>2. \A v \in Workers : worker'[v].pc = "idle" <=> worker'[v].batch = {}
  BY <1>1, WorkerTypes
<1>3. BatchesAreWritten'
  BY <1>1, Kept, WorkerTypes DEF BatchesAreWritten
<1>4. MarksAreSent'
  <2>. SUFFICES ASSUME NEW v \in Workers, worker'[v].pc = "mark"
                PROVE  Min(worker'[v].batch) \in sent'
    BY DEF MarksAreSent, Current
  <2>1. CASE v = w
    BY <1>1, <2>1
  <2>2. CASE v # w
    <3>1. worker'[v] = worker[v]
      BY <1>1, <2>2
    <3>2. Min(worker[v].batch) \in sent
      BY <3>1 DEF MailInv, MarksAreSent, Current
    <3>. QED
      BY <3>1, <3>2 DEF RowsAreKept
  <2>. QED
    BY <2>1, <2>2
<1>5. mail' \in [Mails -> Mail] /\ faults' \in 0..MaxFaults
  BY DEF RowsAreKept
<1>6. EmailTypeOK'
  BY <1>1, <1>2, <1>5, Kept DEF EmailTypeOK
<1>. QED
  BY <1>3, <1>4, <1>6, Kept DEF MailInv

\* No row changes, and nothing but what is sent.
LEMMA RowsAlone ==
    ASSUME MailInv, mail' = mail, sent \subseteq sent', sent' \subseteq Written,
           overdue' \subseteq Written, faults' \in 0..MaxFaults
    PROVE  RowsAreKept
<1>1. \A t \in Mails : Tells(mail[t], t \in sent)
  BY DEF MailInv, StatusesTell
<1>2. \A t \in Mails : Keeps(mail[t], mail'[t], t \in sent')
  BY <1>1 DEF Keeps, Tells
<1>. QED
  BY <1>2, WorkerTypes DEF RowsAreKept

\* One row becomes x.
LEMMA OneRow ==
    ASSUME MailInv, NEW t \in Mails, NEW x \in Mail, mail' = [mail EXCEPT ![t] = x],
           Keeps(mail[t], x, t \in sent), sent' = sent, overdue' \subseteq Written,
           faults' \in 0..MaxFaults
    PROVE  RowsAreKept
<1>1. /\ mail' \in [Mails -> Mail]
      /\ \A u \in Mails : mail'[u] = IF u = t THEN x ELSE mail[u]
  BY WorkerTypes
<1>2. \A u \in Mails : Tells(mail[u], u \in sent)
  BY DEF MailInv, StatusesTell
<1>3. ASSUME NEW u \in Mails PROVE Keeps(mail[u], mail'[u], u \in sent')
  <2>1. CASE u = t
    BY <1>1, <2>1
  <2>2. CASE u # t
    BY <1>1, <1>2, <2>2 DEF Keeps
  <2>. QED
    BY <2>1, <2>2
<1>. QED
  BY <1>1, <1>3, WorkerTypes DEF RowsAreKept


\* The loop goes on.
LEMMA Proceeds ==
    ASSUME MailInv, RowsAreKept, NEW w \in Workers, worker[w].pc # "idle", Proceed(w)
    PROVE  MailInv'
<1>. DEFINE rest == worker[w].batch \ {Current(w)}
            x == IF rest = {} THEN Idle ELSE [pc |-> "next", batch |-> rest]
<1>1. worker' = [worker EXCEPT ![w] = x]
  BY DEF Proceed
<1>2. rest \subseteq Mails /\ rest \subseteq Written
  BY WorkerTypes
<1>. HIDE DEF rest
<1>3. /\ x \in Worker /\ x.batch = rest /\ x.pc # "mark"
      /\ x.pc = "idle" <=> x.batch = {}
  BY <1>2 DEF Idle, Worker
<1>. HIDE DEF x
<1>. QED
  BY <1>1, <1>2, <1>3, WorkerGoes

LEMMA GoesTo ==
    ASSUME MailInv, RowsAreKept, NEW w \in Workers, worker[w].pc # "idle",
           NEW pc \in {"next", "mark", "fail", "backoff"}, Goto(w, pc),
           pc = "mark" => Current(w) \in sent'
    PROVE  MailInv'
<1>. DEFINE x == [worker[w] EXCEPT !.pc = pc]
<1>1. worker[w] \in Worker /\ worker[w].batch \subseteq Written /\ worker[w].batch # {}
  BY WorkerTypes
<1>2. x \in Worker /\ x.pc = pc /\ x.batch = worker[w].batch
  BY <1>1 DEF Worker
<1>3. worker' = [worker EXCEPT ![w] = x]
  BY DEF Goto
<1>. HIDE DEF x
<1>. QED
  BY <1>1, <1>2, <1>3, WorkerGoes DEF Current

\* The row of the e-mail in hand gets a status.
LEMMA StatusSet ==
    ASSUME MailInv, NEW w \in Workers, worker[w].pc # "idle",
           NEW s \in {"failed", "published", "expired"}, SetStatus(Current(w), s),
           s = "published" => Current(w) \in sent,
           s = "expired" => mail[Current(w)].over,
           sent' = sent, overdue' \subseteq Written, faults' = faults
    PROVE  RowsAreKept
<1>. DEFINE t == Current(w)
            x == [mail[t] EXCEPT !.status = IF mail[t].status = "purged" THEN "purged" ELSE s]
<1>1. t \in Written /\ t \in Mails
  BY WorkerTypes
<1>2. mail[t] \in Mail /\ mail[t].status # "none" /\ Tells(mail[t], t \in sent)
  BY <1>1, WorkerTypes DEF Written, MailInv, StatusesTell
<1>3. mail' = [mail EXCEPT ![t] = x]
  BY DEF SetStatus
<1>. HIDE DEF t
<1>4. /\ x \in Mail /\ x.over = mail[t].over /\ x.readable = mail[t].readable
      /\ x.status = IF mail[t].status = "purged" THEN "purged" ELSE s
  BY <1>2 DEF Mail
<1>5. (s = "published" => t \in sent) /\ (s = "expired" => mail[t].over)
  BY DEF t
<1>. HIDE DEF x
<1>6. Keeps(mail[t], x, t \in sent)
  BY <1>2, <1>4, <1>5 DEF Keeps, Tells
<1>7. faults' \in 0..MaxFaults
  BY WorkerTypes
<1>. QED
  BY <1>1, <1>3, <1>4, <1>6, <1>7, OneRow

LEMMA TickKeeps ==
    ASSUME MailInv, NEW w \in Workers, Tick(w)
    PROVE  MailInv' /\ RowsAreKept
<1>. DEFINE x == IF Due = {} THEN Idle ELSE [pc |-> "next", batch |-> Due]
<1>1. Due \subseteq Written /\ Due \subseteq Mails
  BY DEF Due, Written
<1>2. worker' = [worker EXCEPT ![w] = x]
  BY DEF Tick
<1>3. /\ x \in Worker /\ x.batch \subseteq Written /\ x.pc # "mark"
      /\ x.pc = "idle" <=> x.batch = {}
  BY <1>1 DEF Idle, Worker
<1>. HIDE DEF x
<1>4. RowsAreKept
  BY RowsAlone, WorkerTypes DEF Tick
<1>. QED
  BY <1>2, <1>3, <1>4, WorkerGoes

LEMMA StepKeeps ==
    ASSUME MailInv, NEW w \in Workers, Step(w)
    PROVE  MailInv' /\ RowsAreKept
<1>1. CASE Expire(w)
  <2>1. worker[w].pc # "idle" /\ Current(w) \in Written
    BY <1>1, WorkerTypes DEF Expire, Reads
  <2>2. /\ SetStatus(Current(w), "expired") /\ mail[Current(w)].over
        /\ sent' = sent /\ faults' = faults /\ overdue' = overdue \union {Current(w)}
        /\ Proceed(w)
    BY <1>1 DEF Expire, Reads
  <2>3. RowsAreKept
    BY <2>1, <2>2, StatusSet, WorkerTypes
  <2>. QED
    BY <2>1, <2>2, <2>3, Proceeds
<1>2. CASE DecryptFails(w) \/ Dispatch(w) \/ DispatchFails(w)
  <2>1. worker[w].pc # "idle" /\ Current(w) \in Written
    BY <1>2, WorkerTypes DEF DecryptFails, Dispatch, DispatchFails, Reads
  <2>2. RowsAreKept
    BY <1>2, <2>1, RowsAlone, WorkerTypes DEF DecryptFails, Dispatch, DispatchFails
  <2>. QED
    BY <1>2, <2>1, <2>2, GoesTo DEF DecryptFails, Dispatch, DispatchFails
<1>3. CASE Mark(w)
  <2>1. worker[w].pc = "mark" /\ Current(w) \in sent
    BY <1>3 DEF Mark, MailInv, MarksAreSent
  <2>2. RowsAreKept
    BY <1>3, <2>1, StatusSet, WorkerTypes DEF Mark
  <2>. QED
    BY <1>3, <2>1, <2>2, Proceeds DEF Mark
<1>4. CASE MarkFailed(w)
  <2>1. RowsAreKept
    BY <1>4, StatusSet, WorkerTypes DEF MarkFailed
  <2>. QED
    BY <1>4, <2>1, GoesTo DEF MarkFailed
<1>5. CASE Backoff(w)
  <2>. DEFINE t == Current(w)
              x == [mail[t] EXCEPT !.due = FALSE]
  <2>1. t \in Mails /\ mail[t] \in Mail /\ worker[w].pc # "idle"
    BY <1>5, WorkerTypes DEF Backoff
  <2>2. mail' = [mail EXCEPT ![t] = x]
    BY <1>5 DEF Backoff
  <2>3. Tells(mail[t], t \in sent)
    BY <2>1 DEF MailInv, StatusesTell
  <2>. HIDE DEF t
  <2>4. /\ x \in Mail /\ x.status = mail[t].status /\ x.over = mail[t].over
        /\ x.readable = mail[t].readable
    BY <2>1 DEF Mail
  <2>. HIDE DEF x
  <2>5. Keeps(mail[t], x, t \in sent)
    BY <2>3, <2>4 DEF Keeps, Tells
  <2>6. RowsAreKept
    BY <1>5, <2>1, <2>2, <2>4, <2>5, OneRow, WorkerTypes DEF Backoff
  <2>. QED
    BY <1>5, <2>1, <2>6, Proceeds DEF Backoff
<1>. QED
  BY <1>1, <1>2, <1>3, <1>4, <1>5 DEF Step

LEMMA InterruptKeeps ==
    ASSUME MailInv, NEW w \in Workers, Interrupt(w)
    PROVE  MailInv' /\ RowsAreKept
<1>1. RowsAreKept
  BY RowsAlone, WorkerTypes DEF Interrupt
<1>2. CASE worker' = [worker EXCEPT ![w] = Idle]
  <2>1. Idle \in Worker /\ Idle.pc = "idle" /\ Idle.batch = {}
    BY DEF Idle, Worker
  <2>. QED
    BY <1>1, <1>2, <2>1, WorkerGoes
<1>3. CASE Goto(w, "fail")
  BY <1>1, <1>3, GoesTo DEF Interrupt
<1>. QED
  BY <1>1, <1>2, <1>3 DEF Interrupt

LEMMA TimeKeeps ==
    ASSUME MailInv, NEW t \in Mails,
           MakeUnreadable(t) \/ Elapse(t) \/ Age(t) \/ PurgeMail(t)
    PROVE  MailInv' /\ RowsAreKept
<1>1. mail[t] \in Mail /\ Tells(mail[t], t \in sent)
  BY WorkerTypes DEF MailInv, StatusesTell
<1>2. UNCHANGED <<worker, sent, overdue>> /\ faults' \in 0..MaxFaults
  <2>1. faults' = faults \/ (faults < MaxFaults /\ faults' = faults + 1)
    BY DEF MakeUnreadable, Elapse, Age, PurgeMail
  <2>2. faults' \in 0..MaxFaults
    BY <2>1, WorkerTypes, EmailAssumption
  <2>. QED
    BY <2>2 DEF MakeUnreadable, Elapse, Age, PurgeMail
<1>3. ASSUME NEW x \in Mail, mail' = [mail EXCEPT ![t] = x], Keeps(mail[t], x, t \in sent)
      PROVE  RowsAreKept
  BY <1>2, <1>3, OneRow, WorkerTypes
<1>4. ASSUME Elapse(t) PROVE RowsAreKept
  <2>. DEFINE x == [mail[t] EXCEPT !.due = TRUE]
  <2>1. /\ x \in Mail /\ x.status = mail[t].status /\ x.over = mail[t].over
        /\ x.readable = mail[t].readable
    BY <1>1 DEF Mail
  <2>2. mail' = [mail EXCEPT ![t] = x]
    BY <1>4 DEF Elapse
  <2>. HIDE DEF x
  <2>3. Keeps(mail[t], x, t \in sent)
    BY <1>1, <2>1, <2>2 DEF Keeps, Tells
  <2>. QED
    BY <1>3, <2>1, <2>2, <2>3
<1>5. ASSUME Age(t) PROVE RowsAreKept
  <2>. DEFINE x == [mail[t] EXCEPT !.over = TRUE]
  <2>1. /\ x \in Mail /\ x.status = mail[t].status /\ x.over = TRUE
        /\ x.readable = mail[t].readable
    BY <1>1 DEF Mail
  <2>2. mail' = [mail EXCEPT ![t] = x]
    BY <1>5 DEF Age
  <2>. HIDE DEF x
  <2>3. Keeps(mail[t], x, t \in sent)
    BY <1>1, <2>1, <2>2 DEF Keeps, Tells
  <2>. QED
    BY <1>3, <2>1, <2>2, <2>3
<1>6. ASSUME PurgeMail(t) PROVE RowsAreKept
  <2>. DEFINE x == [mail[t] EXCEPT !.status = "purged"]
  <2>1. /\ x \in Mail /\ x.status = "purged" /\ x.over = mail[t].over
        /\ x.readable = mail[t].readable
    BY <1>1 DEF Mail
  <2>2. mail' = [mail EXCEPT ![t] = x] /\ mail[t].over /\ mail[t].status = "published"
    BY <1>6 DEF PurgeMail
  <2>. HIDE DEF x
  <2>3. Keeps(mail[t], x, t \in sent)
    BY <1>1, <2>1, <2>2 DEF Keeps, Tells
  <2>. QED
    BY <1>3, <2>1, <2>2, <2>3
<1>7. ASSUME MakeUnreadable(t) PROVE RowsAreKept
  <2>. DEFINE x == [mail[t] EXCEPT !.readable = FALSE]
  <2>1. /\ x \in Mail /\ x.status = mail[t].status /\ x.over = mail[t].over
        /\ x.readable = FALSE
    BY <1>1 DEF Mail
  <2>2. mail' = [mail EXCEPT ![t] = x]
    BY <1>7 DEF MakeUnreadable
  <2>. HIDE DEF x
  <2>3. Keeps(mail[t], x, t \in sent)
    BY <1>1, <2>1 DEF Keeps, Tells
  <2>. QED
    BY <1>3, <2>1, <2>2, <2>3
<1>8. RowsAreKept
  BY <1>4, <1>5, <1>6, <1>7
<1>9. MailInv'
  <2>1. mail' \in [Mails -> Mail] /\ sent \subseteq sent'
    BY <1>8 DEF RowsAreKept
  <2>. QED
    BY <1>2, <1>8, <2>1, Kept DEF MailInv, EmailTypeOK, BatchesAreWritten, MarksAreSent, Current
<1>. QED
  BY <1>8, <1>9

\* Workers do not change what can be decrypted.
LEMMA WorkerReads ==
    ASSUME MailInv, NEW w \in Workers, Step(w) \/ Interrupt(w) \/ Tick(w)
    PROVE  \A t \in Mails : mail'[t].readable = mail[t].readable
<1>1. mail \in [Mails -> Mail]
  BY WorkerTypes
<1>2. ASSUME NEW t, NEW s, SetStatus(t, s), NEW u \in Mails
      PROVE  mail'[u].readable = mail[u].readable
  BY <1>1, <1>2 DEF SetStatus, Mail
<1>3. CASE Expire(w) \/ Mark(w) \/ MarkFailed(w)
  BY <1>2, <1>3 DEF Expire, Mark, MarkFailed
<1>4. CASE Backoff(w)
  BY <1>1, <1>4 DEF Backoff, Mail
<1>5. CASE DecryptFails(w) \/ Dispatch(w) \/ DispatchFails(w) \/ Interrupt(w) \/ Tick(w)
  BY <1>5 DEF DecryptFails, Dispatch, DispatchFails, Interrupt, Tick
<1>. QED
  BY <1>3, <1>4, <1>5 DEF Step

LEMMA MailKeeps ==
    ASSUME MailInv, EmailNext
    PROVE  MailInv' /\ RowsAreKept
  BY Zenon, TickKeeps, StepKeeps, InterruptKeeps, TimeKeeps DEF EmailNext

\* A transaction writes the next e-mail.
LEMMA WriteKeeps ==
    ASSUME MailInv, Issued + 1 \in Mails, Write(Issued + 1),
           UNCHANGED <<worker, sent, overdue, faults>>
    PROVE  /\ MailInv'
           /\ Issued + 1 \notin Written /\ Written' = Written \union {Issued + 1}
           /\ Issued' = Issued + 1
           /\ \A t \in Written : mail'[t] = mail[t]
           /\ mail'[Issued + 1] = [status |-> "pending", due |-> TRUE, over |-> FALSE,
                                    readable |-> TRUE]
<1>. DEFINE t == Issued + 1
            x == [status |-> "pending", due |-> TRUE, over |-> FALSE,
                  readable |-> TRUE]
<1>1. /\ IsFiniteSet(Written) /\ Issued \in Nat
  <2>1. MaxMails \in Nat /\ IsFiniteSet(Mails)
    BY EmailAssumption, FS_Interval DEF Mails
  <2>2. IsFiniteSet(Written)
    BY <2>1, FS_Subset DEF Written
  <2>. QED
    BY <2>2, FS_CardinalityType DEF Issued
<1>2. Written = 1..Issued /\ t \in Mails /\ t \notin Written
  BY <1>1 DEF MailInv, WrittenInOrder
<1>3. mail' = [mail EXCEPT ![t] = x]
  BY DEF Write
<1>. HIDE DEF t
<1>4. x \in Mail /\ x.status = "pending" /\ x.over = FALSE /\ x.readable = TRUE
  BY DEF Mail
<1>. HIDE DEF x
<1>5. /\ mail' \in [Mails -> Mail]
      /\ \A u \in Mails : mail'[u] = IF u = t THEN x ELSE mail[u]
  BY <1>2, <1>3, <1>4, WorkerTypes
<1>6. Written' = Written \union {t}
  BY <1>2, <1>4, <1>5 DEF Written
<1>7. Issued' = Issued + 1
  BY <1>1, <1>2, <1>6, FS_AddElement DEF Issued
<1>8. WrittenInOrder'
  BY <1>1, <1>2, <1>6, <1>7 DEF WrittenInOrder, t
<1>9. EmailTypeOK' /\ BatchesAreWritten' /\ MarksAreSent'
  BY <1>5, <1>6 DEF MailInv, EmailTypeOK, BatchesAreWritten, MarksAreSent, Current
<1>10. StatusesTell'
  BY <1>4, <1>5 DEF MailInv, StatusesTell, Tells
<1>11. \A u \in Written : mail'[u] = mail[u]
  BY <1>2, <1>5, WorkerTypes
<1>. QED
  BY <1>2, <1>5, <1>6, <1>7, <1>8, <1>9, <1>10, <1>11 DEF MailInv, t, x

LEMMA MailInit == Init => MailInv /\ Written = {} /\ Issued = 0
<1>. SUFFICES ASSUME Init PROVE MailInv /\ Written = {} /\ Issued = 0
  OBVIOUS
<1>. DEFINE row == [status |-> "none", due |-> FALSE, over |-> FALSE, readable |-> TRUE]
<1>1. row \in Mail /\ row.status = "none"
  BY DEF Mail
<1>2. mail = [t \in Mails |-> row] /\ worker = [w \in Workers |-> Idle]
      /\ sent = {} /\ overdue = {} /\ faults = 0
  BY DEF Init, EmailInit
<1>. HIDE DEF row
<1>3. Written = {}
  BY <1>1, <1>2 DEF Written
<1>4. Issued = 0
  BY <1>3, FS_EmptySet DEF Issued
<1>5. WrittenInOrder
  BY <1>3, <1>4 DEF WrittenInOrder
<1>6. Idle \in Worker /\ Idle.pc = "idle" /\ Idle.batch = {}
  BY DEF Idle, Worker
<1>7. EmailTypeOK /\ BatchesAreWritten /\ MarksAreSent
  BY <1>1, <1>2, <1>6, EmailAssumption DEF EmailTypeOK, BatchesAreWritten, MarksAreSent
<1>8. StatusesTell
  BY <1>1, <1>2 DEF StatusesTell, Tells
<1>. QED
  BY <1>3, <1>4, <1>5, <1>7, <1>8 DEF MailInv


-----------------------------------------------------------------------------
(* Requests and invitations *)

\* Sets of requests that differ in one.
LEMMA CountOne ==
    ASSUME NEW S \in SUBSET Procs, NEW T \in SUBSET Procs, NEW p, S \ {p} = T \ {p}
    PROVE  /\ Cardinality(S) \in Nat /\ Cardinality(T) \in Nat
           /\ p \in S => Cardinality(S) > 0
           /\ p \in S /\ p \notin T => Cardinality(T) = Cardinality(S) - 1
           /\ p \notin S /\ p \in T => Cardinality(T) = Cardinality(S) + 1
           /\ (p \in S <=> p \in T) => Cardinality(T) = Cardinality(S)
<1>1. IsFiniteSet(S) /\ IsFiniteSet(T)
  BY FS_Subset, OnboardingAssumption
<1>2. Cardinality(S) \in Nat /\ Cardinality(T) \in Nat
  BY <1>1, FS_CardinalityType
<1>3. p \in S => Cardinality(S) > 0
  BY <1>1, <1>2, FS_EmptySet
<1>4. ASSUME p \in S, p \notin T PROVE Cardinality(T) = Cardinality(S) - 1
  <2>1. T = S \ {p}
    BY <1>4
  <2>. QED
    BY <1>1, <1>4, <2>1, FS_RemoveElement
<1>5. ASSUME p \notin S, p \in T PROVE Cardinality(T) = Cardinality(S) + 1
  <2>1. T = S \cup {p}
    BY <1>5
  <2>. QED
    BY <1>1, <1>5, <2>1, FS_AddElement
<1>6. ASSUME p \in S <=> p \in T PROVE S = T
  BY <1>6
<1>. QED
  BY <1>2, <1>3, <1>4, <1>5, <1>6

LEMMA Types ==
    ASSUME OnboardingInv
    PROVE  /\ invitation \in [Mails -> Invitation] /\ req \in [Procs -> Request]
           /\ offered \in [Mails -> Roles \union {"none"}]
           /\ account \in Roles \union {"none"}
           /\ joined \in {0} \union Mails /\ crowded \in BOOLEAN
           /\ \A i \in Mails :
                 /\ invitation[i] \in Invitation
                 /\ invitation[i].state # "none" => invitation[i].token \in Written
           /\ \A p \in Procs : req[p] \in Request /\ Holds(req[p])
           /\ Written \subseteq Mails /\ 0 \notin Mails /\ MaxMails \in Nat
           /\ Issued \in Nat /\ Cardinality(Inviting) \in Nat
           /\ Issued + Cardinality(Inviting) <= MaxMails
<1>1. Written \subseteq Mails /\ 0 \notin Mails /\ MaxMails \in Nat /\ IsFiniteSet(Mails)
  BY EmailAssumption, FS_Interval DEF Written, Mails
<1>2. IsFiniteSet(Written) /\ IsFiniteSet(Inviting)
  BY <1>1, FS_Subset, OnboardingAssumption DEF Inviting
<1>3. Issued \in Nat /\ Cardinality(Inviting) \in Nat
  BY <1>2, FS_CardinalityType DEF Issued
<1>. QED
  BY <1>1, <1>3 DEF OnboardingInv, TypeOK, RequestsHold, RoomIsKept

LEMMA Defaults ==
    /\ NoInvitation \in Invitation /\ NoRequest \in Request
    /\ NoRequest.pc = "idle" /\ NoRequest.found = 0
    /\ Holds(NoRequest)
<1>1. NoInvitation \in Invitation
  BY DEF NoInvitation, Invitation, Roles
<1>2. NoRequest \in Request /\ NoRequest.pc = "idle" /\ NoRequest.found = 0
  BY <1>1 DEF NoRequest, Request, Roles
<1>. QED
  BY <1>1, <1>2 DEF Holds, Accepts

\* A step of one request, to x.
LEMMA OneRequest ==
    ASSUME OnboardingInv, NEW p \in Procs, NEW x \in Request,
           req' = [req EXCEPT ![p] = x],
           x.pc = "commit" => \A q \in Procs : ~At(q, "commit") \/ q = p
    PROVE  /\ req' \in [Procs -> Request]
           /\ \A q \in Procs : req'[q] = IF q = p THEN x ELSE req[q]
           /\ \A q, r \in Procs : At(q, "commit")' /\ At(r, "commit")' => q = r
           /\ Cardinality(Inviting)' \in Nat
           /\ At(p, "invite") => Cardinality(Inviting) > 0
           /\ Cardinality(Inviting)' =
                 IF x.pc = "invite" /\ ~At(p, "invite") THEN Cardinality(Inviting) + 1
                 ELSE IF x.pc # "invite" /\ At(p, "invite") THEN Cardinality(Inviting) - 1
                 ELSE Cardinality(Inviting)
<1>1. req' \in [Procs -> Request] /\ \A q \in Procs : req'[q] = IF q = p THEN x ELSE req[q]
  BY Types
<1>2. \A q, r \in Procs : At(q, "commit")' /\ At(r, "commit")' => q = r
  BY <1>1 DEF At, OnboardingInv, TypeOK
<1>3. /\ Inviting \in SUBSET Procs /\ Inviting' \in SUBSET Procs
      /\ Inviting \ {p} = Inviting' \ {p}
      /\ p \in Inviting <=> At(p, "invite")
      /\ p \in Inviting' <=> x.pc = "invite"
  BY <1>1 DEF Inviting, At
<1>4. Cardinality(Inviting') \in Nat
  BY <1>3, CountOne
<1>5. At(p, "invite") => Cardinality(Inviting) > 0
  BY <1>3, CountOne
<1>6. Cardinality(Inviting') =
         IF x.pc = "invite" /\ ~At(p, "invite") THEN Cardinality(Inviting) + 1
         ELSE IF x.pc # "invite" /\ At(p, "invite") THEN Cardinality(Inviting) - 1
         ELSE Cardinality(Inviting)
  BY <1>3, CountOne
<1>. QED
  BY <1>1, <1>2, <1>4, <1>5, <1>6

\* The outbox does not change while a request does.
LEMMA MailAlone ==
    ASSUME OnboardingInv, UNCHANGED mailVars
    PROVE  /\ MailInv' /\ EmailTypeOK' /\ Written' = Written /\ Issued' = Issued
           /\ \A i \in Mails : invitation'[i].token = invitation[i].token => Over(i)' = Over(i)
  BY DEF OnboardingInv, mailVars, MailInv, EmailTypeOK, WrittenInOrder, Written, Issued,
         BatchesAreWritten, MarksAreSent, StatusesTell, Current, Over

\* A request goes to x, and nothing else changes.
LEMMA RequestGoes ==
    ASSUME OnboardingInv, NEW p \in Procs, NEW x \in Request,
           req' = [req EXCEPT ![p] = x],
           UNCHANGED <<mailVars, invitation, offered, account, joined, crowded>>,
           x.pc = "commit" => \A q \in Procs : ~At(q, "commit") \/ q = p,
           Holds(x), x.pc = "invite" => HasRoomToMail,
           ~crowded /\ x.pc # "idle" => Open \subseteq {x.found}
    PROVE  OnboardingInv'
<1>1. /\ req' \in [Procs -> Request]
      /\ \A q \in Procs : req'[q] = IF q = p THEN x ELSE req[q]
      /\ \A q, r \in Procs : At(q, "commit")' /\ At(r, "commit")' => q = r
      /\ Cardinality(Inviting)' \in Nat
      /\ Cardinality(Inviting)' =
            IF x.pc = "invite" /\ ~At(p, "invite") THEN Cardinality(Inviting) + 1
            ELSE IF x.pc # "invite" /\ At(p, "invite") THEN Cardinality(Inviting) - 1
            ELSE Cardinality(Inviting)
  BY OneRequest
<1>2. MailInv' /\ EmailTypeOK' /\ Written' = Written /\ Issued' = Issued
  BY MailAlone
<1>3. UNCHANGED <<mail, invitation, offered, account, joined, crowded>>
  BY DEF mailVars
<1>4. TypeOK'
  BY <1>1, <1>2, <1>3 DEF OnboardingInv, TypeOK
<1>5. RoomIsKept'
  <2>1. HasRoomToMail => Issued + Cardinality(Inviting) < MaxMails
    BY DEF HasRoomToMail, Inviting
  <2>. QED
    BY <1>1, <1>2, <2>1, Types DEF RoomIsKept
<1>6. RequestsHold'
  <2>. SUFFICES ASSUME NEW q \in Procs PROVE Holds(req[q])'
    BY DEF RequestsHold
  <2>1. req'[q] = IF q = p THEN x ELSE req[q]
    BY <1>1
  <2>2. Holds(IF q = p THEN x ELSE req[q])
    BY Types
  <2>. QED
    BY <1>2, <1>3, <2>1, <2>2 DEF Holds, Accepts, Valid
<1>7. Open' = Open
  BY <1>3 DEF Open, Over
<1>8. OneAtATime'
  BY <1>1, <1>3, <1>7 DEF OnboardingInv, OneAtATime, At
<1>9. LinksAreOwn' /\ RolesAgree' /\ AcceptedAsOffered' /\ JoinedOnce' /\ UsedByOne'
  BY <1>2, <1>3 DEF OnboardingInv, LinksAreOwn, RolesAgree, AcceptedAsOffered,
                    JoinedOnce, UsedByOne, Used, Valid
<1>. QED
  BY <1>2, <1>4, <1>5, <1>6, <1>8, <1>9 DEF OnboardingInv

LEMMA InviteReadKeeps ==
    ASSUME OnboardingInv, NEW p \in Procs, NEW role \in Roles, InviteRead(p, role)
    PROVE  OnboardingInv'
<1>1. PICK i \in IF Open = {} THEN {0} ELSE Open :
         /\ role = "worker" => i = 0
         /\ Start(p, [NoRequest EXCEPT !.pc = "invite", !.role = role, !.found = i])
  BY Zenon DEF InviteRead
<1>. DEFINE x == [NoRequest EXCEPT !.pc = "invite", !.role = role, !.found = i]
<1>2. i \in {0} \union Mails
  BY DEF Open
<1>3. x \in Request /\ x.pc = "invite" /\ x.role = role /\ x.found = i
  BY <1>2, Defaults DEF Request
<1>4. req' = [req EXCEPT ![p] = x]
  BY <1>1 DEF Start
<1>. HIDE DEF x
<1>5. Holds(x)
  BY <1>1, <1>3 DEF Holds, Accepts, Roles
<1>6. ~crowded => Open \subseteq {i}
  BY DEF OnboardingInv, OneAtATime
<1>. QED
  BY <1>3, <1>4, <1>5, <1>6, RequestGoes DEF InviteRead

LEMMA AcceptReadKeeps ==
    ASSUME OnboardingInv, NEW p \in Procs, NEW t \in Mails, AcceptRead(p, t)
    PROVE  OnboardingInv'
<1>1. PICK i \in Open :
         /\ invitation[i].token = t
         /\ Start(p, [NoRequest EXCEPT !.pc = "create", !.found = i, !.row = invitation[i]])
  BY Zenon DEF AcceptRead
<1>. DEFINE x == [NoRequest EXCEPT !.pc = "create", !.found = i, !.row = invitation[i]]
<1>2. /\ i \in Mails /\ invitation[i] \in Invitation /\ invitation[i].state = "open"
      /\ t \in Written
  BY <1>1, Types DEF Open
<1>3. x \in Request /\ x.pc = "create" /\ x.row = invitation[i] /\ x.found = i
  BY <1>2, Defaults DEF Request
<1>4. req' = [req EXCEPT ![p] = x]
  BY <1>1 DEF Start
<1>. HIDE DEF x
<1>5. Valid(invitation[i]) => invitation[i].role = offered[t]
  BY <1>1, <1>2 DEF OnboardingInv, RolesAgree
<1>6. \A j \in Mails : invitation[j].state # "none" /\ invitation[j].token = t => j = i
  BY <1>1, <1>2 DEF OnboardingInv, LinksAreOwn
<1>7. Holds(x)
  BY <1>1, <1>2, <1>3, <1>5, <1>6 DEF Holds, Accepts
<1>8. ~crowded => Open \subseteq {i}
  BY DEF OnboardingInv, OneAtATime
<1>. QED
  BY <1>3, <1>4, <1>7, <1>8, RequestGoes DEF AcceptRead

LEMMA CreateKeeps ==
    ASSUME OnboardingInv, NEW p \in Procs, Create(p)
    PROVE  OnboardingInv'
<1>. DEFINE x == [req[p] EXCEPT !.pc = "commit"]
<1>1. req[p] \in Request /\ Holds(req[p]) /\ req[p].pc = "create"
  BY Types DEF Create, At
<1>2. /\ x \in Request /\ x.pc = "commit" /\ x.row = req[p].row /\ x.found = req[p].found
  BY <1>1 DEF Request
<1>3. req' = [req EXCEPT ![p] = x]
  BY DEF Create
<1>. HIDE DEF x
<1>4. Holds(x)
  BY <1>1, <1>2 DEF Holds, Accepts, Create
<1>5. ~crowded => Open \subseteq {req[p].found}
  BY <1>1 DEF OnboardingInv, OneAtATime, At
<1>. QED
  BY <1>2, <1>3, <1>4, <1>5, RequestGoes DEF Create

LEMMA AbortKeeps ==
    ASSUME OnboardingInv, NEW p \in Procs, Abort(p)
    PROVE  OnboardingInv'
<1>1. req' = [req EXCEPT ![p] = NoRequest]
  BY DEF Abort, Finish
<1>. QED
  BY <1>1, Defaults, RequestGoes DEF Abort


\* Invitations end, and e-mails grow too old.
RowsStand ==
    /\ invitation' \in [Mails -> Invitation]
    /\ \A i \in Mails :
          /\ invitation'[i].token = invitation[i].token
          /\ invitation'[i].role = invitation[i].role
          /\ invitation'[i].kind = invitation[i].kind
          /\ invitation'[i].state = "none" <=> invitation[i].state = "none"
          /\ invitation'[i].state = "open" => invitation[i].state = "open"
    /\ \A t \in Mails : mail[t].over => mail'[t].over
    /\ Written' = Written /\ offered' = offered

LEMMA Standing ==
    ASSUME OnboardingInv, RowsStand
    PROVE  /\ Open' \subseteq Open /\ LinksAreOwn' /\ RolesAgree'
           /\ \A i \in Mails : invitation'[i].state # "none" => invitation'[i].token \in Written'
<1>1. \A i \in Mails : invitation'[i].state # "none" => invitation'[i].token \in Written'
  BY Types DEF RowsStand
<1>2. Open' \subseteq Open
  <2>. SUFFICES ASSUME NEW i \in Open' PROVE i \in Open
    OBVIOUS
  <2>1. i \in Mails /\ invitation[i].state = "open" /\ ~mail'[invitation'[i].token].over
    BY DEF Open, Over, RowsStand
  <2>2. invitation'[i].token = invitation[i].token /\ invitation[i].token \in Mails
    BY <2>1, Types DEF RowsStand
  <2>. QED
    BY <2>1, <2>2 DEF Open, Over, RowsStand
<1>3. LinksAreOwn'
  BY DEF RowsStand, LinksAreOwn, OnboardingInv
<1>4. RolesAgree'
  BY DEF RowsStand, RolesAgree, OnboardingInv, Valid
<1>. QED
  BY <1>1, <1>2, <1>3, <1>4

LEMMA StillHolds ==
    ASSUME RowsStand, NEW r \in Request, Holds(r), r.pc = "commit" => account' = "none"
    PROVE  Holds(r)'
  BY DEF RowsStand, Holds, Accepts, Valid

LEMMA AcceptCommitKeeps ==
    ASSUME OnboardingInv, NEW p \in Procs, AcceptCommit(p)
    PROVE  OnboardingInv'
<1>. DEFINE row == req[p].row
            i == req[p].found
<1>1. /\ req[p] \in Request /\ req[p].pc = "commit" /\ account = "none" /\ joined = 0
      /\ i \in Mails /\ row \in Invitation /\ row.token \in Written
      /\ Valid(row) /\ row.role = offered[row.token]
      /\ \A j \in Mails : invitation[j].state # "none" /\ invitation[j].token = row.token => j = i
  <2>1. req[p] \in Request /\ Holds(req[p]) /\ req[p].pc = "commit"
    BY Types DEF AcceptCommit, At
  <2>2. joined = 0 \/ account # "none"
    BY DEF OnboardingInv, JoinedOnce
  <2>. QED
    BY <2>1, <2>2 DEF Holds, Accepts, Request
<1>2. /\ account' = row.role /\ joined' = row.token /\ offered' = offered /\ crowded' = crowded
      /\ row.role \in Roles /\ row.role # "none"
      /\ req' = [req EXCEPT ![p] = NoRequest]
  BY <1>1 DEF AcceptCommit, Finish, Invitation, Roles
<1>3. UNCHANGED mailVars
  BY DEF AcceptCommit
<1>. DEFINE s == IF invitation[i].state = "open" THEN "used" ELSE invitation[i].state
            x == [invitation[i] EXCEPT !.state = s]
<1>4. invitation' = [invitation EXCEPT ![i] = x]
  BY DEF AcceptCommit, Spent
<1>5. /\ x \in Invitation /\ x.token = invitation[i].token /\ x.role = invitation[i].role
      /\ x.kind = invitation[i].kind /\ x.state = s
  BY <1>1, Types DEF Invitation
<1>. HIDE DEF x, row, i
<1>6. /\ invitation' \in [Mails -> Invitation]
      /\ \A j \in Mails : invitation'[j] = IF j = i THEN x ELSE invitation[j]
  BY <1>1, <1>4, <1>5, Types
<1>7. MailInv' /\ EmailTypeOK' /\ Written' = Written /\ Issued' = Issued
  BY <1>3, MailAlone
<1>8. RowsStand
  BY <1>2, <1>3, <1>5, <1>6, <1>7 DEF RowsStand, mailVars
<1>9. /\ req' \in [Procs -> Request]
      /\ \A q \in Procs : req'[q] = IF q = p THEN NoRequest ELSE req[q]
      /\ \A q, r \in Procs : At(q, "commit")' /\ At(r, "commit")' => q = r
      /\ Cardinality(Inviting)' \in Nat
      /\ Cardinality(Inviting)' = Cardinality(Inviting)
  BY <1>1, <1>2, OneRequest, Defaults DEF At
<1>10. TypeOK'
  BY <1>1, <1>2, <1>6, <1>7, <1>9, Types, Standing, <1>8 DEF TypeOK
<1>11. RoomIsKept'
  BY <1>7, <1>9, Types DEF RoomIsKept
<1>12. RequestsHold'
  <2>. SUFFICES ASSUME NEW q \in Procs PROVE Holds(req[q])'
    BY DEF RequestsHold
  <2>1. req'[q] \in Request /\ Holds(req'[q]) /\ req'[q].pc # "commit"
    <3>1. CASE q = p
      BY <1>9, <3>1, Defaults
    <3>2. CASE q # p
      <4>1. req[q].pc # "commit"
        BY <1>1, <3>2 DEF OnboardingInv, TypeOK, At
      <4>. QED
        BY <1>9, <3>2, <4>1, Types
    <3>. QED
      BY <3>1, <3>2
  <2>2. \A r \in Request : Holds(r) /\ r.pc # "commit" => Holds(r)'
    BY <1>8, StillHolds
  <2>3. PICK r \in Request : r = req'[q] /\ Holds(r) /\ r.pc # "commit"
    BY <2>1
  <2>4. Holds(r)'
    BY <2>2, <2>3
  <2>. QED
    BY <2>3, <2>4 DEF Holds
<1>13. AcceptedAsOffered'
  BY <1>1, <1>2 DEF AcceptedAsOffered
<1>14. JoinedOnce'
  <2>1. ASSUME NEW j \in Mails, invitation'[j].state = "open"
        PROVE  invitation'[j].token # joined'
    <3>1. j # i /\ invitation'[j] = invitation[j]
      BY <1>5, <1>6, <2>1
    <3>. QED
      BY <1>1, <1>2, <2>1, <3>1
  <2>. QED
    BY <1>1, <1>2, <1>7, <2>1 DEF JoinedOnce
<1>15. UsedByOne'
  <2>1. Used = {}
    BY <1>1 DEF OnboardingInv, UsedByOne
  <2>2. Used' \subseteq {i}
    BY <1>6, <2>1 DEF Used
  <2>. QED
    BY <1>2, <2>2 DEF UsedByOne
<1>16. OneAtATime'
  <2>. SUFFICES ASSUME ~crowded PROVE Open' = {}
    BY <1>2 DEF OneAtATime
  <2>1. Open \subseteq {i}
    BY <1>1 DEF OnboardingInv, OneAtATime, At, i
  <2>2. i \notin Open'
    BY <1>1, <1>5, <1>6 DEF Open
  <2>. QED
    BY <1>8, <2>1, <2>2, Standing
<1>. QED
  BY <1>7, <1>8, <1>10, <1>11, <1>12, <1>13, <1>14, <1>15, <1>16, Standing DEF OnboardingInv

\* A step of nobody's request: a purge, or a step of the outbox.
LEMMA Elsewhere ==
    ASSUME OnboardingInv, MailInv', RowsStand, UNCHANGED <<account, req, joined, crowded>>,
           \A i \in Mails : invitation'[i].state = "used" => invitation[i].state = "used"
    PROVE  OnboardingInv'
<1>1. Written' = Written /\ Issued' = Issued /\ offered' = offered
  BY DEF RowsStand, Issued
<1>2. TypeOK'
  BY <1>1, Standing, Types DEF MailInv, OnboardingInv, TypeOK, RowsStand, At
<1>3. RoomIsKept'
  BY <1>1 DEF OnboardingInv, RoomIsKept, Inviting, At
<1>4. RequestsHold'
  <2>. SUFFICES ASSUME NEW q \in Procs PROVE Holds(req[q])'
    BY DEF RequestsHold
  <2>1. PICK r \in Request : r = req[q] /\ Holds(r)
    BY Types
  <2>2. r.pc = "commit" => account' = "none"
    BY <2>1 DEF Holds
  <2>3. Holds(r)'
    BY <2>1, <2>2, StillHolds
  <2>. QED
    BY <2>1, <2>3
<1>5. AcceptedAsOffered' /\ JoinedOnce'
  BY <1>1 DEF OnboardingInv, AcceptedAsOffered, JoinedOnce, RowsStand
<1>6. UsedByOne'
  BY DEF OnboardingInv, UsedByOne, Used
<1>7. OneAtATime'
  BY Standing DEF OnboardingInv, OneAtATime, At
<1>. QED
  BY <1>2, <1>3, <1>4, <1>5, <1>6, <1>7, Standing DEF OnboardingInv

LEMMA PurgeKeeps ==
    ASSUME OnboardingInv, NEW i \in Mails, PurgeInvitation(i)
    PROVE  OnboardingInv'
<1>. DEFINE x == [invitation[i] EXCEPT !.state = "purged"]
<1>1. /\ x \in Invitation /\ x.token = invitation[i].token /\ x.role = invitation[i].role
      /\ x.kind = invitation[i].kind /\ x.state = "purged"
  BY Types DEF Invitation
<1>2. invitation' = [invitation EXCEPT ![i] = x]
  BY DEF PurgeInvitation
<1>. HIDE DEF x
<1>3. /\ invitation' \in [Mails -> Invitation]
      /\ \A j \in Mails : invitation'[j] = IF j = i THEN x ELSE invitation[j]
  BY <1>1, <1>2, Types
<1>4. invitation[i].state # "none" /\ UNCHANGED <<mailVars, offered, account, req, joined, crowded>>
  BY DEF PurgeInvitation
<1>5. MailInv' /\ Written' = Written
  BY <1>4, MailAlone
<1>6. RowsStand
  BY <1>1, <1>3, <1>4, <1>5 DEF RowsStand, mailVars
<1>. QED
  BY <1>1, <1>3, <1>4, <1>5, <1>6, Elsewhere

LEMMA OutboxKeeps ==
    ASSUME OnboardingInv, EmailNext, UNCHANGED onboardingVars
    PROVE  OnboardingInv'
<1>1. MailInv' /\ RowsAreKept
  BY MailKeeps DEF OnboardingInv
<1>2. Written' = Written
  BY <1>1, Kept DEF OnboardingInv
<1>3. RowsStand
  BY <1>1, <1>2, Types DEF RowsStand, RowsAreKept, Keeps, onboardingVars
<1>. QED
  BY <1>1, <1>3, Elsewhere DEF onboardingVars


\* What the transaction of an invitation writes: a row j with the next link, that
\* offers the role of the request if it is valid.
LEMMA Storing ==
    ASSUME OnboardingInv, NEW p \in Procs, InviteCommit(p)
    PROVE  /\ req[p].pc = "invite" /\ req' = [req EXCEPT ![p] = NoRequest]
           /\ Issued + 1 \in Mails /\ Cardinality(Inviting) > 0
           /\ offered' = [offered EXCEPT ![Issued + 1] = req[p].role]
           /\ invitation' = invitation
              \/ \E j \in Mails, x \in Invitation :
                    /\ invitation' = [invitation EXCEPT ![j] = x]
                    /\ x.token = Issued + 1 /\ x.state \in {"open", invitation[j].state}
                    /\ Valid(x) => x.role = req[p].role
                    /\ x.state = "open" /\ invitation[j].state # "open" => req[p].found = 0
                    /\ req[p].found # 0 => req[p].found = j
<1>. DEFINE r == req[p]
            t == Issued + 1
<1>1. r \in Request /\ r.pc = "invite" /\ Holds(r)
  BY Types DEF InviteCommit, At
<1>2. req' = [req EXCEPT ![p] = NoRequest]
  BY DEF InviteCommit, Finish
<1>3. Cardinality(Inviting) > 0
  <2>1. Inviting \in SUBSET Procs /\ p \in Inviting
    BY <1>1 DEF Inviting, At
  <2>. QED
    BY <2>1, CountOne
<1>4. t \in Mails
  BY <1>3, Types DEF Mails
<1>5. invitation' = Stored(r, t) /\ offered' = [offered EXCEPT ![t] = r.role]
  BY DEF InviteCommit
<1>6. r.role \in Roles /\ r.found \in {0} \union Mails
  BY <1>1 DEF Request
<1>. HIDE DEF r, t
<1>7. CASE r.found = 0
  <2>. DEFINE x == [state |-> "open", token |-> t, role |-> r.role, kind |-> r.role = "client"]
  <2>1. invitation' = [invitation EXCEPT ![t] = x]
    BY <1>5, <1>7 DEF Stored
  <2>2. x \in Invitation /\ x.token = t /\ x.state = "open" /\ x.role = r.role
    BY <1>4, <1>6 DEF Invitation
  <2>. HIDE DEF x
  <2>3. \E j \in Mails, y \in Invitation :
           /\ invitation' = [invitation EXCEPT ![j] = y]
           /\ y.token = t /\ y.state \in {"open", invitation[j].state}
           /\ Valid(y) => y.role = r.role
           /\ y.state = "open" /\ invitation[j].state # "open" => r.found = 0
           /\ r.found # 0 => r.found = j
    BY <1>4, <1>7, <2>1, <2>2
  <2>. QED
    BY <1>1, <1>2, <1>3, <1>4, <1>5, <2>3 DEF r, t
<1>8. CASE r.found # 0 /\ invitation[r.found].state # "purged"
  <2>. DEFINE j == r.found
              x == [invitation[j] EXCEPT !.token = t, !.kind = TRUE]
  <2>1. j \in Mails /\ invitation[j] \in Invitation
    BY <1>6, <1>8, Types
  <2>2. invitation' = [invitation EXCEPT ![j] = x]
    BY <1>5, <1>8 DEF Stored
  <2>3. /\ x \in Invitation /\ x.token = t /\ x.state = invitation[j].state
        /\ x.kind = TRUE /\ x.role = invitation[j].role
    BY <1>4, <2>1 DEF Invitation
  <2>4. Valid(x) => x.role = r.role
    BY <1>1, <1>8, <2>3 DEF Holds, Valid
  <2>. HIDE DEF x
  <2>5. \E k \in Mails, y \in Invitation :
           /\ invitation' = [invitation EXCEPT ![k] = y]
           /\ y.token = t /\ y.state \in {"open", invitation[k].state}
           /\ Valid(y) => y.role = r.role
           /\ y.state = "open" /\ invitation[k].state # "open" => r.found = 0
           /\ r.found # 0 => r.found = k
    BY <1>8, <2>1, <2>2, <2>3, <2>4
  <2>. QED
    BY <1>1, <1>2, <1>3, <1>4, <1>5, <2>5 DEF r, t
<1>9. CASE r.found # 0 /\ invitation[r.found].state = "purged"
  <2>1. invitation' = invitation
    BY <1>5, <1>9 DEF Stored
  <2>. QED
    BY <1>1, <1>2, <1>3, <1>4, <1>5, <2>1 DEF r, t
<1>. QED
  BY <1>7, <1>8, <1>9

LEMMA InviteCommitKeeps ==
    ASSUME OnboardingInv, NEW p \in Procs, InviteCommit(p)
    PROVE  OnboardingInv'
<1>. DEFINE t == Issued + 1
<1>1. /\ req[p].pc = "invite" /\ req' = [req EXCEPT ![p] = NoRequest]
      /\ t \in Mails /\ Cardinality(Inviting) > 0
      /\ offered' = [offered EXCEPT ![t] = req[p].role]
  BY Storing
<1>2. /\ MailInv' /\ t \notin Written /\ Written' = Written \union {t} /\ Issued' = t
      /\ \A u \in Written : mail'[u] = mail[u]
  BY <1>1, WriteKeeps DEF InviteCommit, OnboardingInv
<1>3. /\ account' = account /\ joined' = joined
      /\ crowded' = (crowded \/ account # "none" \/ \E q \in Procs \ {p} : ~At(q, "idle"))
  BY DEF InviteCommit
<1>4. req[p] \in Request /\ req[p].role \in Roles
  BY Types DEF Request
\* The row that is written, if one is.
<1>5. PICK j \in Mails, x \in Invitation :
         /\ \/ invitation' = invitation
            \/ invitation' = [invitation EXCEPT ![j] = x]
         /\ x.token = t /\ x.state \in {"open", invitation[j].state}
         /\ Valid(x) => x.role = req[p].role
         /\ x.state = "open" /\ invitation[j].state # "open" => req[p].found \notin Mails
         /\ req[p].found # 0 => req[p].found = j \/ invitation' = invitation
  <2>1. CASE invitation' = invitation
    <3>. DEFINE y == [invitation[t] EXCEPT !.token = t, !.role = req[p].role]
    <3>1. invitation[t] \in Invitation
      BY <1>1, Types
    <3>2. y \in Invitation /\ y.token = t /\ y.state = invitation[t].state /\ y.role = req[p].role
      BY <1>1, <1>4, <3>1 DEF Invitation
    <3>. HIDE DEF y, t
    <3>. QED
      BY <1>1, <2>1, <3>2
  <2>2. CASE invitation' # invitation
    <3>1. PICK j \in Mails, x \in Invitation :
             /\ invitation' = [invitation EXCEPT ![j] = x]
             /\ x.token = t /\ x.state \in {"open", invitation[j].state}
             /\ Valid(x) => x.role = req[p].role
             /\ x.state = "open" /\ invitation[j].state # "open" => req[p].found = 0
             /\ req[p].found # 0 => req[p].found = j
      BY <2>2, Storing
    <3>2. 0 \notin Mails
      BY Types
    <3>. QED
      BY <3>1, <3>2
  <2>. QED
    BY <2>1, <2>2
<1>. HIDE DEF t
<1>6. /\ invitation' \in [Mails -> Invitation]
      /\ \A i \in Mails : invitation'[i] = invitation[i] \/ (i = j /\ invitation'[i] = x)
  BY <1>5, Types
<1>7. /\ offered' \in [Mails -> Roles \union {"none"}] /\ offered'[t] = req[p].role
      /\ \A u \in Written : offered'[u] = offered[u]
  BY <1>1, <1>2, <1>4, Types
<1>8. \A i \in Mails : invitation[i].state # "none" => invitation[i].token \in Written
  BY Types
<1>9. \A i \in Mails : invitation'[i].state # "none" => invitation'[i].token \in Written'
  BY <1>2, <1>5, <1>6, <1>8
<1>10. /\ req' \in [Procs -> Request]
       /\ \A q \in Procs : req'[q] = IF q = p THEN NoRequest ELSE req[q]
       /\ \A q, r \in Procs : At(q, "commit")' /\ At(r, "commit")' => q = r
       /\ Cardinality(Inviting)' \in Nat
       /\ Cardinality(Inviting)' = Cardinality(Inviting) - 1
  BY <1>1, OneRequest, Defaults DEF At
<1>11. TypeOK'
  <2>1. crowded' \in BOOLEAN
    BY <1>3
  <2>2. EmailTypeOK'
    BY <1>2 DEF MailInv
  <2>. QED
    BY <1>3, <1>6, <1>7, <1>9, <1>10, <2>1, <2>2, Types DEF TypeOK
<1>12. RoomIsKept'
  BY <1>2, <1>10, Types DEF RoomIsKept, t
<1>13. LinksAreOwn'
  <2>. SUFFICES ASSUME NEW i \in Mails, NEW k \in Mails,
                       invitation'[i].state # "none", invitation'[k].state # "none",
                       invitation'[i].token = invitation'[k].token
                PROVE  i = k
    BY DEF LinksAreOwn
  <2>1. CASE invitation'[i] = invitation[i] /\ invitation'[k] = invitation[k]
    BY <2>1 DEF OnboardingInv, LinksAreOwn
  <2>2. ASSUME NEW l \in Mails, invitation'[l] = invitation[l], invitation'[l].state # "none"
        PROVE  invitation'[l].token # t
    BY <1>2, <1>8, <2>2
  <2>. QED
    BY <1>5, <1>6, <2>1, <2>2
<1>14. RolesAgree'
  <2>. SUFFICES ASSUME NEW i \in Mails, invitation'[i].state # "none", Valid(invitation'[i])
                PROVE  invitation'[i].role = offered'[invitation'[i].token]
    BY DEF RolesAgree, Valid
  <2>1. CASE invitation'[i] = invitation[i]
    <3>1. invitation[i].token \in Written /\ invitation[i].role = offered[invitation[i].token]
      BY <1>8, <2>1 DEF OnboardingInv, RolesAgree
    <3>. QED
      BY <1>7, <2>1, <3>1
  <2>2. CASE i = j /\ invitation'[i] = x
    BY <1>5, <1>7, <2>2
  <2>. QED
    BY <1>6, <2>1, <2>2
<1>15. RequestsHold'
  <2>. SUFFICES ASSUME NEW q \in Procs PROVE Holds(req[q])'
    BY DEF RequestsHold
  <2>1. CASE q = p
    <3>1. req'[q] = NoRequest
      BY <1>10, <2>1
    <3>. QED
      BY <3>1, Defaults DEF Holds, Accepts
  <2>2. CASE q # p
    <3>1. req'[q] = req[q] /\ Holds(req[q])
      BY <1>10, <2>2, Types
    <3>2. ASSUME Accepts(req[q]), NEW i \in Mails, invitation'[i].state # "none",
                 invitation'[i].token = req[q].row.token
          PROVE  i = req[q].found
      <4>1. req[q].row.token # t
        BY <1>2, <3>1, <3>2 DEF Holds
      <4>2. invitation'[i] = invitation[i]
        BY <1>5, <1>6, <3>2, <4>1
      <4>. QED
        BY <3>1, <3>2, <4>2 DEF Holds
    <3>3. Accepts(req[q]) => offered'[req[q].row.token] = offered[req[q].row.token]
      BY <1>7, <3>1 DEF Holds
    <3>. QED
      BY <1>2, <1>3, <3>1, <3>2, <3>3 DEF Holds, Accepts, Valid
  <2>. QED
    BY <2>1, <2>2
<1>16. AcceptedAsOffered'
  BY <1>3, <1>7 DEF OnboardingInv, AcceptedAsOffered, JoinedOnce
<1>17. JoinedOnce'
  <2>1. joined # t
    BY <1>1, <1>2, Types DEF OnboardingInv, JoinedOnce
  <2>. QED
    BY <1>2, <1>3, <1>5, <1>6, <2>1 DEF OnboardingInv, JoinedOnce
<1>18. UsedByOne'
  <2>1. Used' \subseteq Used
    BY <1>5, <1>6 DEF Used
  <2>. QED
    BY <1>3, <2>1 DEF OnboardingInv, UsedByOne
<1>19. OneAtATime'
  <2>. SUFFICES ASSUME ~crowded, account = "none", \A q \in Procs \ {p} : At(q, "idle")
                PROVE  /\ \A i, k \in Open' : i = k
                       /\ \A q \in Procs : ~At(q, "idle")' => Open' \subseteq {req'[q].found}
    BY <1>3 DEF OneAtATime
  <2>1. \A q \in Procs : At(q, "idle")'
    BY <1>10, Defaults DEF At
  <2>2. Open \subseteq {req[p].found}
    BY <1>1 DEF OnboardingInv, OneAtATime, At
  <2>3. ASSUME NEW i \in Mails, i \in Open', invitation'[i] = invitation[i]
        PROVE  i \in Open
    <3>1. mail'[invitation[i].token] = mail[invitation[i].token]
      BY <1>2, <1>8, <2>3 DEF Open
    <3>. QED
      BY <2>3, <3>1 DEF Open, Over
  <2>4. Open' \subseteq Mails
    BY DEF Open
  <2>5. CASE req[p].found = 0
    <3>1. Open = {}
      BY <2>2, <2>5, Types DEF Open
    <3>2. Open' \subseteq {j}
      BY <1>6, <2>3, <2>4, <3>1
    <3>. QED
      BY <2>1, <3>2
  <2>6. CASE req[p].found # 0
    <3>1. \A i \in Open' : i \in Open \/ (i = j /\ invitation' # invitation)
      BY <1>6, <2>3, <2>4
    <3>2. Open' \subseteq {req[p].found}
      BY <1>5, <2>2, <2>6, <3>1
    <3>. QED
      BY <2>1, <3>2
  <2>. QED
    BY <2>5, <2>6
<1>. QED
  BY <1>2, <1>11, <1>12, <1>13, <1>14, <1>15, <1>16, <1>17, <1>18, <1>19 DEF OnboardingInv


-----------------------------------------------------------------------------
(* The theorems *)

LEMMA InitHolds == Init => OnboardingInv
<1>. SUFFICES ASSUME Init PROVE OnboardingInv
  OBVIOUS
<1>1. MailInv /\ Written = {} /\ Issued = 0
  BY MailInit
<1>2. /\ invitation = [i \in Mails |-> NoInvitation] /\ offered = [t \in Mails |-> "none"]
      /\ account = "none" /\ req = [p \in Procs |-> NoRequest] /\ joined = 0 /\ crowded = FALSE
  BY DEF Init
<1>3. NoInvitation.state = "none" /\ NoInvitation.token = 0
  BY DEF NoInvitation
<1>4. TypeOK
  BY <1>1, <1>2, <1>3, Defaults DEF MailInv, TypeOK, At
<1>5. RoomIsKept
  <2>1. Inviting = {}
    BY <1>2, Defaults DEF Inviting, At
  <2>2. Cardinality(Inviting) = 0
    BY <2>1, FS_EmptySet
  <2>. QED
    BY <1>1, <2>2, EmailAssumption DEF RoomIsKept
<1>6. \A i \in Mails : invitation[i].state = "none"
  BY <1>2, <1>3
<1>7. \A p \in Procs : Holds(req[p]) /\ At(p, "idle")
  BY <1>2, Defaults DEF At
<1>8. Open = {} /\ Used = {}
  BY <1>6 DEF Open, Used
<1>9. /\ LinksAreOwn /\ RolesAgree /\ RequestsHold /\ AcceptedAsOffered
      /\ JoinedOnce /\ UsedByOne /\ OneAtATime
  BY <1>2, <1>6, <1>7, <1>8 DEF LinksAreOwn, RolesAgree, RequestsHold, AcceptedAsOffered,
                               JoinedOnce, UsedByOne, OneAtATime
<1>. QED
  BY <1>1, <1>4, <1>5, <1>9 DEF OnboardingInv

LEMMA NextKeeps == OnboardingInv /\ [Next]_vars => OnboardingInv'
<1>. SUFFICES ASSUME OnboardingInv, [Next]_vars PROVE OnboardingInv'
  OBVIOUS
<1>1. ASSUME NEW p \in Procs, NEW role \in Roles, InviteRead(p, role) PROVE OnboardingInv'
  BY <1>1, InviteReadKeeps
<1>2. ASSUME NEW p \in Procs, InviteCommit(p) PROVE OnboardingInv'
  BY <1>2, InviteCommitKeeps
<1>3. ASSUME NEW p \in Procs, NEW t \in Mails, AcceptRead(p, t) PROVE OnboardingInv'
  BY <1>3, AcceptReadKeeps
<1>4. ASSUME NEW p \in Procs, Create(p) \/ AcceptCommit(p) \/ Abort(p) PROVE OnboardingInv'
  BY <1>4, CreateKeeps, AcceptCommitKeeps, AbortKeeps
<1>5. ASSUME NEW i \in Mails, PurgeInvitation(i) PROVE OnboardingInv'
  BY <1>5, PurgeKeeps
<1>6. CASE EmailNext /\ UNCHANGED onboardingVars
  BY <1>6, OutboxKeeps
<1>7. CASE UNCHANGED vars
  <2>1. UNCHANGED mailVars /\ UNCHANGED onboardingVars
    BY <1>7 DEF vars
  <2>2. MailInv' /\ Written' = Written
    BY <2>1, MailAlone
  <2>3. RowsStand
    BY <2>1, <2>2, Types DEF RowsStand, mailVars, onboardingVars
  <2>. QED
    BY <2>1, <2>2, <2>3, Elsewhere DEF onboardingVars
<1>. QED
  BY Zenon, <1>1, <1>2, <1>3, <1>4, <1>5, <1>6, <1>7 DEF Next

\* The inductive invariant holds: requests hold what they have read, and what a
\* commit finds later than that differs in nothing that it uses.
THEOREM OnboardingInvariant == Spec => []OnboardingInv
<1>. QED
  BY InitHolds, NextKeeps, PTL DEF Spec

\* Tables, workers and requests hold what they can hold, and there is a row left for
\* every e-mail that is about to be written.
THEOREM TypeCorrect == Spec => []TypeOK
<1>1. OnboardingInv => TypeOK
  BY DEF OnboardingInv
<1>. QED
  BY <1>1, OnboardingInvariant, PTL

\* The account has the role that the e-mail named by which it was made: an
\* invitation that was renewed for another role makes no valid user, and nobody
\* renews the row that an acceptance has read.
THEOREM RoleIsOffered == Spec => []AcceptedAsOffered
<1>1. OnboardingInv => AcceptedAsOffered
  BY DEF OnboardingInv
<1>. QED
  BY <1>1, OnboardingInvariant, PTL

\* Invitations are used up by the one account alone, and its own is, whatever
\* overlaps.
THEOREM OneIsSpent == Spec => []OneInvitationIsSpent
<1>1. OnboardingInv => OneInvitationIsSpent
  <2>. SUFFICES ASSUME OnboardingInv PROVE OneInvitationIsSpent
    OBVIOUS
  <2>1. Cardinality(Used) <= IF account = "none" THEN 0 ELSE 1
    <3>1. CASE Used = {}
      BY <3>1, FS_EmptySet
    <3>2. CASE Used # {}
      <4>1. PICK i : i \in Used
        BY <3>2
      <4>2. Used = {i} /\ account # "none"
        BY <4>1 DEF OnboardingInv, UsedByOne
      <4>3. Cardinality(Used) = 1
        BY <4>2, FS_Singleton
      <4>. QED
        BY <4>2, <4>3
    <3>. QED
      BY <3>1, <3>2
  <2>2. \A i \in Open : invitation[i].token # joined
    BY DEF OnboardingInv, JoinedOnce, Open
  <2>. QED
    BY <2>1, <2>2 DEF OneInvitationIsSpent, Used
<1>. QED
  BY <1>1, OnboardingInvariant, PTL

\* The address has one open invitation, and none once it has an account, unless an
\* invitation overlapped another or an acceptance.
THEOREM OneIsOpen == Spec => []OneOpenInvitation
<1>1. OnboardingInv => OneOpenInvitation
  <2>. SUFFICES ASSUME OnboardingInv, ~crowded
                PROVE  Cardinality(Open) <= IF account = "none" THEN 1 ELSE 0
    BY DEF OneOpenInvitation
  <2>1. CASE Open = {}
    BY <2>1, FS_EmptySet
  <2>2. CASE Open # {}
    <3>1. PICK i : i \in Open
      BY <2>2
    <3>2. Open = {i} /\ account = "none"
      BY <3>1 DEF OnboardingInv, OneAtATime
    <3>3. Cardinality(Open) = 1
      BY <3>2, FS_Singleton
    <3>. QED
      BY <3>2, <3>3
  <2>. QED
    BY <2>1, <2>2
<1>. QED
  BY <1>1, OnboardingInvariant, PTL

\* The link of an invitation that can be accepted is on its way to the address or
\* was there, whatever workers did to the row of its e-mail: a row is marked as
\* published once it was handed over, and given up once it is too old.
THEOREM LinksAreMailed == Spec => []OpenInvitationsAreMailed
<1>1. OnboardingInv => OpenInvitationsAreMailed
  <2>. SUFFICES ASSUME OnboardingInv, NEW i \in Open
                PROVE  \/ invitation[i].token \in sent
                       \/ mail[invitation[i].token].status \in {"pending", "failed"}
    BY DEF OpenInvitationsAreMailed
  <2>. DEFINE t == invitation[i].token
  <2>1. i \in Mails /\ invitation[i].state = "open" /\ ~mail[t].over
    BY DEF Open, Over
  <2>2. t \in Written /\ t \in Mails
    BY <2>1, Types
  <2>3. mail[t] \in Mail /\ mail[t].status # "none" /\ Tells(mail[t], t \in sent)
    BY <2>2, WorkerTypes DEF OnboardingInv, MailInv, StatusesTell, Written
  <2>. QED
    BY <2>1, <2>3 DEF Tells, Mail
<1>. QED
  BY <1>1, OnboardingInvariant, PTL

\* The outbox implements the safety of AtLeastOnce: nothing is handed over or given
\* up that no transaction has written, no e-mail that was written is taken back, and
\* one that cannot be decrypted stays so.
THEOREM MailIsAtLeastOnce == Spec => Promise!Safety
<1>1. Init => Promise!Init
  BY MailInit DEF Promise!Init, Init, EmailInit, Unreadable
<1>2. OnboardingInv /\ [Next]_vars => [Promise!Next]_(Promise!vars)
  <2>. SUFFICES ASSUME OnboardingInv, [Next]_vars
                PROVE  Promise!Next \/ UNCHANGED Promise!vars
    OBVIOUS
  <2>. DEFINE Settled == sent \union overdue \union Unreadable
  <2>1. ASSUME Written' = Written, Settled' = Settled
        PROVE  UNCHANGED Promise!vars
    BY <2>1 DEF Promise!vars
  <2>2. ASSUME Written' = Written, NEW t \in Written, Settled' = Settled \union {t}
        PROVE  Promise!Next
    <3>1. t \in Mails
      BY <2>2, Types
    <3>2. Promise!Deliver(t)
      BY <2>2 DEF Promise!Deliver
    <3>. QED
      BY <3>1, <3>2 DEF Promise!Next
  <2>3. ASSUME NEW p \in Procs, InviteCommit(p) PROVE Promise!Next
    <3>1. Issued + 1 \in Mails
      BY <2>3, Storing
    <3>2. Written' = Written \union {Issued + 1} /\ Settled' = Settled
      <4>1. UNCHANGED <<sent, overdue>>
        BY <2>3 DEF InviteCommit
      <4>2. /\ Written' = Written \union {Issued + 1} /\ mail'[Issued + 1].readable = TRUE
            /\ \A t \in Written : mail'[t] = mail[t]
        BY <2>3, <3>1, WriteKeeps DEF InviteCommit, OnboardingInv
      <4>3. Unreadable' = Unreadable
        BY <4>2 DEF Unreadable
      <4>. QED
        BY <4>1, <4>2, <4>3
    <3>3. Promise!Commit({Issued + 1}) /\ {Issued + 1} \in SUBSET Mails
      BY <3>1, <3>2 DEF Promise!Commit
    <3>. QED
      BY <3>3 DEF Promise!Next
  <2>4. CASE EmailNext
    <3>1. Written' = Written
      BY <2>4, MailKeeps, Kept DEF OnboardingInv
    <3>2. ASSUME NEW w \in Workers, Step(w) \/ Interrupt(w) \/ Tick(w)
          PROVE  Promise!Next \/ UNCHANGED Promise!vars
      <4>1. worker[w].pc # "idle" => Current(w) \in Written
        BY WorkerTypes DEF OnboardingInv
      <4>2. Unreadable' = Unreadable
        <5>1. \A t \in Mails : mail'[t].readable = mail[t].readable
          BY <3>2, WorkerReads DEF OnboardingInv
        <5>2. Written \subseteq Mails
          BY DEF Written
        <5>. QED
          BY <3>1, <5>1, <5>2 DEF Unreadable
      <4>3. \/ UNCHANGED <<sent, overdue>>
            \/ /\ worker[w].pc # "idle"
               /\ (sent \union overdue)' = (sent \union overdue) \union {Current(w)}
        <5>1. CASE Expire(w)
          BY <5>1 DEF Expire, Reads
        <5>2. CASE Dispatch(w)
          BY <5>2 DEF Dispatch, Reads
        <5>3. CASE DispatchFails(w)
          BY <5>3 DEF DispatchFails, Reads
        <5>. QED
          BY <3>2, <5>1, <5>2, <5>3
             DEF Step, DecryptFails, Mark, MarkFailed, Backoff, Interrupt, Tick
      <4>. QED
        BY <2>1, <2>2, <3>1, <4>1, <4>2, <4>3
    <3>3. ASSUME NEW t \in Mails, Elapse(t) \/ Age(t) \/ PurgeMail(t)
          PROVE  UNCHANGED Promise!vars
      <4>1. UNCHANGED <<sent, overdue>>
        BY <3>3 DEF Elapse, Age, PurgeMail
      <4>2. \A u \in Mails : mail'[u].readable = mail[u].readable
        BY <3>3, WorkerTypes DEF Elapse, Age, PurgeMail, Mail, OnboardingInv
      <4>3. Unreadable' = Unreadable
        BY <3>1, <4>2, Types DEF Unreadable
      <4>. QED
        BY <2>1, <3>1, <4>1, <4>3
    <3>4. ASSUME NEW t \in Mails, MakeUnreadable(t)
          PROVE  Promise!Next
      <4>1. UNCHANGED <<sent, overdue>> /\ t \in Written
        BY <3>4 DEF MakeUnreadable, Written
      <4>2. \A u \in Mails : mail'[u].readable = IF u = t THEN FALSE ELSE mail[u].readable
        BY <3>4, WorkerTypes DEF MakeUnreadable, Mail, OnboardingInv
      <4>3. Unreadable' = Unreadable \union {t}
        BY <3>1, <4>1, <4>2, Types DEF Unreadable
      <4>. QED
        BY <2>2, <3>1, <4>1, <4>3
    <3>. QED
      BY Zenon, <2>4, <3>2, <3>3, <3>4 DEF EmailNext
  <2>5. ASSUME UNCHANGED mailVars PROVE UNCHANGED Promise!vars
    <3>1. Written' = Written
      BY <2>5, MailAlone DEF mailVars
    <3>2. Settled' = Settled
      BY <2>5, <3>1 DEF mailVars, Unreadable
    <3>. QED
      BY <2>1, <3>1, <3>2
  <2>6. \/ UNCHANGED mailVars
        \/ EmailNext
        \/ \E p \in Procs : InviteCommit(p)
    BY Zenon DEF Next, vars, InviteRead, AcceptRead, Create, AcceptCommit, Abort, PurgeInvitation
  <2>. QED
    BY <2>3, <2>4, <2>5, <2>6
<1>. QED
  BY <1>1, <1>2, OnboardingInvariant, PTL DEF Spec, Promise!Safety
=============================================================================
