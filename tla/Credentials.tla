----------------------------- MODULE Credentials -----------------------------
(***************************************************************************)
(* The credentials of an account: its password, the counter of failed      *)
(* logins and the lock, the verification of its e-mail, and the links that *)
(* are mailed to it: resets of the password and verifications.  One        *)
(* account, since no operation here touches two; it stays active.         *)
(*                                                                         *)
(* A request of Procs takes its steps as in Sessions: one statement each,  *)
(* READ COMMITTED, an UPDATE waits for the row lock of an open             *)
(* transaction.  updateUserById reads the row, and later writes all of it. *)
(* A request that is refused before its first write is not an action.      *)
(* What ends with the password besides (sessions, access tokens) is in     *)
(* Sessions and AccessTokens.                                              *)
(***************************************************************************)
EXTENDS Integers, FiniteSets

CONSTANTS Procs,        \* requests that may be in flight together
          MaxLinks,     \* bound on the links ever mailed
          MaxChanges,   \* bound on the changes of the password
          MaxFailures,  \* bound on the counter of failed logins
          MaxAttempts,  \* LOGIN_LOCKOUT_MAX_ATTEMPTS
          MaxPerDay     \* PASSWORD_RESET_MAX_PER_DAY

ASSUME CredentialsAssumption ==
    /\ IsFiniteSet(Procs)
    /\ MaxLinks \in Nat /\ MaxChanges \in Nat /\ MaxFailures \in Nat
    /\ MaxAttempts \in Nat \ {0} /\ MaxPerDay \in Nat \ {0}

VARIABLES
    user,       \* the row of users, as committed
    link,       \* password_resets and email_verifications
    issued,     \* how many links were ever mailed
    req,        \* the request each process runs
    \* History, read by no action's guard:
    changes,    \* how many changes of the password were committed
    confirmed,  \* whether a verification of the e-mail was
    strikes,    \* wrong passwords counted since the counter was last cleared, or
                \* -1 once a count was lost since then, or the lock
    lost,       \* columns over which a stale row was written
    earlier,    \* links mailed before the last change of the password
    late,       \* requests that have a link in hand which another has ended since
    respent,    \* links that were of use after they had been ended, and not to those
    crowded     \* whether two requests for a reset link overlapped

linking == <<earlier, late, respent, crowded>>
history == <<changes, confirmed, strikes, lost, linking>>
vars == <<user, link, issued, req, history>>

Links == 1..MaxLinks

\* lock: lockedUntil is null, in the future, or in the past.
User == [password : 0..MaxChanges, failed : Nat, lock : {"no", "on", "over"},
         verified : BOOLEAN]

\* age of a reset: 1 after PASSWORD_RESET_MIN_INTERVAL_MS, 2 after its TTL of an
\* hour, 3 after a day; of a verification: 1 after its TTL of two days.
Oldest(kind) == IF kind = "reset" THEN 3 ELSE 1
Link == [kind : {"reset", "verify"}, state : {"none", "open", "used", "purged"},
         age : 0..3]

\* row: the row it has read.  count: the failed logins it has read.  link: the
\* link it has in hand (0: none).  seen: how many links had been mailed when its
\* transaction marked them used.
Request == [pc : {"idle", "clear", "compare", "count", "select", "update", "commit",
                  "insert"},
            op : {"none", "login", "change", "reset", "verify"},
            row : User, count : Nat, link : 0..MaxLinks, seen : 0..MaxLinks]

NewUser == [password |-> 0, failed |-> 0, lock |-> "no", verified |-> FALSE]
Idle == [pc |-> "idle", op |-> "none", row |-> NewUser, count |-> 0, link |-> 0,
         seen |-> 0]

Init ==
    /\ user = NewUser
    /\ link = [t \in Links |-> [kind |-> "reset", state |-> "none", age |-> 0]]
    /\ issued = 0
    /\ req = [p \in Procs |-> Idle]
    /\ changes = 0 /\ confirmed = FALSE
    /\ strikes = 0 /\ lost = {}
    /\ earlier = {} /\ late = {} /\ respent = {} /\ crowded = FALSE

-----------------------------------------------------------------------------
(* Rows and locks *)

At(p, pc) == req[p].pc = pc
Goto(p, pc) == req' = [req EXCEPT ![p].pc = pc]
Start(p, r) == At(p, "idle") /\ req' = [req EXCEPT ![p] = r]
Finish(p) == req' = [req EXCEPT ![p] = Idle]

\* Mutant: an UPDATE does not wait.
UnlockedAlways == TRUE

\* No transaction has updated the row and not yet committed.
Unlocked == \A q \in Procs : ~At(q, "commit")

Expiry(kind) == IF kind = "reset" THEN 2 ELSE 1
Expired(t) == link[t].age >= Expiry(link[t].kind)
Usable(t) == link[t].state = "open" /\ ~Expired(t)

\* Counter and lock are cleared, as committed.
Cleared == [user EXCEPT !.failed = 0, !.lock = "no"]

-----------------------------------------------------------------------------
(* login *)

\* The account is read; a lock that is on refuses the request.
LoginRead(p) ==
    /\ user.lock # "on"
    /\ Start(p, [Idle EXCEPT !.pc = IF user.lock = "over" THEN "clear" ELSE "compare",
                             !.op = "login"])
    /\ UNCHANGED <<user, link, issued, history>>

\* clearExpiredAccountLock, of a lock that is over by then too.
ClearLock(p) ==
    /\ At(p, "clear") /\ Unlocked
    /\ IF user.lock = "over"
       THEN user' = Cleared /\ strikes' = 0
       ELSE UNCHANGED <<user, strikes>>
    /\ Goto(p, "compare")
    /\ UNCHANGED <<link, issued, changes, confirmed, lost, linking>>

\* The password matches the hash that was read: markSuccessfulLogin.
LoginCommit(p) ==
    /\ At(p, "compare") /\ Unlocked
    /\ user' = Cleared /\ strikes' = 0
    /\ Finish(p)
    /\ UNCHANGED <<link, issued, changes, confirmed, lost, linking>>

\* It does not, recordFailedLoginAttempt: the SELECT,
FailRead(p) ==
    /\ At(p, "compare") /\ user.failed < MaxFailures
    /\ req' = [req EXCEPT ![p].pc = "count", ![p].count = user.failed]
    /\ UNCHANGED <<user, link, issued, history>>

\* Mutant: the account is locked one attempt later.
FailWriteLate(p) ==
    LET next == req[p].count + 1
    IN  /\ At(p, "count") /\ Unlocked
        /\ user' = [user EXCEPT !.failed = next,
                                !.lock = IF next > MaxAttempts THEN "on" ELSE @]
        /\ strikes' = IF strikes = -1 \/ req[p].count # user.failed THEN -1
                      ELSE strikes + 1
        /\ Finish(p)
        /\ UNCHANGED <<link, issued, changes, confirmed, lost, linking>>

\* and the UPDATE of the two columns.
FailWrite(p) ==
    LET next == req[p].count + 1
    IN  /\ At(p, "count") /\ Unlocked
        /\ user' = [user EXCEPT !.failed = next,
                                !.lock = IF next >= MaxAttempts THEN "on" ELSE @]
        /\ strikes' = IF strikes = -1 \/ req[p].count # user.failed THEN -1
                      ELSE strikes + 1
        /\ Finish(p)
        /\ UNCHANGED <<link, issued, changes, confirmed, lost, linking>>

-----------------------------------------------------------------------------
(* changePassword, resetPassword, verifyEmailWithToken *)

\* Bound: a change starts only if MaxChanges leaves room for it.
HasRoomToChange ==
    changes + Cardinality({q \in Procs : req[q].op \in {"change", "reset"}}) < MaxChanges

\* The old password is right.
ChangeStart(p) ==
    /\ HasRoomToChange
    /\ Start(p, [Idle EXCEPT !.pc = "select", !.op = "change"])
    /\ UNCHANGED <<user, link, issued, history>>

\* Mutant: a link is not asked whether it was used.
LinkStartUnchecked(p, t) ==
    /\ link[t].state \in {"open", "used"} /\ ~Expired(t)
    /\ link[t].kind = "reset" => HasRoomToChange
    /\ Start(p, [Idle EXCEPT !.pc = "select", !.op = link[t].kind, !.link = t])
    /\ UNCHANGED <<user, link, issued, history>>

\* The link is found, not used and not expired.
LinkStart(p, t) ==
    /\ Usable(t)
    /\ link[t].kind = "reset" => HasRoomToChange
    /\ Start(p, [Idle EXCEPT !.pc = "select", !.op = link[t].kind, !.link = t])
    /\ UNCHANGED <<user, link, issued, history>>

\* updateUserById: the SELECT,
Select(p) ==
    /\ At(p, "select")
    /\ req' = [req EXCEPT ![p].pc = "update", ![p].row = user]
    /\ UNCHANGED <<user, link, issued, history>>

\* and the UPDATE, which takes the row lock, with the mark...AsUsed after it:
\* nothing that comes between the two could not have come before both.
Update(p) ==
    /\ At(p, "update") /\ Unlocked
    /\ req' = [req EXCEPT ![p].pc = "commit", ![p].seen = issued]
    /\ UNCHANGED <<user, link, issued, history>>

\* Mutant: a new password asks for a new verification.
WrittenAfresh(r) ==
    IF r.op = "verify" THEN [r.row EXCEPT !.verified = TRUE]
    ELSE [NewUser EXCEPT !.password = changes + 1]

\* The row that is written: the patch over the row that was read.
Written(r) ==
    IF r.op = "verify" THEN [r.row EXCEPT !.verified = TRUE]
    ELSE [r.row EXCEPT !.password = changes + 1, !.failed = 0, !.lock = "no"]

\* Mutant: the other links of the account are left as they are.
EndedOwn(r) == {r.link} \ {0}

\* The links it marks used; a change of the password, all that are unused.
Ended(r) == ({r.link} \ {0}) \union
            (IF r.op = "verify" THEN {} ELSE {t \in 1..r.seen : link[t].state = "open"})

Commit(p) ==
    LET r == req[p]
    IN  /\ At(p, "commit")
        /\ user' = Written(r)
        /\ link' = [t \in Links |->
                      IF t \in Ended(r) /\ link[t].state = "open"
                      THEN [link[t] EXCEPT !.state = "used"] ELSE link[t]]
        /\ Finish(p)
        /\ IF r.op = "verify"
           THEN /\ strikes' = IF r.row.failed = user.failed /\ r.row.lock = user.lock
                              THEN strikes ELSE -1
                /\ lost' = (lost \ {"verified"}) \union
                           (IF r.row.password # user.password THEN {"password"} ELSE {})
                /\ confirmed' = TRUE
                /\ UNCHANGED <<changes, earlier>>
           ELSE /\ strikes' = 0
                /\ lost' = (lost \ {"password"}) \union
                           (IF r.row.verified # user.verified THEN {"verified"} ELSE {})
                /\ changes' = changes + 1
                /\ earlier' = 1..r.seen
                /\ UNCHANGED confirmed
        /\ late' = (late \union {q \in Procs : req[q].link \in Ended(r)}) \ {p}
        /\ respent' = respent \union {t \in {r.link} \ {0} :
                                      link[t].state = "used" /\ p \notin late}
        /\ UNCHANGED <<issued, crowded>>

-----------------------------------------------------------------------------
(* forgotPassword, requestEmailVerification *)

\* Bound: one of MaxLinks is left for the request.
HasRoomToMail == issued + Cardinality({q \in Procs : At(q, "insert")}) < MaxLinks

Resets(age) == {t \in Links : /\ link[t].kind = "reset" /\ link[t].age < age
                              /\ link[t].state \in {"open", "used"}}

\* Mutant: the limit of a day is not looked at.
ThrottledByInterval == Resets(1) # {}

\* findLatestPasswordResetForUser and countPasswordResetsForUserSince
Throttled == Resets(1) # {} \/ Cardinality(Resets(3)) >= MaxPerDay

\* The throttle lets the request pass.
ForgotRead(p) ==
    /\ ~Throttled /\ HasRoomToMail
    /\ Start(p, [Idle EXCEPT !.pc = "insert", !.op = "reset"])
    /\ UNCHANGED <<user, link, issued, history>>

\* The e-mail is not verified.
VerificationRead(p) ==
    /\ ~user.verified /\ HasRoomToMail
    /\ Start(p, [Idle EXCEPT !.pc = "insert", !.op = "verify"])
    /\ UNCHANGED <<user, link, issued, history>>

\* The transaction that inserts the link, and the e-mail with it.
Insert(p) ==
    LET t == issued + 1
    IN  /\ At(p, "insert")
        /\ issued' = t
        /\ link' = [link EXCEPT ![t] = [kind |-> req[p].op, state |-> "open", age |-> 0]]
        /\ Finish(p)
        /\ crowded' = (crowded \/ /\ req[p].op = "reset"
                                  /\ \E q \in Procs \ {p} :
                                        At(q, "insert") /\ req[q].op = "reset")
        /\ UNCHANGED <<user, changes, confirmed, strikes, lost, earlier, late, respent>>

-----------------------------------------------------------------------------
(* Around them *)

\* An error or a crash before COMMIT.
Abort(p) ==
    /\ ~At(p, "idle")
    /\ Finish(p)
    /\ late' = late \ {p}
    /\ UNCHANGED <<user, link, issued, changes, confirmed, strikes, lost, earlier,
                   respent, crowded>>

Over(row) == IF row.lock = "on" THEN [row EXCEPT !.lock = "over"] ELSE row

\* lockedUntil passes: that of the rows requests have read, which cannot be
\* later, or that of the account too.
LockEnds ==
    /\ \E all \in BOOLEAN : user' = IF all THEN Over(user) ELSE user
    /\ req' = [p \in Procs |-> [req[p] EXCEPT !.row = Over(@)]]
    /\ UNCHANGED <<link, issued, history>>

\* Time passes: an older reset is further on, and is over when a verification is.
Age(t) ==
    /\ link[t].state # "none" /\ link[t].age < Oldest(link[t].kind)
    /\ \A s \in 1..t - 1 :
          \/ link[s].age = Oldest(link[s].kind)
          \/ link[t].kind = "reset" /\ (link[s].kind = "reset" => link[s].age > link[t].age)
    /\ link' = [link EXCEPT ![t].age = @ + 1]
    /\ UNCHANGED <<user, issued, req, history>>

\* purgeStaleAuthArtifacts: whatever was used is expired long before it is stale.
Purge(t) ==
    /\ link[t].state \in {"open", "used"} /\ Expired(t)
    /\ link' = [link EXCEPT ![t].state = "purged"]
    /\ UNCHANGED <<user, issued, req, history>>

Next ==
    \/ \E p \in Procs :
          \/ LoginRead(p) \/ ClearLock(p) \/ LoginCommit(p) \/ FailRead(p) \/ FailWrite(p)
          \/ ChangeStart(p) \/ \E t \in Links : LinkStart(p, t)
          \/ Select(p) \/ Update(p) \/ Commit(p)
          \/ ForgotRead(p) \/ VerificationRead(p) \/ Insert(p)
          \/ Abort(p)
    \/ LockEnds
    \/ \E t \in Links : Age(t) \/ Purge(t)

Spec == Init /\ [][Next]_vars

-----------------------------------------------------------------------------
(* Properties *)

\* Rows and requests hold what they can hold; one transaction has the row lock.
TypeOK ==
    /\ user \in User
    /\ link \in [Links -> Link]
    /\ issued \in 0..MaxLinks
    /\ \A t \in Links : link[t].state = "none" <=> t > issued
    /\ req \in [Procs -> Request]
    /\ \A p, q \in Procs : At(p, "commit") /\ At(q, "commit") => p = q
    /\ changes \in 0..MaxChanges /\ strikes \in Nat \union {-1}
    /\ confirmed \in BOOLEAN /\ crowded \in BOOLEAN /\ lost \subseteq {"password", "verified"}
    /\ earlier \subseteq Links /\ late \subseteq Procs /\ respent \subseteq Links

\* MaxAttempts wrong passwords in a row lock the account, however logins, resets
\* and verifications interleave, unless a count got lost: two failing logins read
\* the same counter, or a verification wrote back the row it had read before.
FailuresLockTheAccount == strikes >= MaxAttempts => user.lock # "no"

\* The password is the one last set and the e-mail stays verified, unless a
\* transaction wrote back a row it had read before the other committed.
CommittedChangesStand ==
    /\ "password" \notin lost => user.password = changes
    /\ "verified" \notin lost => user.verified = confirmed

\* A link that was used, or ended by a change of the password, is of no more
\* use, but to a request that had found it open before.
LinksWorkOnce == respent = {}

\* A change of the password ends all links mailed before its last statement.
ChangeEndsEarlierLinks == \A t \in earlier : ~Usable(t)

\* One reset link at a time and MaxPerDay in a day, unless two requests passed
\* the throttle together or the cleanup deleted one of that day: it deletes what
\* has expired, and a link expires long before the day is over.
ResetsAreThrottled ==
    LET mailed(age) == {t \in 1..issued : link[t].kind = "reset" /\ link[t].age < age}
    IN  ~crowded => /\ Cardinality(mailed(1)) <= 1
                    /\ \/ Cardinality(mailed(3)) <= MaxPerDay
                       \/ \E t \in mailed(3) : link[t].state = "purged"
=============================================================================
