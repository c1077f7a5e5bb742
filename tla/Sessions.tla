------------------------------ MODULE Sessions ------------------------------
(***************************************************************************)
(* Refresh-token sessions of crm-auth and the account operations that end  *)
(* them: login, refreshSession, logout, revokeMySession, resetPassword,    *)
(* changePassword, adminSetUserActive, adminSoftDelete, adminRestore, the  *)
(* account edits that revoke nothing, and the token cleanup.               *)
(*                                                                         *)
(* Every request is a process of Procs.  A step is one statement, or a run *)
(* of statements no other request can tell from one.  PostgreSQL runs them *)
(* READ COMMITTED: a SELECT sees what is committed when it starts; an      *)
(* UPDATE picks its rows from such a snapshot, waits for the rows another  *)
(* open transaction has updated, and shows at COMMIT.  A request that is   *)
(* refused before its first write changes nothing here and is not an       *)
(* action.                                                                 *)
(*                                                                         *)
(* Kept elsewhere: the lockout columns and the Redis side (the access      *)
(* token blocklist).  Passwords stand for password hashes, token numbers   *)
(* for the random refresh tokens; a family is named by its first token.    *)
(***************************************************************************)
EXTENDS Integers, FiniteSets

CONSTANTS Users,      \* accounts
          Procs,      \* requests that may be in flight together
          Passwords,  \* what a password can be
          Offered,    \* the account operations requests may ask for
          MaxTokens   \* bound on the refresh tokens ever issued

ASSUME SessionsAssumption ==
    /\ Users # {} /\ Passwords # {}
    /\ IsFiniteSet(Procs)
    /\ Offered \subseteq {"password", "suspend", "activate", "delete", "restore",
                          "edit"}
    /\ MaxTokens \in Nat \ {0}

VARIABLES
    account,  \* users: status and password of each account, as committed
    issued,   \* how many refresh tokens were ever committed
    stored,   \* refresh_tokens: the rows in the table, as committed
    row,      \* refresh_tokens: the columns of a row (kept once purged)
    req,      \* the request each process runs
    \* History, read by no action's guard:
    raced,    \* families of which two requests rotated one token together
    dead,     \* families a committed revocation has ended
    escaped,  \* tokens a revocation running beside their request missed
    lost      \* accounts over which a stale row was written back

vars == <<account, issued, stored, row, req, raced, dead, escaped, lost>>

Tokens == 1..MaxTokens

\* isActive and deletedAt; UserEntity admits no deleted account that is active.
Statuses == {"active", "suspended", "deleted"}
Account == [status : Statuses, pwd : Passwords]

Row == [user : Users, family : Tokens, from : Tokens,
        revoked : BOOLEAN, expired : BOOLEAN, cred : Passwords]

\* What a request does: log in, refresh, revoke a family (reuse detection and
\* logout: "family"; revokeMySession: "userFamily") or change an account.  The
\* account operations in Kills revoke every token of the account.
FamilyOps == {"family", "userFamily"}
AccountOps == {"password", "suspend", "activate", "delete", "restore", "edit"}

\* Mutant: a suspension leaves the refresh tokens alone.
KillsButSuspend == {"password", "delete"}

Kills == {"password", "suspend", "delete"}
Ops == {"none", "login", "refresh"} \union FamilyOps \union AccountOps

Steps == {"idle", "login", "rotate", "save", "select", "update", "sweep", "commit"}

\* tok: the token presented.  base: the account row the request has read.
\* targets: the rows a revoking UPDATE has picked.  doomed (history): a
\* revocation of this refresh's session was committed while it ran.
Request == [pc : Steps, op : Ops, user : Users, tok : Tokens, pwd : Passwords,
            base : Account, targets : SUBSET Tokens, doomed : BOOLEAN]

AnyUser == CHOOSE u \in Users : TRUE
AnyPassword == CHOOSE v \in Passwords : TRUE
NewAccount == [status |-> "active", pwd |-> AnyPassword]
NoRow == [user |-> AnyUser, family |-> 1, from |-> 1,
          revoked |-> TRUE, expired |-> TRUE, cred |-> AnyPassword]
Idle == [pc |-> "idle", op |-> "none", user |-> AnyUser, tok |-> 1,
         pwd |-> AnyPassword, base |-> NewAccount, targets |-> {},
         doomed |-> FALSE]

Init ==
    /\ account = [u \in Users |-> NewAccount]
    /\ issued = 0
    /\ stored = {}
    /\ row = [t \in Tokens |-> NoRow]
    /\ req = [p \in Procs |-> Idle]
    /\ raced = {} /\ dead = {} /\ escaped = {} /\ lost = {}

-----------------------------------------------------------------------------
(* Rows, locks and what a revocation reaches *)

Live(t) == t \in stored /\ ~row[t].revoked /\ ~row[t].expired

\* A refresh in flight, past the read of its token.
Rotating(p) == req[p].pc \in {"rotate", "save"}

\* refreshSession has updated the row of its token and not yet committed.
TokenLocked(t) == \E q \in Procs : req[q].pc = "save" /\ req[q].tok = t

\* An account operation has updated the users row and not yet committed.
UserLocked(u) == \E q \in Procs : /\ req[q].op \in AccountOps
                                  /\ req[q].pc \in {"sweep", "commit"}
                                  /\ req[q].user = u

\* The WHERE clause of revokeTokenFamily, revokeRefreshTokensForUserFamily
\* and revokeAllRefreshTokensForUser, of request r on a row (tok of a request
\* that revokes a family is the family's first token).
Covers(r, x) ==
    \/ r.op = "family" /\ x.family = r.tok
    \/ r.op = "userFamily" /\ x.user = r.user /\ x.family = r.tok
    \/ r.op \in Kills /\ x.user = r.user

\* Mutant: of a family, only the row of its first token.
TargetsOfFirst(r) == {t \in stored : Covers(r, row[t]) /\ row[t].family = t}

\* The rows such an UPDATE picks: those committed when it starts.
Targets(r) == {t \in stored : Covers(r, row[t])}

Start(p, r) == req' = [req EXCEPT ![p] = r]
Goto(p, step) == req' = [req EXCEPT ![p].pc = step]
Finish(p) == req' = [req EXCEPT ![p] = Idle]

\* Bound: a request that may issue a token starts only if one is left for it.
HasRoom ==
    issued + Cardinality({q \in Procs : req[q].op \in {"login", "refresh"}})
        < MaxTokens

\* What saveRefreshToken inserts.
NewRow(u, family, from, cred) ==
    [user |-> u, family |-> family, from |-> from,
     revoked |-> FALSE, expired |-> FALSE, cred |-> cred]

\* What is kept of a deleted row: what the requests in flight have read.
Purged(r) == [r EXCEPT !.revoked = TRUE, !.expired = TRUE]

history == <<raced, dead, escaped, lost>>
table == <<issued, stored, row>>

-----------------------------------------------------------------------------
(* login *)

\* findByEmail and the password comparison: both use this one read, made
\* outside the transaction (a deleted account is not found).
LoginRead(p, u) ==
    /\ req[p].pc = "idle" /\ HasRoom
    /\ account[u].status = "active"
    /\ Start(p, [Idle EXCEPT !.pc = "login", !.op = "login", !.user = u,
                             !.base = account[u]])
    /\ UNCHANGED <<account, table, history>>

\* Mutant: the row is stored and its number is given out again.
LoginCommitUncounted(p) ==
    /\ req[p].pc = "login" /\ ~UserLocked(req[p].user)
    /\ stored' = stored \union {issued + 1}
    /\ Finish(p)
    /\ UNCHANGED <<account, issued, row, history>>

\* The transaction: markSuccessfulLogin waits for the users row; nothing reads
\* the account again.  The token opens a family of its own.
LoginCommit(p) ==
    LET u == req[p].user
        t == issued + 1
    IN  /\ req[p].pc = "login" /\ issued < MaxTokens
        /\ ~UserLocked(u)
        /\ issued' = t
        /\ stored' = stored \union {t}
        /\ row' = [row EXCEPT ![t] = NewRow(u, t, t, req[p].base.pwd)]
        /\ escaped' = IF account[u] # req[p].base THEN escaped \union {t}
                                                  ELSE escaped
        /\ Finish(p)
        /\ UNCHANGED <<account, raced, dead, lost>>

-----------------------------------------------------------------------------
(* refreshSession *)

\* History: another request has read the token and not yet replaced it.
RacedBy(t) == IF \E q \in Procs : Rotating(q) /\ req[q].tok = t
              THEN raced \union {row[t].family} ELSE raced

\* Mutant: is_revoked is not looked at.
RefreshReadAny(p, t) ==
    /\ req[p].pc = "idle" /\ HasRoom
    /\ t \in stored
    /\ Start(p, [Idle EXCEPT !.pc = "rotate", !.op = "refresh", !.tok = t,
                             !.user = row[t].user])
    /\ raced' = RacedBy(t)
    /\ UNCHANGED <<account, table, dead, escaped, lost>>

\* findRefreshToken, outside the transaction, finds a token that can be used.
RefreshRead(p, t) ==
    /\ req[p].pc = "idle" /\ HasRoom
    /\ Live(t)
    /\ Start(p, [Idle EXCEPT !.pc = "rotate", !.op = "refresh", !.tok = t,
                             !.user = row[t].user])
    /\ raced' = RacedBy(t)
    /\ UNCHANGED <<account, table, dead, escaped, lost>>

\* An expired token is revoked and the request refused.
RefreshExpired(p, t) ==
    /\ req[p].pc = "idle"
    /\ t \in stored /\ ~row[t].revoked /\ row[t].expired
    /\ ~TokenLocked(t)
    /\ row' = [row EXCEPT ![t].revoked = TRUE]
    /\ UNCHANGED <<account, issued, stored, req, history>>

\* The transaction: revokeToken goes by the id alone, whatever the row says by
\* now (and finds no row if the cleanup was there first); findById then reads
\* the account, and one that is gone or inactive throws and rolls back.
Rotate(p) ==
    /\ req[p].pc = "rotate"
    /\ ~TokenLocked(req[p].tok)
    /\ \/ account[req[p].user].status = "active" /\ Goto(p, "save")
       \/ account[req[p].user].status # "active" /\ Finish(p)
    /\ UNCHANGED <<account, table, history>>

\* Mutant: the token presented stays good.
RefreshCommitKeeping(p) ==
    LET t == issued + 1
        s == req[p].tok
    IN  /\ req[p].pc = "save" /\ issued < MaxTokens
        /\ issued' = t
        /\ stored' = stored \union {t}
        /\ row' = [row EXCEPT
                      ![t] = NewRow(req[p].user, row[s].family, s, row[s].cred)]
        /\ Finish(p)
        /\ UNCHANGED <<account, history>>

\* saveRefreshToken and COMMIT: the successor appears and the token it
\* replaces is revoked in one step.
RefreshCommit(p) ==
    LET s == req[p].tok
        t == issued + 1
        r == NewRow(req[p].user, row[s].family, s, row[s].cred)
    IN  /\ req[p].pc = "save" /\ issued < MaxTokens
        /\ issued' = t
        /\ stored' = stored \union {t}
        /\ row' = [row EXCEPT ![s].revoked = TRUE, ![t] = r]
        /\ escaped' = IF \/ req[p].doomed \/ s \in escaped
                         \/ \E q \in Procs : req[q].pc = "sweep" /\ Covers(req[q], r)
                      THEN escaped \union {t} ELSE escaped
        /\ Finish(p)
        /\ UNCHANGED <<account, raced, dead, lost>>

-----------------------------------------------------------------------------
(* The operations that revoke a family.  The read and the snapshot of the    *)
(* UPDATE are one step: nothing that can come between them matters.          *)

SweepStart(p, op, u, t) ==
    LET r == [Idle EXCEPT !.pc = "sweep", !.op = op, !.user = u, !.tok = t]
    IN  /\ req[p].pc = "idle"
        /\ Start(p, [r EXCEPT !.targets = Targets(r)])
        /\ UNCHANGED <<account, table, history>>

\* refreshSession is given a token that is revoked: reuse.
RefreshReuse(p, t) ==
    /\ t \in stored /\ row[t].revoked
    /\ SweepStart(p, "family", row[t].user, row[t].family)

\* logout; the owner of the token is not compared with the caller.
Logout(p, t) ==
    t \in stored /\ SweepStart(p, "family", row[t].user, row[t].family)

\* revokeMySession: listActiveSessionFamilies must show the family to its user.
RevokeSession(p, u, f) ==
    /\ \E t \in stored : Live(t) /\ row[t].user = u /\ row[t].family = f
    /\ SweepStart(p, "userFamily", u, f)

-----------------------------------------------------------------------------
(* The account operations *)

\* The row updateUserById writes: the whole row it has read, with the patch.
Patch(op, a, v) ==
    CASE op = "password" -> [a EXCEPT !.pwd = v]
      [] op = "suspend" ->
           [a EXCEPT !.status = IF @ = "deleted" THEN @ ELSE "suspended"]
      [] op \in {"activate", "restore"} -> [a EXCEPT !.status = "active"]
      [] op = "delete" -> [a EXCEPT !.status = "deleted"]
      [] op = "edit" -> a

\* The transaction opens, and the account has been read and found fit.
AccountStart(p, op, u, v) ==
    /\ req[p].pc = "idle" /\ op \in Offered
    /\ Start(p, [Idle EXCEPT !.pc = "select", !.op = op, !.user = u, !.pwd = v])
    /\ UNCHANGED <<account, table, history>>

\* changePassword compares the old password with the row it reads; a new
\* password is another one.
ChangePassword(p, u, v) ==
    /\ account[u].status = "active" /\ account[u].pwd # v
    /\ AccountStart(p, "password", u, v)

\* resetPassword, of a reset token that is good: the account need not be active.
ResetPassword(p, u, v) ==
    /\ account[u].status # "deleted" /\ account[u].pwd # v
    /\ AccountStart(p, "password", u, v)

\* adminSetUserActiveBySubject
Suspend(p, u) == AccountStart(p, "suspend", u, AnyPassword)
Activate(p, u) ==
    account[u].status # "deleted" /\ AccountStart(p, "activate", u, AnyPassword)

\* adminSoftDeleteBySubject, adminRestoreUserBySubject
SoftDelete(p, u) ==
    account[u].status # "deleted" /\ AccountStart(p, "delete", u, AnyPassword)
Restore(p, u) ==
    account[u].status = "deleted" /\ AccountStart(p, "restore", u, AnyPassword)

\* adminSetForcePasswordChangeBySubject and verifyEmailWithToken: columns not
\* kept here, but the whole row is read and written back.
EditAccount(p, u) == AccountStart(p, "edit", u, AnyPassword)

\* updateUserById's SELECT.  Activating a deleted account throws in UserEntity.
AccountSelect(p) ==
    /\ req[p].pc = "select"
    /\ LET a == account[req[p].user]
       IN  \/ /\ req[p].op = "activate" /\ a.status = "deleted"
              /\ Finish(p)
           \/ /\ ~(req[p].op = "activate" /\ a.status = "deleted")
              /\ req' = [req EXCEPT ![p].base = a, ![p].pc = "update"]
    /\ UNCHANGED <<account, table, history>>

\* updateUserById's UPDATE takes the users row; revokeAllRefreshTokensForUser,
\* of the operations that revoke, then picks its rows.
AccountUpdate(p) ==
    /\ req[p].pc = "update"
    /\ ~UserLocked(req[p].user)
    /\ req' = [req EXCEPT
                 ![p].pc = IF req[p].op \in Kills THEN "sweep" ELSE "commit",
                 ![p].targets = Targets(req[p])]
    /\ UNCHANGED <<account, table, history>>

\* The account row as it stands once p commits.
Written(p) ==
    IF req[p].op \in AccountOps
    THEN [account EXCEPT ![req[p].user] =
              Patch(req[p].op, req[p].base, req[p].pwd)]
    ELSE account

\* History: the row read is not the row overwritten.
LostWith(p) ==
    IF req[p].op \in AccountOps /\ account[req[p].user] # req[p].base
    THEN lost \union {req[p].user} ELSE lost

AccountCommit(p) ==
    /\ req[p].pc = "commit"
    /\ account' = Written(p)
    /\ lost' = LostWith(p)
    /\ Finish(p)
    /\ UNCHANGED <<table, raced, dead, escaped>>

\* The end of every operation that revokes: the UPDATE waits for the rows it
\* has picked, sets is_revoked and, with the account row, commits.
Sweep(p) ==
    LET gone == req[p].targets
    IN  /\ req[p].pc = "sweep"
        /\ \A t \in gone \intersect stored : ~TokenLocked(t)
        /\ account' = Written(p)
        /\ lost' = LostWith(p)
        /\ row' = [t \in Tokens |-> IF t \in gone
                                    THEN [row[t] EXCEPT !.revoked = TRUE]
                                    ELSE row[t]]
        /\ dead' = dead \union {row[t].family : t \in gone}
        /\ req' = [q \in Procs |->
                     IF q = p THEN Idle
                     ELSE IF Rotating(q) /\ Covers(req[p], row[req[q].tok])
                     THEN [req[q] EXCEPT !.doomed = TRUE] ELSE req[q]]
        /\ UNCHANGED <<issued, stored, raced, escaped>>

-----------------------------------------------------------------------------
(* Around the requests *)

\* A request dies: a lost connection, an exception, a deadlock's victim.  Its
\* transaction rolls back.
Abort(p) ==
    /\ req[p].pc # "idle"
    /\ Finish(p)
    /\ UNCHANGED <<account, table, history>>

\* expires_at passes (of a revoked row, which the cleanup may take and no
\* request tells from an expired one, this is not followed).
Expire(t) ==
    /\ t \in stored /\ ~row[t].revoked /\ ~row[t].expired
    /\ row' = [row EXCEPT ![t].expired = TRUE]
    /\ UNCHANGED <<account, issued, stored, req, history>>

\* purgeStaleAuthArtifacts' DELETE: the expired rows and, of the revoked ones,
\* those old enough.  It waits for the rows an open transaction has updated.
Cleanup ==
    \E old \in SUBSET {t \in stored : row[t].revoked} :
        LET gone == {t \in stored : row[t].expired} \union old
        IN  /\ gone # {}
            /\ \A t \in gone : ~TokenLocked(t)
            /\ stored' = stored \ gone
            /\ row' = [t \in Tokens |-> IF t \in gone THEN Purged(row[t])
                                                   ELSE row[t]]
            /\ UNCHANGED <<account, issued, req, history>>

Step(p) ==
    \/ LoginCommit(p)
    \/ Rotate(p) \/ RefreshCommit(p)
    \/ AccountSelect(p) \/ AccountUpdate(p) \/ AccountCommit(p)
    \/ Sweep(p)

Begin(p) ==
    \/ \E u \in Users : LoginRead(p, u)
    \/ \E t \in Tokens : \/ RefreshRead(p, t) \/ RefreshExpired(p, t)
                         \/ RefreshReuse(p, t) \/ Logout(p, t)
    \/ \E u \in Users, f \in Tokens : RevokeSession(p, u, f)
    \/ \E u \in Users, v \in Passwords :
           ChangePassword(p, u, v) \/ ResetPassword(p, u, v)
    \/ \E u \in Users : \/ Suspend(p, u) \/ Activate(p, u)
                        \/ SoftDelete(p, u) \/ Restore(p, u)
                        \/ EditAccount(p, u)

Next ==
    \/ \E p \in Procs : Begin(p) \/ Step(p) \/ Abort(p)
    \/ \E t \in Tokens : Expire(t)
    \/ Cleanup

Spec == Init /\ [][Next]_vars

-----------------------------------------------------------------------------
(* Properties *)

\* The tables and the requests hold what their columns and variables can hold.
TypeOK ==
    /\ account \in [Users -> Account]
    /\ issued \in 0..MaxTokens
    /\ stored \subseteq 1..issued
    /\ row \in [Tokens -> Row]
    /\ req \in [Procs -> Request]
    /\ raced \subseteq Tokens /\ dead \subseteq Tokens
    /\ escaped \subseteq Tokens /\ lost \subseteq Users

\* A token that has a successor is spent: refreshSession revokes the one it
\* replaces in the transaction that stores the other, so no interleaving with
\* revocations, expiry or the cleanup leaves both usable by a later request.
SuccessorSpendsParent ==
    \A t \in stored : LET s == row[t].from
                      IN  s # t /\ s \in stored => row[s].revoked

\* A session is one live token at a time, whatever runs beside it, except in a
\* family of which two overlapping requests have rotated the same token.
OneLiveTokenUnlessRaced ==
    \A s, t \in Tokens :
        Live(s) /\ Live(t) /\ row[s].family = row[t].family /\ s # t
            => row[s].family \in raced

\* A session that logout, reuse detection, revokeMySession, a password
\* operation, a suspension or a deletion has ended stays ended, except through
\* a refresh that was in flight at the time (and what is rotated from it).
DeadFamiliesLiveOnlyThroughRaces ==
    \A t \in Tokens : Live(t) /\ row[t].family \in dead => t \in escaped

\* A live token belongs to an active account and to its current password,
\* unless a request in flight when that changed stored it, or a stale account
\* row was written back.
LiveTokensAreEntitled ==
    \A t \in Tokens : Live(t) =>
        LET a == account[row[t].user]
        IN  \/ a.status = "active" /\ a.pwd = row[t].cred
            \/ t \in escaped
            \/ row[t].user \in lost

-----------------------------------------------------------------------------
(* What the documents say, and concurrent requests do not keep to *)

\* ADR-002: a token can be used once only, so a family never has two live
\* tokens.  (Violated: two refreshes of one token that both read it before
\* either commits both rotate it.)
OneLiveTokenPerFamily ==
    \A s, t \in Tokens :
        Live(s) /\ Live(t) /\ row[s].family = row[t].family => s = t
=============================================================================
