--------------------------- MODULE SessionsProofs ---------------------------
(***************************************************************************)
(* Theorems about Sessions, for any accounts, requests, passwords, offered *)
(* operations and number of tokens.                                        *)
(***************************************************************************)
EXTENDS Sessions, TLAPS

\* The values a request that is not running and a row that is not used have.
LEMMA Defaults ==
    Idle \in Request /\ NoRow \in Row /\ NewAccount \in Account
<1>1. AnyUser \in Users /\ AnyPassword \in Passwords /\ 1 \in Tokens
  BY SessionsAssumption DEF AnyUser, AnyPassword, Tokens
<1>. QED
  BY <1>1 DEF Idle, NoRow, NewAccount, Request, Row, Account, Statuses, Steps, Ops

\* What updateUserById writes is an account again.
LEMMA PatchType ==
    ASSUME NEW op \in AccountOps, NEW a \in Account, NEW v \in Passwords
    PROVE  Patch(op, a, v) \in Account
  BY DEF Patch, Account, Statuses, AccountOps

\* The account table, with the write of a request in it.
LEMMA WrittenType ==
    ASSUME TypeOK, NEW p \in Procs
    PROVE  /\ Written(p) \in [Users -> Account]
           /\ LostWith(p) \subseteq Users
<1>1. req[p] \in Request /\ account \in [Users -> Account] /\ lost \subseteq Users
  BY DEF TypeOK
<1>2. req[p].user \in Users /\ req[p].base \in Account /\ req[p].pwd \in Passwords
  BY <1>1 DEF Request
<1>3. req[p].op \in AccountOps =>
          Patch(req[p].op, req[p].base, req[p].pwd) \in Account
  BY <1>2, PatchType
<1>. QED
  BY <1>1, <1>2, <1>3 DEF Written, LostWith

\* The rows a revocation picks are tokens.
LEMMA TargetsType ==
    ASSUME TypeOK, NEW r
    PROVE  Targets(r) \subseteq Tokens
<1>1. stored \subseteq Tokens
  BY SessionsAssumption DEF TypeOK, Tokens
<1>. QED
  BY <1>1 DEF Targets

-----------------------------------------------------------------------------
(* Type correctness *)

\* It holds at the start,
LEMMA InitType == Init => TypeOK
  BY Defaults, SessionsAssumption DEF Init, TypeOK

\* A step that puts one request in the state of another value of Request and
\* leaves the rest alone.
LEMMA RequestType ==
    ASSUME TypeOK, NEW p \in Procs, NEW r \in Request, Start(p, r),
           UNCHANGED <<account, issued, stored, row>>,
           raced' \subseteq Tokens, UNCHANGED <<dead, escaped, lost>>
    PROVE  TypeOK'
  BY DEF TypeOK, Start

\* of every step that begins a request (an expired token is refused at once),
LEMMA BeginType ==
    ASSUME TypeOK, NEW p \in Procs, Begin(p)
    PROVE  TypeOK'
<1>. USE Defaults
<1>h. ASSUME history' = history PROVE raced' \subseteq Tokens /\ UNCHANGED <<dead, escaped, lost>>
  BY <1>h DEF history, TypeOK
<1>t. ASSUME table' = table PROVE UNCHANGED <<issued, stored, row>>
  BY <1>t DEF table
<1>1. ASSUME NEW u \in Users, LoginRead(p, u) PROVE TypeOK'
  <2>1. [Idle EXCEPT !.pc = "login", !.op = "login", !.user = u,
                     !.base = account[u]] \in Request
    BY DEF TypeOK, Idle, Request, Steps, Ops
  <2>. QED BY <2>1, <1>1, <1>h, <1>t, RequestType DEF LoginRead
<1>2. ASSUME NEW t \in Tokens, RefreshRead(p, t) PROVE TypeOK'
  <2>1. row[t] \in Row
    BY DEF TypeOK
  <2>2. [Idle EXCEPT !.pc = "rotate", !.op = "refresh", !.tok = t,
                     !.user = row[t].user] \in Request
    BY <2>1 DEF Idle, Request, Row, Steps, Ops
  <2>3. RacedBy(t) \subseteq Tokens
    BY <2>1 DEF RacedBy, TypeOK, Row
  <2>. QED BY <2>2, <2>3, <1>2, <1>t, RequestType DEF RefreshRead
<1>3. ASSUME NEW t \in Tokens, RefreshExpired(p, t) PROVE TypeOK'
  BY <1>3, <1>h DEF RefreshExpired, TypeOK, Row, history
<1>4. ASSUME NEW op \in FamilyOps, NEW u \in Users, NEW t \in Tokens,
             SweepStart(p, op, u, t)
      PROVE  TypeOK'
  <2>. DEFINE r == [Idle EXCEPT !.pc = "sweep", !.op = op, !.user = u, !.tok = t]
  <2>1. Targets(r) \subseteq Tokens
    BY TargetsType
  <2>2. [r EXCEPT !.targets = Targets(r)] \in Request
    <3>. HIDE DEF r
    <3>1. r \in Request
      BY DEF r, Idle, Request, Steps, Ops, FamilyOps
    <3>. QED BY <3>1, <2>1 DEF Request
  <2>3. Start(p, [r EXCEPT !.targets = Targets(r)]) /\ table' = table
            /\ history' = history /\ account' = account
    BY <1>4 DEF SweepStart
  <2>. QED BY <2>2, <2>3, <1>h, <1>t, RequestType
<1>5. ASSUME NEW t \in Tokens, RefreshReuse(p, t) \/ Logout(p, t) PROVE TypeOK'
  <2>1. row[t].user \in Users /\ row[t].family \in Tokens
    BY DEF TypeOK, Row
  <2>. QED BY <2>1, <1>4, <1>5 DEF RefreshReuse, Logout, FamilyOps
<1>6. ASSUME NEW u \in Users, NEW f \in Tokens, RevokeSession(p, u, f) PROVE TypeOK'
  BY <1>4, <1>6 DEF RevokeSession, FamilyOps
<1>7. ASSUME NEW op, NEW u \in Users, NEW v \in Passwords, AccountStart(p, op, u, v)
      PROVE  TypeOK'
  <2>1. op \in AccountOps
    BY <1>7, SessionsAssumption DEF AccountStart, AccountOps
  <2>2. [Idle EXCEPT !.pc = "select", !.op = op, !.user = u, !.pwd = v] \in Request
    BY <2>1 DEF Idle, Request, Steps, Ops
  <2>. QED BY <2>2, <1>7, <1>h, <1>t, RequestType DEF AccountStart
<1>8. AnyPassword \in Passwords
  BY SessionsAssumption DEF AnyPassword
<1>. QED
  BY <1>1, <1>2, <1>3, <1>5, <1>6, <1>7, <1>8
  DEF Begin, ChangePassword, ResetPassword, Suspend, Activate, SoftDelete, Restore,
      EditAccount

\* of every further step of a request,
LEMMA StepType ==
    ASSUME TypeOK, NEW p \in Procs, Step(p)
    PROVE  TypeOK'
<1>. USE Defaults
<1>r. req[p] \in Request
  BY DEF TypeOK
<1>w. Written(p) \in [Users -> Account] /\ LostWith(p) \subseteq Users
  BY WrittenType
<1>n. ASSUME issued < MaxTokens
      PROVE  /\ issued + 1 \in 0..MaxTokens /\ issued + 1 \in Tokens
             /\ stored \union {issued + 1} \subseteq 1..(issued + 1)
  BY <1>n, SessionsAssumption DEF TypeOK, Tokens
<1>1. CASE LoginCommit(p)
  <2>. DEFINE u == req[p].user
              t == issued + 1
              r == NewRow(u, t, t, req[p].base.pwd)
  <2>1. r \in Row
    BY <1>1, <1>r, <1>n DEF LoginCommit, NewRow, Row, Request, Account
  <2>2. row' = [row EXCEPT ![t] = r] /\ req' = [req EXCEPT ![p] = Idle]
    BY <1>1 DEF LoginCommit, Finish
  <2>. HIDE DEF r
  <2>3. row' \in [Tokens -> Row] /\ req' \in [Procs -> Request]
    BY <2>1, <2>2 DEF TypeOK
  <2>4. issued' = t /\ stored' = stored \union {t} /\ issued < MaxTokens
            /\ escaped' \subseteq escaped \union {t}
            /\ UNCHANGED <<account, raced, dead, lost>>
    BY <1>1 DEF LoginCommit
  <2>. QED BY <2>3, <2>4, <1>n DEF TypeOK
<1>2. CASE Rotate(p)
  <2>1. req' \in [Procs -> Request]
    BY <1>2, <1>r DEF Rotate, Goto, Finish, TypeOK, Request, Steps
  <2>. QED BY <2>1, <1>2 DEF Rotate, TypeOK, table, history
<1>3. CASE RefreshCommit(p)
  <2>. DEFINE s == req[p].tok
              t == issued + 1
              r == NewRow(req[p].user, row[s].family, s, row[s].cred)
  <2>1. s \in Tokens /\ row[s] \in Row
    BY <1>r DEF Request, TypeOK
  <2>2. r \in Row
    BY <2>1, <1>r DEF NewRow, Row, Request
  <2>3. row' = [row EXCEPT ![s].revoked = TRUE, ![t] = r]
            /\ req' = [req EXCEPT ![p] = Idle]
    BY <1>3 DEF RefreshCommit, Finish
  <2>4. [row[s] EXCEPT !.revoked = TRUE] \in Row
    BY <2>1 DEF Row
  <2>. HIDE DEF r, s
  <2>5. row' \in [Tokens -> Row] /\ req' \in [Procs -> Request]
    BY <2>1, <2>2, <2>3, <2>4 DEF TypeOK
  <2>6. issued' = t /\ stored' = stored \union {t} /\ issued < MaxTokens
            /\ escaped' \subseteq escaped \union {t}
            /\ UNCHANGED <<account, raced, dead, lost>>
    BY <1>3 DEF RefreshCommit
  <2>. QED BY <2>5, <2>6, <1>n DEF TypeOK
<1>4. CASE AccountSelect(p)
  <2>1. account[req[p].user] \in Account
    BY <1>r DEF TypeOK, Request
  <2>2. req' \in [Procs -> Request]
    BY <2>1, <1>4, <1>r DEF AccountSelect, Finish, TypeOK, Request, Steps
  <2>. QED BY <2>2, <1>4 DEF AccountSelect, TypeOK, table, history
<1>5. CASE AccountUpdate(p)
  <2>1. Targets(req[p]) \subseteq Tokens
    BY TargetsType
  <2>2. req' \in [Procs -> Request]
    BY <2>1, <1>5, <1>r DEF AccountUpdate, TypeOK, Request, Steps
  <2>. QED BY <2>2, <1>5 DEF AccountUpdate, TypeOK, table, history
<1>6. CASE AccountCommit(p)
  BY <1>6, <1>w DEF AccountCommit, Finish, TypeOK, table
<1>7. CASE Sweep(p)
  <2>1. req[p].targets \subseteq Tokens
    BY <1>r DEF Request
  <2>2. row' \in [Tokens -> Row]
    BY <1>7 DEF Sweep, TypeOK, Row
  <2>3. {row[t].family : t \in req[p].targets} \subseteq Tokens
    BY <2>1 DEF TypeOK, Row
  <2>4. req' \in [Procs -> Request]
    BY <1>7 DEF Sweep, TypeOK, Request
  <2>. QED BY <2>2, <2>3, <2>4, <1>7, <1>w DEF Sweep, TypeOK
<1>. QED
  BY <1>1, <1>2, <1>3, <1>4, <1>5, <1>6, <1>7 DEF Step

\* and of every step.
LEMMA NextType == TypeOK /\ [Next]_vars => TypeOK'
<1>. SUFFICES ASSUME TypeOK, [Next]_vars PROVE TypeOK'
  OBVIOUS
<1>. USE Defaults
<1>1. ASSUME NEW p \in Procs, Begin(p) PROVE TypeOK'
  BY <1>1, BeginType
<1>2. ASSUME NEW p \in Procs, Step(p) PROVE TypeOK'
  BY <1>2, StepType
<1>3. ASSUME NEW p \in Procs, Abort(p) PROVE TypeOK'
  BY <1>3 DEF Abort, Finish, TypeOK, table, history
<1>4. ASSUME NEW t \in Tokens, Expire(t) PROVE TypeOK'
  BY <1>4 DEF Expire, TypeOK, Row, history
<1>5. CASE Cleanup
  <2>1. PICK old \in SUBSET {t \in stored : row[t].revoked} :
            LET gone == {t \in stored : row[t].expired} \union old
            IN  /\ stored' = stored \ gone
                /\ row' = [t \in Tokens |-> IF t \in gone THEN Purged(row[t])
                                                       ELSE row[t]]
                /\ UNCHANGED <<account, issued, req, history>>
    BY <1>5 DEF Cleanup
  <2>2. row' \in [Tokens -> Row]
    <3>1. \A t \in Tokens : row[t] \in Row
      BY DEF TypeOK
    <3>2. \A t \in Tokens : Purged(row[t]) \in Row
      BY <3>1 DEF Purged, Row
    <3>. QED
      BY <2>1, <3>1, <3>2
  <2>3. stored' \subseteq stored
    BY <2>1
  <2>4. UNCHANGED <<account, issued, req, raced, dead, escaped, lost>>
    BY <2>1 DEF history
  <2>. QED
    BY <2>2, <2>3, <2>4 DEF TypeOK
<1>6. CASE UNCHANGED vars
  BY <1>6 DEF vars, TypeOK
<1>. QED
  BY <1>1, <1>2, <1>3, <1>4, <1>5, <1>6 DEF Next

\* The tables and the requests hold what their columns and variables can hold.
THEOREM TypeCorrect == Spec => []TypeOK
  BY InitType, NextType, PTL DEF Spec

-----------------------------------------------------------------------------
(* One live token per family.  The argument: a refresh in flight holds the    *)
(* only live token of its family, and no other refresh of the family runs,    *)
(* until a second one reads the same token, which is what raced records.      *)
(* A new family cannot meet an old one, for families and parents are tokens   *)
(* already issued.                                                            *)

\* The token a refresh in flight presents was issued.
RotatingIssued ==
    \A p \in Procs : Rotating(p) => req[p].op = "refresh" /\ req[p].tok \in 1..issued

\* So were the family and the parent of every issued token.
RowsPointBack ==
    \A t \in 1..issued : row[t].family \in 1..issued /\ row[t].from \in 1..issued

FamilyOf(p) == row[req[p].tok].family

\* In a family that was not raced, at most one refresh is in flight,
OneRotation ==
    \A p, q \in Procs :
        Rotating(p) /\ Rotating(q) /\ FamilyOf(p) = FamilyOf(q) /\ p # q
            => FamilyOf(p) \in raced

\* and nothing is live in it but the token that refresh presents.
RotatesTheLiveToken ==
    \A p \in Procs, t \in Tokens :
        Rotating(p) /\ Live(t) /\ row[t].family = FamilyOf(p) /\ t # req[p].tok
            => FamilyOf(p) \in raced

SessionInv ==
    /\ TypeOK /\ RotatingIssued /\ RowsPointBack /\ OneRotation
    /\ RotatesTheLiveToken /\ OneLiveTokenUnlessRaced /\ SuccessorSpendsParent

\* No token, no refresh: the invariant holds at the start.
LEMMA InitSession == Init => SessionInv
<1>. SUFFICES ASSUME Init PROVE SessionInv
  OBVIOUS
<1>1. TypeOK
  BY InitType
<1>2. issued = 0 /\ stored = {} /\ \A p \in Procs : req[p].pc = "idle"
  BY DEF Init, Idle
<1>. QED
  BY <1>1, <1>2 DEF SessionInv, RotatingIssued, RowsPointBack, OneRotation,
     RotatesTheLiveToken, OneLiveTokenUnlessRaced, SuccessorSpendsParent, Rotating, Live

\* Every step but login's commit and refresh's read and commit is of this kind:
\* rows only lose what makes them usable, and no refresh comes to be in flight.
LEMMA QuietStep ==
    ASSUME SessionInv, TypeOK',
           issued' = issued, raced' = raced, stored' \subseteq stored,
           \A t \in Tokens : /\ row'[t].family = row[t].family
                             /\ row'[t].from = row[t].from
                             /\ row[t].revoked => row'[t].revoked
                             /\ row[t].expired => row'[t].expired,
           \A q \in Procs : Rotating(q)' => /\ Rotating(q)
                                           /\ req'[q].tok = req[q].tok
                                           /\ req'[q].op = req[q].op
    PROVE  SessionInv'
<1>1. \A q \in Procs : req[q].tok \in Tokens
  BY DEF SessionInv, TypeOK, Request
<1>2. \A t \in 1..issued : t \in Tokens
  BY SessionsAssumption DEF SessionInv, TypeOK, Tokens
<1>3. \A t \in Tokens : Live(t)' => Live(t)
  BY DEF Live, SessionInv, TypeOK, Row
<1>4. \A q \in Procs : Rotating(q)' => FamilyOf(q)' = FamilyOf(q)
  BY <1>1 DEF FamilyOf
<1>5. RotatingIssued' /\ RowsPointBack'
  BY <1>2 DEF SessionInv, RotatingIssued, RowsPointBack
<1>6. OneRotation'
  BY <1>4 DEF SessionInv, OneRotation
<1>7. RotatesTheLiveToken'
  BY <1>3, <1>4 DEF SessionInv, RotatesTheLiveToken
<1>8. OneLiveTokenUnlessRaced'
  BY <1>3 DEF SessionInv, OneLiveTokenUnlessRaced
<1>9. SuccessorSpendsParent'
  <2>1. stored \subseteq Tokens
    BY <1>2 DEF SessionInv, TypeOK
  <2>2. \A t \in stored : row[t].from \in Tokens
    BY <2>1 DEF SessionInv, TypeOK, Row
  <2>. QED BY <2>1, <2>2 DEF SessionInv, SuccessorSpendsParent
<1>. QED
  BY <1>5, <1>6, <1>7, <1>8, <1>9 DEF SessionInv

\* The rows are left alone, and one request goes where no refresh is in flight.
LEMMA QuietRequest ==
    ASSUME SessionInv, TypeOK', NEW p \in Procs, NEW r,
           req' = [req EXCEPT ![p] = r],
           r.pc \notin {"rotate", "save"} \/ (Rotating(p) /\ r.tok = req[p].tok
                                                        /\ r.op = req[p].op),
           UNCHANGED <<issued, stored, row, raced>>
    PROVE  SessionInv'
<1>1. \A q \in Procs : Rotating(q)' => /\ Rotating(q)
                                      /\ req'[q].tok = req[q].tok
                                      /\ req'[q].op = req[q].op
  BY DEF Rotating, SessionInv, TypeOK
<1>. QED
  BY <1>1, QuietStep

\* A login opens a family that nobody is in.
LEMMA LoginCommitSession ==
    ASSUME SessionInv, TypeOK', NEW p \in Procs, LoginCommit(p)
    PROVE  SessionInv'
<1>. DEFINE t == issued + 1
            r == NewRow(req[p].user, t, t, req[p].base.pwd)
<1>1. /\ issued' = t /\ stored' = stored \union {t} /\ raced' = raced
      /\ row' = [row EXCEPT ![t] = r] /\ req' = [req EXCEPT ![p] = Idle]
      /\ issued < MaxTokens
  BY DEF LoginCommit, Finish
<1>2. r.family = t /\ r.from = t
  BY DEF NewRow
<1>3. /\ issued \in Nat /\ t \in Tokens /\ t \notin 1..issued
      /\ \A x \in 1..issued : x \in Tokens /\ x # t
      /\ stored \subseteq 1..issued
  BY <1>1, SessionsAssumption DEF SessionInv, TypeOK, Tokens
<1>. HIDE DEF r
<1>4. row'[t] = r /\ \A x \in Tokens : x # t => row'[x] = row[x]
  BY <1>1, <1>3 DEF SessionInv, TypeOK
<1>5. \A q \in Procs : Rotating(q)' => Rotating(q) /\ req'[q] = req[q]
  BY <1>1 DEF Rotating, Idle, SessionInv, TypeOK
<1>6. \A q \in Procs : Rotating(q)' =>
          FamilyOf(q)' = FamilyOf(q) /\ FamilyOf(q) \in 1..issued
  BY <1>3, <1>4, <1>5 DEF FamilyOf, SessionInv, RotatingIssued, RowsPointBack
<1>7. \A x \in Tokens : Live(x)' /\ x # t =>
          Live(x) /\ row[x].family \in 1..issued /\ row'[x] = row[x]
  BY <1>1, <1>3, <1>4 DEF Live, SessionInv, RowsPointBack
<1>8. RotatingIssued'
  BY <1>1, <1>3, <1>5 DEF SessionInv, RotatingIssued
<1>9. RowsPointBack'
  BY <1>1, <1>2, <1>3, <1>4 DEF SessionInv, RowsPointBack
<1>10. OneRotation'
  BY <1>1, <1>5, <1>6 DEF SessionInv, OneRotation
<1>11. RotatesTheLiveToken'
  BY <1>1, <1>2, <1>3, <1>4, <1>5, <1>6, <1>7 DEF SessionInv, RotatesTheLiveToken
<1>12. OneLiveTokenUnlessRaced'
  BY <1>1, <1>2, <1>3, <1>4, <1>7 DEF SessionInv, OneLiveTokenUnlessRaced
<1>13. SuccessorSpendsParent'
  <2>1. \A x \in stored : row[x].from \in 1..issued
    BY <1>3 DEF SessionInv, RowsPointBack
  <2>. QED BY <1>1, <1>2, <1>3, <1>4, <2>1 DEF SessionInv, SuccessorSpendsParent
<1>. QED
  BY <1>8, <1>9, <1>10, <1>11, <1>12, <1>13 DEF SessionInv

\* A refresh that begins finds the one live token of the family; if another is
\* in flight it holds the same token, and the family is raced from here on.
LEMMA RefreshReadSession ==
    ASSUME SessionInv, TypeOK', NEW p \in Procs, NEW t \in Tokens, RefreshRead(p, t)
    PROVE  SessionInv'
<1>. DEFINE r == [Idle EXCEPT !.pc = "rotate", !.op = "refresh", !.tok = t,
                              !.user = row[t].user]
            f == row[t].family
<1>1. /\ UNCHANGED <<issued, stored, row>> /\ raced' = RacedBy(t)
      /\ req' = [req EXCEPT ![p] = r] /\ req[p].pc = "idle" /\ Live(t)
  BY DEF RefreshRead, Start, table
<1>2. r.pc = "rotate" /\ r.op = "refresh" /\ r.tok = t
  BY DEF Idle
<1>. HIDE DEF r
<1>3. /\ ~Rotating(p) /\ Rotating(p)' /\ req'[p].tok = t /\ req'[p].op = "refresh"
      /\ \A q \in Procs : q # p => req'[q] = req[q] /\ (Rotating(q)' <=> Rotating(q))
  BY <1>1, <1>2 DEF Rotating, SessionInv, TypeOK
<1>4. /\ FamilyOf(p)' = f
      /\ \A q \in Procs : q # p => FamilyOf(q)' = FamilyOf(q)
      /\ \A x : Live(x)' <=> Live(x)
  BY <1>1, <1>3 DEF FamilyOf, Live
<1>5. raced \subseteq raced'
  BY <1>1 DEF RacedBy
<1>6. RotatingIssued'
  BY <1>1, <1>3 DEF SessionInv, RotatingIssued, Live, TypeOK
<1>7. RowsPointBack' /\ SuccessorSpendsParent'
  BY <1>1 DEF SessionInv, RowsPointBack, SuccessorSpendsParent
<1>8. ASSUME NEW q \in Procs, q # p, Rotating(q), FamilyOf(q) = f
      PROVE  f \in raced'
  <2>1. CASE req[q].tok = t
    BY <1>1, <1>8, <2>1 DEF RacedBy
  <2>2. CASE req[q].tok # t
    BY <1>1, <1>5, <1>8, <2>2 DEF SessionInv, RotatesTheLiveToken
  <2>. QED BY <2>1, <2>2
<1>9. OneRotation'
  BY <1>3, <1>4, <1>5, <1>8 DEF SessionInv, OneRotation
<1>10. RotatesTheLiveToken'
  <2>1. SUFFICES ASSUME NEW q \in Procs, NEW x \in Tokens, Rotating(q)', Live(x),
                        row[x].family = FamilyOf(q)', x # req'[q].tok
                 PROVE  FamilyOf(q)' \in raced'
    BY <1>1, <1>4 DEF RotatesTheLiveToken
  <2>2. CASE q = p
    BY <1>1, <1>3, <1>4, <1>5, <2>1, <2>2 DEF SessionInv, OneLiveTokenUnlessRaced
  <2>3. CASE q # p
    BY <1>3, <1>4, <1>5, <2>1, <2>3 DEF SessionInv, RotatesTheLiveToken
  <2>. QED BY <2>2, <2>3
<1>11. OneLiveTokenUnlessRaced'
  BY <1>1, <1>4, <1>5 DEF SessionInv, OneLiveTokenUnlessRaced
<1>. QED
  BY <1>6, <1>7, <1>9, <1>10, <1>11 DEF SessionInv

\* The successor takes the place of the one live token of the family.
LEMMA RefreshCommitSession ==
    ASSUME SessionInv, TypeOK', NEW p \in Procs, RefreshCommit(p)
    PROVE  SessionInv'
<1>. DEFINE s == req[p].tok
            t == issued + 1
            f == row[s].family
            r == NewRow(req[p].user, f, s, row[s].cred)
<1>1. /\ issued' = t /\ stored' = stored \union {t} /\ raced' = raced
      /\ row' = [row EXCEPT ![s].revoked = TRUE, ![t] = r]
      /\ req' = [req EXCEPT ![p] = Idle] /\ issued < MaxTokens /\ req[p].pc = "save"
  BY DEF RefreshCommit, Finish
<1>c. issued' = t /\ stored' = stored \union {t} /\ raced' = raced
  BY <1>1
<1>2. r.family = f /\ r.from = s
  BY DEF NewRow
<1>3. /\ issued \in Nat /\ t \in Tokens /\ t \notin 1..issued
      /\ \A x \in 1..issued : x \in Tokens /\ x # t
      /\ stored \subseteq 1..issued
  BY <1>1, SessionsAssumption DEF SessionInv, TypeOK, Tokens
<1>4. /\ Rotating(p) /\ s \in 1..issued /\ s = req[p].tok
      /\ f \in 1..issued /\ FamilyOf(p) = f /\ f = row[s].family
  BY <1>1 DEF Rotating, SessionInv, RotatingIssued, RowsPointBack, FamilyOf
<1>. HIDE DEF r, s, f
<1>5. /\ row'[t] = r
      /\ \A x \in Tokens : x # t =>
             row'[x].family = row[x].family /\ row'[x].from = row[x].from
  BY <1>1, <1>3, <1>4 DEF SessionInv, TypeOK, Row
<1>e. row'[s].revoked /\ \A x \in Tokens : x # t /\ x # s => row'[x] = row[x]
  <2>1. row \in [Tokens -> Row] /\ s \in Tokens /\ s # t
    BY <1>3, <1>4 DEF SessionInv, TypeOK
  <2>2. row'[s] = [row[s] EXCEPT !.revoked = TRUE] /\ row[s] \in Row
    BY <1>1, <1>3, <2>1
  <2>3. row'[s].revoked = TRUE
    BY <2>2 DEF Row
  <2>. QED BY <1>1, <1>3, <2>1, <2>3
<1>6. \A q \in Procs : Rotating(q)' => q # p /\ Rotating(q) /\ req'[q] = req[q]
  BY <1>1 DEF Rotating, Idle, SessionInv, TypeOK
<1>7. \A q \in Procs : Rotating(q)' => FamilyOf(q)' = FamilyOf(q)
  BY <1>3, <1>5, <1>6 DEF FamilyOf, SessionInv, RotatingIssued
<1>8. \A x \in Tokens : Live(x)' /\ x # t => Live(x) /\ x # s
  BY <1>1, <1>3, <1>e DEF Live
<1>9. RotatingIssued'
  BY <1>1, <1>3, <1>6 DEF SessionInv, RotatingIssued
<1>10. RowsPointBack'
  <2>1. \A x \in 1..issued : row'[x].family \in 1..issued /\ row'[x].from \in 1..issued
    BY <1>3, <1>5 DEF SessionInv, RowsPointBack
  <2>2. row'[t].family \in 1..issued /\ row'[t].from \in 1..issued
    BY <1>2, <1>4, <1>5
  <2>. QED BY <1>c, <1>3, <2>1, <2>2 DEF RowsPointBack
<1>11. OneRotation'
  BY <1>1, <1>6, <1>7 DEF SessionInv, OneRotation
<1>12. ASSUME NEW q \in Procs, Rotating(q)', FamilyOf(q) = f PROVE f \in raced
  BY <1>4, <1>6, <1>12 DEF SessionInv, OneRotation
<1>13. RotatesTheLiveToken'
  BY <1>1, <1>2, <1>5, <1>6, <1>7, <1>8, <1>12 DEF SessionInv, RotatesTheLiveToken
<1>14. ASSUME NEW x \in Tokens, Live(x), x # s, row[x].family = f PROVE f \in raced
  BY <1>4, <1>14 DEF SessionInv, RotatesTheLiveToken
<1>15. OneLiveTokenUnlessRaced'
  <2>1. \A x \in Tokens : Live(x)' /\ x # t /\ row'[x].family = f => f \in raced
    BY <1>5, <1>8, <1>14
  <2>2. row'[t].family = f
    BY <1>2, <1>5
  <2>. QED
    BY <1>c, <1>5, <1>8, <2>1, <2>2 DEF SessionInv, OneLiveTokenUnlessRaced
<1>16. SuccessorSpendsParent'
  <2>1. \A x \in stored : row[x].from \in 1..issued
    BY <1>3 DEF SessionInv, RowsPointBack
  <2>2. \A x \in stored : x # t /\ x \in Tokens
    BY <1>3
  <2>3. \A x \in stored : row[x].revoked => row'[x].revoked
    BY <1>e, <2>2
  <2>4. SUFFICES ASSUME NEW x \in stored', row'[x].from # x, row'[x].from \in stored'
                 PROVE  row'[row'[x].from].revoked
    BY DEF SuccessorSpendsParent
  <2>5. CASE x = t
    BY <1>2, <1>5, <1>e, <2>5
  <2>6. CASE x # t
    <3>1. x \in stored /\ row'[x].from = row[x].from /\ row[x].from \in stored
      BY <1>c, <1>3, <1>5, <2>1, <2>2, <2>4, <2>6
    <3>. QED BY <2>3, <2>4, <3>1 DEF SessionInv, SuccessorSpendsParent
  <2>. QED BY <2>5, <2>6
<1>. QED
  BY <1>9, <1>10, <1>11, <1>13, <1>15, <1>16 DEF SessionInv

\* Every step keeps the invariant.
LEMMA NextSession == SessionInv /\ [Next]_vars => SessionInv'
<1>. SUFFICES ASSUME SessionInv, [Next]_vars PROVE SessionInv'
  OBVIOUS
<1>0. TypeOK /\ TypeOK'
  BY NextType DEF SessionInv
<1>. USE <1>0
<1>1. ASSUME NEW p \in Procs, NEW r, Start(p, r), r.pc \notin {"rotate", "save"},
             table' = table, history' = history
      PROVE  SessionInv'
  BY <1>1, QuietRequest DEF Start, table, history
<1>2. ASSUME NEW p \in Procs, Begin(p) PROVE SessionInv'
  <2>1. ASSUME NEW u \in Users, LoginRead(p, u) PROVE SessionInv'
    <3>1. [Idle EXCEPT !.pc = "login", !.op = "login", !.user = u,
                       !.base = account[u]].pc = "login"
      BY DEF Idle
    <3>. QED BY <1>1, <2>1, <3>1 DEF LoginRead
  <2>2. ASSUME NEW t \in Tokens, RefreshExpired(p, t) PROVE SessionInv'
    <3>1. /\ row' = [row EXCEPT ![t].revoked = TRUE]
          /\ UNCHANGED <<issued, stored, req, raced>>
      BY <2>2 DEF RefreshExpired, history
    <3>2. \A x \in Tokens : /\ row'[x].family = row[x].family
                            /\ row'[x].from = row[x].from
                            /\ row[x].revoked => row'[x].revoked
                            /\ row[x].expired => row'[x].expired
      BY <3>1 DEF TypeOK, Row
    <3>. QED BY <3>1, <3>2, QuietStep DEF Rotating
  <2>3. ASSUME NEW op, NEW u, NEW t, SweepStart(p, op, u, t) PROVE SessionInv'
    <3>. DEFINE r == [Idle EXCEPT !.pc = "sweep", !.op = op, !.user = u, !.tok = t]
    <3>1. [r EXCEPT !.targets = Targets(r)].pc = "sweep"
      BY DEF Idle
    <3>2. Start(p, [r EXCEPT !.targets = Targets(r)]) /\ table' = table
              /\ history' = history
      BY <2>3 DEF SweepStart
    <3>. QED BY <1>1, <3>1, <3>2
  <2>4. ASSUME NEW op, NEW u, NEW v, AccountStart(p, op, u, v) PROVE SessionInv'
    <3>1. [Idle EXCEPT !.pc = "select", !.op = op, !.user = u, !.pwd = v].pc = "select"
      BY DEF Idle
    <3>. QED BY <1>1, <2>4, <3>1 DEF AccountStart
  <2>5. ASSUME NEW t \in Tokens, RefreshRead(p, t) PROVE SessionInv'
    BY <2>5, RefreshReadSession
  <2>. QED
    BY <1>2, <2>1, <2>2, <2>3, <2>4, <2>5
    DEF Begin, RefreshReuse, Logout, RevokeSession, ChangePassword, ResetPassword,
        Suspend, Activate, SoftDelete, Restore, EditAccount
<1>3. ASSUME NEW p \in Procs, Step(p) PROVE SessionInv'
  <2>r. req \in [Procs -> Request] /\ req[p] \in Request
    BY DEF TypeOK
  <2>i. Idle.pc = "idle"
    BY DEF Idle
  <2>1. CASE LoginCommit(p)
    BY <2>1, LoginCommitSession
  <2>2. CASE Rotate(p)
    <3>1. UNCHANGED <<issued, stored, row, raced>> /\ Rotating(p)
      BY <2>2 DEF Rotate, Rotating, table, history
    <3>2. CASE Goto(p, "save")
      <4>1. req' = [req EXCEPT ![p] = [req[p] EXCEPT !.pc = "save"]]
        BY <2>r, <3>2 DEF Goto
      <4>2. /\ [req[p] EXCEPT !.pc = "save"].tok = req[p].tok
            /\ [req[p] EXCEPT !.pc = "save"].op = req[p].op
        BY <2>r DEF Request
      <4>. QED BY <3>1, <4>1, <4>2, QuietRequest
    <3>3. CASE Finish(p)
      BY <2>i, <3>1, <3>3, QuietRequest DEF Finish
    <3>. QED BY <2>2, <3>2, <3>3 DEF Rotate
  <2>3. CASE RefreshCommit(p)
    BY <2>3, RefreshCommitSession
  <2>4. CASE AccountSelect(p)
    <3>1. UNCHANGED <<issued, stored, row, raced>>
      BY <2>4 DEF AccountSelect, table, history
    <3>2. CASE Finish(p)
      BY <2>i, <3>1, <3>2, QuietRequest DEF Finish
    <3>3. CASE req' = [req EXCEPT ![p].base = account[req[p].user], ![p].pc = "update"]
      <4>. DEFINE r == [req[p] EXCEPT !.base = account[req[p].user], !.pc = "update"]
      <4>1. req' = [req EXCEPT ![p] = r] /\ r.pc = "update"
        BY <2>r, <3>3 DEF Request
      <4>. QED BY <3>1, <4>1, QuietRequest
    <3>. QED BY <2>4, <3>2, <3>3 DEF AccountSelect
  <2>5. CASE AccountUpdate(p)
    <3>1. UNCHANGED <<issued, stored, row, raced>>
      BY <2>5 DEF AccountUpdate, table, history
    <3>. DEFINE r == [req[p] EXCEPT
                        !.pc = IF req[p].op \in Kills THEN "sweep" ELSE "commit",
                        !.targets = Targets(req[p])]
    <3>2. req' = [req EXCEPT ![p] = r] /\ r.pc \in {"sweep", "commit"}
      BY <2>r, <2>5 DEF AccountUpdate, Request
    <3>. QED BY <3>1, <3>2, QuietRequest
  <2>6. CASE AccountCommit(p)
    <3>1. UNCHANGED <<issued, stored, row, raced>> /\ Finish(p)
      BY <2>6 DEF AccountCommit, table
    <3>. QED BY <2>i, <3>1, QuietRequest DEF Finish
  <2>7. CASE Sweep(p)
    <3>1. UNCHANGED <<issued, stored, raced>>
      BY <2>7 DEF Sweep
    <3>2. \A x \in Tokens : /\ row'[x].family = row[x].family
                            /\ row'[x].from = row[x].from
                            /\ row[x].revoked => row'[x].revoked
                            /\ row[x].expired => row'[x].expired
      BY <2>7 DEF Sweep, TypeOK, Row
    <3>3. \A q \in Procs : q # p => /\ req'[q].pc = req[q].pc
                                   /\ req'[q].tok = req[q].tok
                                   /\ req'[q].op = req[q].op
      BY <2>7, <2>r DEF Sweep, Request
    <3>4. req'[p].pc = "idle"
      BY <2>7, <2>i DEF Sweep
    <3>. QED BY <3>1, <3>2, <3>3, <3>4, QuietStep DEF Rotating
  <2>. QED
    BY <1>3, <2>1, <2>2, <2>3, <2>4, <2>5, <2>6, <2>7 DEF Step
<1>4. ASSUME NEW p \in Procs, Abort(p) PROVE SessionInv'
  <2>1. UNCHANGED <<issued, stored, row, raced>> /\ Finish(p) /\ Idle.pc = "idle"
    BY <1>4 DEF Abort, table, history, Idle
  <2>. QED BY <2>1, QuietRequest DEF Finish
<1>5. ASSUME NEW t \in Tokens, Expire(t) PROVE SessionInv'
  <2>1. /\ row' = [row EXCEPT ![t].expired = TRUE]
        /\ UNCHANGED <<issued, stored, req, raced>>
    BY <1>5 DEF Expire, history
  <2>2. \A x \in Tokens : /\ row'[x].family = row[x].family
                          /\ row'[x].from = row[x].from
                          /\ row[x].revoked => row'[x].revoked
                          /\ row[x].expired => row'[x].expired
    BY <2>1 DEF TypeOK, Row
  <2>. QED BY <2>1, <2>2, QuietStep DEF Rotating
<1>6. CASE Cleanup
  <2>1. PICK old \in SUBSET {t \in stored : row[t].revoked} :
            LET gone == {t \in stored : row[t].expired} \union old
            IN  /\ stored' = stored \ gone
                /\ row' = [t \in Tokens |-> IF t \in gone THEN Purged(row[t])
                                                       ELSE row[t]]
                /\ UNCHANGED <<issued, req, raced>>
    BY <1>6 DEF Cleanup, history
  <2>2. \A x \in Tokens : /\ row'[x].family = row[x].family
                          /\ row'[x].from = row[x].from
                          /\ row[x].revoked => row'[x].revoked
                          /\ row[x].expired => row'[x].expired
    <3>1. \A x \in Tokens : row'[x] = row[x] \/ row'[x] = Purged(row[x])
      BY <2>1
    <3>2. \A r \in Row : /\ Purged(r).family = r.family /\ Purged(r).from = r.from
                         /\ Purged(r).revoked /\ Purged(r).expired
      BY DEF Purged, Row
    <3>3. \A x \in Tokens : row[x] \in Row
      BY DEF TypeOK
    <3>. QED BY <3>1, <3>2, <3>3
  <2>. QED BY <2>1, <2>2, QuietStep DEF Rotating
<1>7. CASE UNCHANGED vars
  BY <1>7, QuietStep DEF vars, Rotating
<1>. QED
  BY <1>2, <1>3, <1>4, <1>5, <1>6, <1>7 DEF Next

\* The inductive invariant: what holds of families and of refreshes in flight.
THEOREM SessionInvariant == Spec => []SessionInv
  BY InitSession, NextSession, PTL DEF Spec

\* A session is one live token at a time, except in a family of which two
\* overlapping refreshes rotated the same token.
THEOREM OneSessionOneToken == Spec => []OneLiveTokenUnlessRaced
<1>1. SessionInv => OneLiveTokenUnlessRaced
  BY DEF SessionInv
<1>. QED
  BY <1>1, SessionInvariant, PTL

\* The token a refresh replaces is spent.
THEOREM RotationSpends == Spec => []SuccessorSpendsParent
<1>1. SessionInv => SuccessorSpendsParent
  BY DEF SessionInv
<1>. QED
  BY <1>1, SessionInvariant, PTL

-----------------------------------------------------------------------------
(* Revocations and what escapes them.  The argument: when a revocation        *)
(* commits, whatever is live of what it covers was stored after its UPDATE    *)
(* had picked its rows, and is in escaped; a refresh that it covers is        *)
(* doomed, and so will its successor be.  That a revocation of a family       *)
(* covers all of it, and that of an account all of its families, is because   *)
(* a family has one user.                                                     *)

\* What a revocation in progress has picked is what it covers.
SweepsCover ==
    \A p \in Procs : req[p].pc = "sweep" =>
        /\ req[p].targets \subseteq 1..issued
        /\ \A t \in req[p].targets : Covers(req[p], row[t])
        /\ req[p].op \in FamilyOps => req[p].tok \in 1..issued

\* A refresh is of its token's user; a login has read an active account; and an
\* account operation that revokes does not commit without its sweep.
RequestsFit ==
    \A p \in Procs :
        /\ Rotating(p) => req[p].user = row[req[p].tok].user
        /\ req[p].pc = "login" => req[p].base.status = "active"
        /\ req[p].pc = "commit" => req[p].op \notin Kills

OneUserPerFamily ==
    \A s, t \in 1..issued : row[s].family = row[t].family => row[s].user = row[t].user

SweptOrEscaped ==
    \A p \in Procs, t \in Tokens :
        req[p].pc = "sweep" /\ Live(t) /\ Covers(req[p], row[t])
            => t \in req[p].targets \union escaped

\* The successor of what this refresh presents will be in escaped.
Warned(p) == req[p].doomed \/ req[p].tok \in escaped

DeadRotationsAreWarned ==
    \A p \in Procs : Rotating(p) /\ FamilyOf(p) \in dead => Warned(p)

\* The token's account is active and has its password, or was overwritten.
Entitled(t) ==
    LET a == account[row[t].user]
    IN  \/ a.status = "active" /\ a.pwd = row[t].cred
        \/ row[t].user \in lost

RotationsAreEntitled ==
    \A p \in Procs : Rotating(p) => Entitled(req[p].tok) \/ Warned(p)

RevocationInv ==
    /\ dead \subseteq 1..issued
    /\ SweepsCover /\ RequestsFit /\ OneUserPerFamily /\ SweptOrEscaped
    /\ DeadRotationsAreWarned /\ RotationsAreEntitled
    /\ DeadFamiliesLiveOnlyThroughRaces /\ LiveTokensAreEntitled

LEMMA InitRevocation == Init => RevocationInv
<1>. SUFFICES ASSUME Init PROVE RevocationInv
  OBVIOUS
<1>1. /\ issued = 0 /\ stored = {} /\ dead = {}
      /\ \A p \in Procs : req[p].pc = "idle"
  BY DEF Init, Idle
<1>. QED
  BY <1>1 DEF RevocationInv, SweepsCover, RequestsFit, OneUserPerFamily, SweptOrEscaped,
     DeadRotationsAreWarned, RotationsAreEntitled, DeadFamiliesLiveOnlyThroughRaces,
     LiveTokensAreEntitled, Rotating, Live

\* A revocation goes by operation, token and user, and by a row's family and user.
LEMMA CoversSame ==
    ASSUME NEW r, NEW q, NEW x, NEW y,
           r.op = q.op, r.tok = q.tok, r.user = q.user,
           x.family = y.family, x.user = y.user
    PROVE  Covers(r, x) <=> Covers(q, y)
  BY DEF Covers

\* What no row loses but what makes it usable.
RowsKeep ==
    \A t \in Tokens : /\ row'[t].family = row[t].family /\ row'[t].user = row[t].user
                      /\ row'[t].cred = row[t].cred
                      /\ row[t].revoked => row'[t].revoked
                      /\ row[t].expired => row'[t].expired

\* A token that was entitled still is.
AccountsKeep ==
    \A u \in Users : \/ account'[u] = account[u]
                     \/ account'[u].status = "active" /\ account'[u].pwd = account[u].pwd
                     \/ u \in lost'

\* What a request comes to be, in a step that commits no token and no revocation:
\* it goes on as it was, begins a revocation, or is neither that nor a refresh.
RequestKeeps(q) ==
    /\ Rotating(q)' => /\ Rotating(q)
                       /\ req'[q].tok = req[q].tok /\ req'[q].user = req[q].user
                       /\ req[q].doomed => req'[q].doomed
    /\ req'[q].pc = "sweep" =>
          \/ req'[q] = req[q]
          \/ /\ req'[q].targets = Targets(req'[q]) /\ row' = row /\ stored' = stored
             /\ req'[q].op \in FamilyOps => req'[q].tok \in 1..issued
    /\ req'[q].pc = "login" =>
          req'[q].base.status = "active"
    /\ req'[q].pc = "commit" => req'[q].op \notin Kills

LEMMA QuietRevocation ==
    ASSUME SessionInv, RevocationInv, TypeOK', RowsKeep, AccountsKeep,
           \A q \in Procs : RequestKeeps(q),
           issued' = issued, stored' \subseteq stored, escaped' = escaped,
           dead' = dead, lost \subseteq lost'
    PROVE  RevocationInv'
<1>1. /\ issued \in Nat /\ stored \subseteq 1..issued
      /\ \A t \in 1..issued : t \in Tokens
      /\ \A q \in Procs : Rotating(q) => req[q].tok \in Tokens
      /\ \A t \in Tokens : row[t].user \in Users
  <2>1. /\ issued \in Nat /\ stored \subseteq 1..issued
        /\ \A t \in 1..issued : t \in Tokens
    BY SessionsAssumption DEF SessionInv, TypeOK, Tokens
  <2>2. \A q \in Procs : Rotating(q) => req[q].tok \in Tokens
    BY <2>1 DEF SessionInv, RotatingIssued
  <2>3. \A t \in Tokens : row[t].user \in Users
    BY DEF SessionInv, TypeOK, Row
  <2>. QED
    BY <2>1, <2>2, <2>3
<1>2. \A t \in Tokens : Live(t)' => Live(t)
  BY DEF Live, RowsKeep, SessionInv, TypeOK, Row
<1>3. \A q \in Procs, t \in Tokens :
          req'[q] = req[q] => (Covers(req[q], row[t])' <=> Covers(req[q], row[t]))
  BY DEF RowsKeep, Covers
<1>4. SweepsCover'
  <2>. SUFFICES ASSUME NEW p \in Procs, req'[p].pc = "sweep"
                PROVE  /\ req'[p].targets \subseteq 1..issued
                       /\ \A t \in req'[p].targets : Covers(req[p], row[t])'
                       /\ req'[p].op \in FamilyOps => req'[p].tok \in 1..issued
    BY DEF SweepsCover
  <2>1. CASE req'[p] = req[p]
    BY <1>1, <1>3, <2>1 DEF RevocationInv, SweepsCover
  <2>2. CASE req'[p] # req[p]
    <3>1. /\ req'[p].targets = Targets(req'[p]) /\ row' = row
          /\ req'[p].op \in FamilyOps => req'[p].tok \in 1..issued
      BY <2>2 DEF RequestKeeps
    <3>. QED
      BY <1>1, <3>1 DEF Targets
  <2>. QED
    BY <2>1, <2>2
<1>5. RequestsFit'
  <2>1. \A q \in Procs : Rotating(q)' => req'[q].user = row'[req'[q].tok].user
    BY <1>1 DEF RevocationInv, RequestsFit, RequestKeeps, RowsKeep
  <2>. QED
    BY <2>1 DEF RequestsFit, RequestKeeps
<1>6. OneUserPerFamily'
  BY <1>1 DEF RevocationInv, OneUserPerFamily, RowsKeep
<1>7. SweptOrEscaped'
  <2>. SUFFICES ASSUME NEW p \in Procs, NEW t \in Tokens, req'[p].pc = "sweep",
                       Live(t)', Covers(req[p], row[t])'
                PROVE  t \in req'[p].targets \union escaped
    BY DEF SweptOrEscaped
  <2>1. CASE req'[p] = req[p]
    BY <1>2, <1>3, <2>1 DEF RevocationInv, SweptOrEscaped
  <2>2. CASE req'[p] # req[p]
    <3>1. req'[p].targets = Targets(req'[p]) /\ row' = row /\ stored' = stored
      BY <2>2 DEF RequestKeeps
    <3>. QED
      BY <3>1 DEF Targets, Live
  <2>. QED
    BY <2>1, <2>2
<1>8. \A p \in Procs : Rotating(p)' =>
          /\ Rotating(p) /\ req'[p].tok = req[p].tok /\ FamilyOf(p)' = FamilyOf(p)
          /\ Warned(p) => Warned(p)'
  BY <1>1 DEF RequestKeeps, RowsKeep, FamilyOf, Warned
<1>9. DeadRotationsAreWarned'
  BY <1>8 DEF RevocationInv, DeadRotationsAreWarned
<1>10. \A t \in Tokens : Entitled(t) => Entitled(t)'
  BY <1>1 DEF Entitled, RowsKeep, AccountsKeep
<1>11. RotationsAreEntitled'
  BY <1>1, <1>8, <1>10 DEF RevocationInv, RotationsAreEntitled
<1>12. DeadFamiliesLiveOnlyThroughRaces'
  BY <1>2 DEF RevocationInv, DeadFamiliesLiveOnlyThroughRaces, RowsKeep
<1>13. LiveTokensAreEntitled'
  BY <1>2, <1>10 DEF RevocationInv, LiveTokensAreEntitled, Entitled
<1>. QED
  BY <1>4, <1>5, <1>6, <1>7, <1>9, <1>11, <1>12, <1>13 DEF RevocationInv

\* A login's token is of a family that nothing has covered, and of the account as it
\* is, which no revocation has in hand, or it is in escaped.
LEMMA LoginCommitRevocation ==
    ASSUME SessionInv, RevocationInv, TypeOK', NEW p \in Procs, LoginCommit(p)
    PROVE  RevocationInv'
<1>. DEFINE u == req[p].user
            t == issued + 1
            r == NewRow(u, t, t, req[p].base.pwd)
<1>1. /\ issued' = t /\ stored' = stored \union {t} /\ issued < MaxTokens
      /\ row' = [row EXCEPT ![t] = r] /\ req' = [req EXCEPT ![p] = Idle]
      /\ escaped' = IF account[u] # req[p].base THEN escaped \union {t} ELSE escaped
      /\ UNCHANGED <<account, dead, lost>>
      /\ req[p].pc = "login" /\ ~UserLocked(u)
  BY DEF LoginCommit, Finish
<1>2. r.family = t /\ r.user = u /\ r.cred = req[p].base.pwd
  BY DEF NewRow
<1>. HIDE DEF r
<1>3. /\ issued \in Nat /\ t \in Tokens /\ t \notin 1..issued
      /\ \A x \in 1..issued : x \in Tokens /\ x # t
      /\ stored \subseteq 1..issued
  BY <1>1, SessionsAssumption DEF SessionInv, TypeOK, Tokens
<1>4. row'[t] = r /\ \A x \in Tokens : x # t => row'[x] = row[x]
  BY <1>1, <1>3 DEF SessionInv, TypeOK
<1>5. \A q \in Procs : req'[q].pc # "idle" => q # p /\ req'[q] = req[q]
  BY <1>1 DEF Idle, SessionInv, TypeOK
<1>6. \A x \in Tokens : Live(x)' /\ x # t => Live(x) /\ row'[x] = row[x]
  BY <1>1, <1>4 DEF Live
<1>7. \A q \in Procs : Rotating(q)' =>
          /\ Rotating(q) /\ req'[q] = req[q] /\ req[q].tok \in Tokens /\ req[q].tok # t
          /\ row'[req[q].tok] = row[req[q].tok]
  BY <1>3, <1>4, <1>5 DEF Rotating, SessionInv, RotatingIssued
<1>8. \A x \in 1..issued : row[x].family # t
  BY <1>3 DEF SessionInv, RowsPointBack
<1>9. escaped \subseteq escaped' /\ dead' = dead /\ lost' = lost
  BY <1>1
<1>10. dead' \subseteq 1..issued'
  BY <1>1, <1>3 DEF RevocationInv
<1>11. SweepsCover'
  <2>. SUFFICES ASSUME NEW q \in Procs, req'[q].pc = "sweep"
                PROVE  /\ req'[q].targets \subseteq 1..issued'
                       /\ \A x \in req'[q].targets : Covers(req'[q], row'[x])
                       /\ req'[q].op \in FamilyOps => req'[q].tok \in 1..issued'
    BY DEF SweepsCover
  <2>1. req'[q] = req[q] /\ req[q].pc = "sweep"
    BY <1>5
  <2>. QED
    BY <1>1, <1>3, <1>4, <2>1 DEF RevocationInv, SweepsCover
<1>12. RequestsFit'
  <2>1. \A q \in Procs : Rotating(q)' => req'[q].user = row'[req'[q].tok].user
    BY <1>7 DEF RevocationInv, RequestsFit
  <2>. QED
    BY <1>5, <2>1 DEF RevocationInv, RequestsFit
<1>13. OneUserPerFamily'
  <2>. SUFFICES ASSUME NEW x \in 1..issued', NEW y \in 1..issued',
                       row'[x].family = row'[y].family
                PROVE  row'[x].user = row'[y].user
    BY DEF OneUserPerFamily
  <2>1. x \in 1..issued \union {t} /\ y \in 1..issued \union {t}
    BY <1>1, <1>3
  <2>. QED
    BY <1>2, <1>3, <1>4, <1>8, <2>1 DEF RevocationInv, OneUserPerFamily
<1>14. ASSUME NEW q \in Procs, req[q].pc = "sweep", Covers(req[q], r) PROVE FALSE
  <2>1. CASE req[q].op \in Kills
    BY <1>1, <1>2, <1>14, <2>1 DEF Covers, Kills, FamilyOps, AccountOps, UserLocked
  <2>2. CASE req[q].op \in FamilyOps
    BY <1>2, <1>3, <1>14, <2>2 DEF Covers, Kills, FamilyOps, RevocationInv, SweepsCover
  <2>. QED
    BY <1>14, <2>1, <2>2 DEF Covers, FamilyOps
<1>15. SweptOrEscaped'
  <2>. SUFFICES ASSUME NEW q \in Procs, NEW x \in Tokens, req'[q].pc = "sweep",
                       Live(x)', Covers(req'[q], row'[x])
                PROVE  x \in req'[q].targets \union escaped'
    BY DEF SweptOrEscaped
  <2>1. req'[q] = req[q] /\ req[q].pc = "sweep"
    BY <1>5
  <2>2. x # t
    BY <1>4, <1>14, <2>1
  <2>. QED
    BY <1>6, <1>9, <2>1, <2>2 DEF RevocationInv, SweptOrEscaped
<1>16. DeadRotationsAreWarned'
  BY <1>7, <1>9 DEF RevocationInv, DeadRotationsAreWarned, Warned, FamilyOf
<1>17. RotationsAreEntitled'
  <2>. SUFFICES ASSUME NEW q \in Procs, Rotating(q)'
                PROVE  Entitled(req[q].tok)' \/ Warned(q)'
    BY DEF RotationsAreEntitled
  <2>1. Rotating(q) /\ req'[q] = req[q] /\ row'[req[q].tok] = row[req[q].tok]
    BY <1>7
  <2>2. Entitled(req[q].tok) \/ Warned(q)
    BY <2>1 DEF RevocationInv, RotationsAreEntitled
  <2>3. Warned(q) => Warned(q)'
    BY <1>9, <2>1 DEF Warned
  <2>4. Entitled(req[q].tok) => Entitled(req[q].tok)'
    BY <1>1, <1>9, <2>1 DEF Entitled
  <2>. QED
    BY <2>2, <2>3, <2>4
<1>18. DeadFamiliesLiveOnlyThroughRaces'
  <2>1. t \notin dead
    BY <1>3 DEF RevocationInv
  <2>. QED
    BY <1>2, <1>4, <1>6, <1>9, <2>1 DEF RevocationInv, DeadFamiliesLiveOnlyThroughRaces
<1>19. LiveTokensAreEntitled'
  <2>1. \A x \in Tokens : Live(x)' /\ x # t =>
            Entitled(x)' \/ x \in escaped'
    BY <1>1, <1>6, <1>9 DEF RevocationInv, LiveTokensAreEntitled, Entitled
  <2>2. ASSUME NEW x \in Tokens, x = t PROVE Entitled(x)' \/ x \in escaped'
    <3>1. CASE account[u] # req[p].base
      BY <1>1, <2>2, <3>1
    <3>2. CASE account[u] = req[p].base
      <4>1. account[u].status = "active" /\ account[u].pwd = r.cred
        BY <1>1, <1>2, <3>2 DEF RevocationInv, RequestsFit
      <4>2. account'[row'[x].user] = account[u] /\ row'[x].cred = r.cred
        BY <1>1, <1>2, <1>4, <2>2
      <4>. QED
        BY <4>1, <4>2 DEF Entitled
    <3>. QED
      BY <3>1, <3>2
  <2>3. \A x \in Tokens : Live(x)' => Entitled(x)' \/ x \in escaped'
    BY <2>1, <2>2
  <2>. QED
    BY <2>3 DEF LiveTokensAreEntitled, Entitled
<1>. QED
  BY <1>10, <1>11, <1>12, <1>13, <1>15, <1>16, <1>17, <1>18, <1>19 DEF RevocationInv

\* A refresh that begins presents a live token.
LEMMA RefreshReadRevocation ==
    ASSUME SessionInv, RevocationInv, TypeOK', NEW p \in Procs, NEW t \in Tokens,
           RefreshRead(p, t)
    PROVE  RevocationInv'
<1>. DEFINE r == [Idle EXCEPT !.pc = "rotate", !.op = "refresh", !.tok = t,
                              !.user = row[t].user]
<1>1. /\ UNCHANGED <<account, issued, stored, row, dead, escaped, lost>>
      /\ req' = [req EXCEPT ![p] = r] /\ Live(t)
  BY DEF RefreshRead, Start, table
<1>2. r.pc = "rotate" /\ r.tok = t /\ r.user = row[t].user
  BY DEF Idle
<1>. HIDE DEF r
<1>3. req'[p] = r /\ \A q \in Procs : q # p => req'[q] = req[q]
  BY <1>1 DEF SessionInv, TypeOK
<1>4. \A x : Live(x)' <=> Live(x)
  BY <1>1 DEF Live
<1>5. SweepsCover' /\ RequestsFit' /\ OneUserPerFamily' /\ SweptOrEscaped'
  <2>1. SweepsCover'
    BY <1>1, <1>2, <1>3 DEF RevocationInv, SweepsCover
  <2>2. RequestsFit'
    BY <1>1, <1>2, <1>3 DEF RevocationInv, RequestsFit, Rotating
  <2>3. OneUserPerFamily'
    BY <1>1 DEF RevocationInv, OneUserPerFamily
  <2>4. SweptOrEscaped'
    BY <1>1, <1>2, <1>3, <1>4 DEF RevocationInv, SweptOrEscaped
  <2>. QED
    BY <2>1, <2>2, <2>3, <2>4
<1>6. DeadRotationsAreWarned'
  <2>. SUFFICES ASSUME NEW q \in Procs, Rotating(q)', FamilyOf(q)' \in dead'
                PROVE  Warned(q)'
    BY DEF DeadRotationsAreWarned
  <2>1. CASE q = p
    BY <1>1, <1>2, <1>3, <2>1
    DEF RevocationInv, DeadFamiliesLiveOnlyThroughRaces, Warned, FamilyOf
  <2>2. CASE q # p
    BY <1>1, <1>3, <2>2 DEF RevocationInv, DeadRotationsAreWarned, Warned, FamilyOf, Rotating
  <2>. QED
    BY <2>1, <2>2
<1>7. RotationsAreEntitled'
  <2>. SUFFICES ASSUME NEW q \in Procs, Rotating(q)'
                PROVE  Entitled(req[q].tok)' \/ Warned(q)'
    BY DEF RotationsAreEntitled
  <2>1. CASE q = p
    BY <1>1, <1>2, <1>3, <2>1
    DEF RevocationInv, LiveTokensAreEntitled, Warned, Entitled
  <2>2. CASE q # p
    BY <1>1, <1>3, <2>2 DEF RevocationInv, RotationsAreEntitled, Warned, Entitled, Rotating
  <2>. QED
    BY <2>1, <2>2
<1>8. DeadFamiliesLiveOnlyThroughRaces' /\ LiveTokensAreEntitled'
  BY <1>1, <1>4
  DEF RevocationInv, DeadFamiliesLiveOnlyThroughRaces, LiveTokensAreEntitled
<1>. QED
  BY <1>1, <1>5, <1>6, <1>7, <1>8 DEF RevocationInv

\* The successor is in escaped if anything has revoked, or has in hand, its session,
\* and is entitled otherwise, as its parent was.
LEMMA RefreshCommitRevocation ==
    ASSUME SessionInv, RevocationInv, TypeOK', NEW p \in Procs, RefreshCommit(p)
    PROVE  RevocationInv'
<1>. DEFINE s == req[p].tok
            t == issued + 1
            f == row[s].family
            r == NewRow(req[p].user, f, s, row[s].cred)
            caught == \/ req[p].doomed \/ s \in escaped
                      \/ \E q \in Procs : req[q].pc = "sweep" /\ Covers(req[q], r)
<1>1. /\ issued' = t /\ stored' = stored \union {t} /\ issued < MaxTokens
      /\ row' = [row EXCEPT ![s].revoked = TRUE, ![t] = r]
      /\ req' = [req EXCEPT ![p] = Idle] /\ req[p].pc = "save"
      /\ escaped' = IF caught THEN escaped \union {t} ELSE escaped
      /\ UNCHANGED <<account, dead, lost>>
  BY DEF RefreshCommit, Finish
<1>2. r.family = f /\ r.user = req[p].user /\ r.cred = row[s].cred
  BY DEF NewRow
<1>3. /\ issued \in Nat /\ t \in Tokens /\ t \notin 1..issued
      /\ \A x \in 1..issued : x \in Tokens /\ x # t
      /\ stored \subseteq 1..issued
  BY <1>1, SessionsAssumption DEF SessionInv, TypeOK, Tokens
<1>4. /\ Rotating(p) /\ s \in 1..issued /\ s = req[p].tok
      /\ f \in 1..issued /\ FamilyOf(p) = f /\ f = row[s].family
      /\ req[p].user = row[s].user
  BY <1>1 DEF Rotating, SessionInv, RotatingIssued, RowsPointBack, FamilyOf,
     RevocationInv, RequestsFit
<1>c. \A q \in Procs : req[q].pc = "sweep" /\ Covers(req[q], r) => caught
  OBVIOUS
<1>w. Warned(p) => caught
  BY DEF Warned
<1>. HIDE DEF r, s, f, caught
<1>5. /\ row'[t] = r
      /\ \A x \in Tokens : x # t =>
             /\ row'[x].family = row[x].family /\ row'[x].user = row[x].user
             /\ row'[x].cred = row[x].cred
  BY <1>1, <1>3, <1>4 DEF SessionInv, TypeOK, Row
<1>6. \A x \in Tokens : Live(x)' /\ x # t => Live(x)
  <2>1. \A x \in Tokens : x # t => row'[x] = row[x] \/ row'[x].revoked
    BY <1>1, <1>3, <1>4 DEF SessionInv, TypeOK, Row
  <2>. QED
    BY <1>1, <2>1 DEF Live
<1>7. \A q \in Procs : req'[q].pc # "idle" => q # p /\ req'[q] = req[q]
  BY <1>1 DEF Idle, SessionInv, TypeOK
<1>8. \A q \in Procs : Rotating(q)' =>
          /\ Rotating(q) /\ req'[q] = req[q] /\ req[q].tok \in Tokens /\ req[q].tok # t
  BY <1>3, <1>7 DEF Rotating, SessionInv, RotatingIssued
<1>9. escaped \subseteq escaped' /\ dead' = dead /\ lost' = lost /\ account' = account
  BY <1>1
<1>e. caught => t \in escaped'
  BY <1>1
<1>i. 1..issued' = 1..issued \union {t}
  <2>1. issued' = t
    BY <1>1
  <2>. QED
    BY <1>3, <2>1
<1>10. dead' \subseteq 1..issued'
  BY <1>1, <1>3 DEF RevocationInv
<1>11. ASSUME NEW q \in Procs, req'[q].pc = "sweep"
       PROVE  /\ req'[q] = req[q] /\ req[q].pc = "sweep"
              /\ \A x \in Tokens : x # t =>
                     (Covers(req'[q], row'[x]) <=> Covers(req[q], row[x]))
  <2>1. req'[q] = req[q] /\ req[q].pc = "sweep"
    BY <1>7, <1>11
  <2>. QED
    BY <1>5, <2>1, CoversSame
<1>12. SweepsCover'
  <2>. SUFFICES ASSUME NEW q \in Procs, req'[q].pc = "sweep"
                PROVE  /\ req'[q].targets \subseteq 1..issued'
                       /\ \A x \in req'[q].targets : Covers(req'[q], row'[x])
                       /\ req'[q].op \in FamilyOps => req'[q].tok \in 1..issued'
    BY DEF SweepsCover
  <2>1. req'[q] = req[q] /\ req[q].pc = "sweep"
    BY <1>11
  <2>2. /\ req[q].targets \subseteq 1..issued
        /\ req[q].op \in FamilyOps => req[q].tok \in 1..issued
        /\ \A x \in req[q].targets : Covers(req[q], row[x])
    BY <2>1 DEF RevocationInv, SweepsCover
  <2>3. \A x \in req'[q].targets : Covers(req'[q], row'[x])
    BY <1>3, <1>11, <2>1, <2>2
  <2>. QED
    BY <1>i, <2>1, <2>2, <2>3
<1>13. RequestsFit'
  <2>1. \A q \in Procs : Rotating(q)' => req'[q].user = row'[req'[q].tok].user
    BY <1>5, <1>8 DEF RevocationInv, RequestsFit
  <2>. QED
    BY <1>7, <2>1 DEF RevocationInv, RequestsFit
<1>14. OneUserPerFamily'
  <2>. SUFFICES ASSUME NEW x \in 1..issued', NEW y \in 1..issued',
                       row'[x].family = row'[y].family
                PROVE  row'[x].user = row'[y].user
    BY DEF OneUserPerFamily
  <2>. DEFINE old(z) == IF z = t THEN s ELSE z
  <2>1. \A z \in 1..issued' : /\ old(z) \in 1..issued
                              /\ row'[z].family = row[old(z)].family
                              /\ row'[z].user = row[old(z)].user
    BY <1>i, <1>2, <1>3, <1>4, <1>5
  <2>. QED
    BY <2>1 DEF RevocationInv, OneUserPerFamily
<1>15. SweptOrEscaped'
  <2>. SUFFICES ASSUME NEW q \in Procs, NEW x \in Tokens, req'[q].pc = "sweep",
                       Live(x)', Covers(req'[q], row'[x])
                PROVE  x \in req'[q].targets \union escaped'
    BY DEF SweptOrEscaped
  <2>1. req'[q] = req[q] /\ req[q].pc = "sweep"
    BY <1>11
  <2>2. CASE x = t
    BY <1>5, <1>c, <1>e, <2>1, <2>2
  <2>3. CASE x # t
    BY <1>6, <1>9, <1>11, <2>1, <2>3 DEF RevocationInv, SweptOrEscaped
  <2>. QED
    BY <2>2, <2>3
<1>16. DeadRotationsAreWarned'
  BY <1>5, <1>8, <1>9 DEF RevocationInv, DeadRotationsAreWarned, Warned, FamilyOf
<1>17. \A x \in Tokens : x # t /\ Entitled(x) => Entitled(x)'
  BY <1>5, <1>9 DEF Entitled
<1>18. RotationsAreEntitled'
  BY <1>8, <1>9, <1>17 DEF RevocationInv, RotationsAreEntitled, Warned
<1>19. DeadFamiliesLiveOnlyThroughRaces'
  <2>. SUFFICES ASSUME NEW x \in Tokens, Live(x)', row'[x].family \in dead
                PROVE  x \in escaped'
    BY <1>9 DEF DeadFamiliesLiveOnlyThroughRaces
  <2>1. CASE x = t
    BY <1>2, <1>4, <1>5, <1>e, <1>w, <2>1 DEF RevocationInv, DeadRotationsAreWarned
  <2>2. CASE x # t
    BY <1>5, <1>6, <1>9, <2>2 DEF RevocationInv, DeadFamiliesLiveOnlyThroughRaces
  <2>. QED
    BY <2>1, <2>2
<1>20. LiveTokensAreEntitled'
  <2>. SUFFICES ASSUME NEW x \in Tokens, Live(x)'
                PROVE  Entitled(x)' \/ x \in escaped'
    BY DEF LiveTokensAreEntitled, Entitled
  <2>1. CASE x = t
    <3>1. row'[x].user = row[s].user /\ row'[x].cred = row[s].cred
      BY <1>2, <1>4, <1>5, <2>1
    <3>2. Entitled(s) \/ caught
      BY <1>4, <1>w DEF RevocationInv, RotationsAreEntitled
    <3>3. Entitled(s) => Entitled(x)'
      BY <1>9, <3>1 DEF Entitled
    <3>. QED
      BY <1>e, <2>1, <3>2, <3>3
  <2>2. CASE x # t
    <3>1. Entitled(x) \/ x \in escaped
      BY <1>6, <2>2 DEF RevocationInv, LiveTokensAreEntitled, Entitled
    <3>. QED
      BY <1>9, <1>17, <2>2, <3>1
  <2>. QED
    BY <2>1, <2>2
<1>. QED
  BY <1>10, <1>12, <1>13, <1>14, <1>15, <1>16, <1>18, <1>19, <1>20 DEF RevocationInv

\* An operation that does not revoke leaves an account at least as it was, or has
\* overwritten what it had not read.
LEMMA WrittenKeeps ==
    ASSUME TypeOK, NEW p \in Procs, account' = Written(p), lost' = LostWith(p)
    PROVE  /\ lost \subseteq lost'
           /\ \A u \in Users :
                 \/ account'[u] = account[u]
                 \/ account'[u].status = "active" /\ account'[u].pwd = account[u].pwd
                 \/ u \in lost'
                 \/ req[p].op \in Kills /\ u = req[p].user
<1>. DEFINE r == req[p]
<1>1. r \in Request /\ account \in [Users -> Account]
  BY DEF TypeOK
<1>2. r.user \in Users /\ account[r.user] \in Account
  BY <1>1 DEF Request
<1>3. CASE r.op \notin AccountOps
  BY <1>3 DEF Written, LostWith
<1>4. CASE r.op \in AccountOps /\ account[r.user] # r.base
  BY <1>1, <1>2, <1>4 DEF Written, LostWith
<1>5. CASE r.op \in AccountOps /\ account[r.user] = r.base
  <2>1. account' = [account EXCEPT ![r.user] = Patch(r.op, account[r.user], r.pwd)]
            /\ lost' = lost
    BY <1>5 DEF Written, LostWith
  <2>2. ASSUME r.op \notin Kills, NEW a \in Account
        PROVE  \/ Patch(r.op, a, r.pwd) = a
               \/ /\ Patch(r.op, a, r.pwd).status = "active"
                  /\ Patch(r.op, a, r.pwd).pwd = a.pwd
    <3>1. r.op \in {"activate", "restore", "edit"}
      BY <1>5, <2>2 DEF AccountOps, Kills
    <3>. QED
      BY <3>1 DEF Patch, Account
  <2>. QED
    BY <1>1, <1>2, <2>1, <2>2
<1>. QED
  BY <1>3, <1>4, <1>5

\* What a revocation leaves alive of what it covers is in escaped.
LEMMA SweepRevocation ==
    ASSUME SessionInv, RevocationInv, TypeOK', NEW p \in Procs, Sweep(p)
    PROVE  RevocationInv'
<1>. DEFINE gone == req[p].targets
<1>1. /\ req[p].pc = "sweep" /\ account' = Written(p) /\ lost' = LostWith(p)
      /\ row' = [t \in Tokens |-> IF t \in gone THEN [row[t] EXCEPT !.revoked = TRUE]
                                                ELSE row[t]]
      /\ dead' = dead \union {row[t].family : t \in gone}
      /\ UNCHANGED <<issued, stored, escaped>>
  BY DEF Sweep
<1>2. /\ gone \subseteq 1..issued /\ \A t \in gone : Covers(req[p], row[t])
      /\ \A t \in 1..issued : t \in Tokens /\ row[t].family \in 1..issued
  <2>1. \A t \in 1..issued : t \in Tokens
    BY SessionsAssumption DEF SessionInv, TypeOK, Tokens
  <2>. QED
    BY <1>1, <2>1 DEF RevocationInv, SweepsCover, SessionInv, RowsPointBack
<1>3. /\ req'[p].pc = "idle"
      /\ \A q \in Procs : q # p =>
            /\ req'[q].pc = req[q].pc /\ req'[q].tok = req[q].tok /\ req'[q].op = req[q].op
            /\ req'[q].user = req[q].user /\ req'[q].base = req[q].base
            /\ req'[q].targets = req[q].targets
            /\ req[q].doomed => req'[q].doomed
            /\ Rotating(q) /\ Covers(req[p], row[req[q].tok]) => req'[q].doomed
  <2>1. \A q \in Procs : req[q] \in Request
    BY DEF SessionInv, TypeOK
  <2>2. req' = [q \in Procs |->
                  IF q = p THEN Idle
                  ELSE IF Rotating(q) /\ Covers(req[p], row[req[q].tok])
                  THEN [req[q] EXCEPT !.doomed = TRUE] ELSE req[q]]
    BY DEF Sweep
  <2>3. req'[p].pc = "idle"
    BY <2>2 DEF Idle
  <2>4. ASSUME NEW q \in Procs, q # p
        PROVE  \/ ~(Rotating(q) /\ Covers(req[p], row[req[q].tok])) /\ req'[q] = req[q]
               \/ req'[q] = [req[q] EXCEPT !.doomed = TRUE]
    BY <2>2, <2>4
  <2>5. ASSUME NEW r \in Request
        PROVE  LET d == [r EXCEPT !.doomed = TRUE]
               IN  /\ d.pc = r.pc /\ d.tok = r.tok /\ d.op = r.op /\ d.user = r.user
                   /\ d.base = r.base /\ d.targets = r.targets /\ d.doomed
    BY DEF Request
  <2>6. ASSUME NEW q \in Procs, q # p
        PROVE  /\ req'[q].pc = req[q].pc /\ req'[q].tok = req[q].tok
               /\ req'[q].op = req[q].op /\ req'[q].user = req[q].user
               /\ req'[q].base = req[q].base /\ req'[q].targets = req[q].targets
               /\ req[q].doomed => req'[q].doomed
               /\ Rotating(q) /\ Covers(req[p], row[req[q].tok]) => req'[q].doomed
    <3>1. CASE req'[q] = req[q] /\ ~(Rotating(q) /\ Covers(req[p], row[req[q].tok]))
      BY <3>1
    <3>2. CASE req'[q] = [req[q] EXCEPT !.doomed = TRUE]
      BY <2>1, <2>5, <3>2
    <3>. QED
      BY <2>4, <2>6, <3>1, <3>2
  <2>. QED
    BY <2>3, <2>6
<1>4. \A t \in Tokens :
          /\ row'[t].family = row[t].family /\ row'[t].user = row[t].user
          /\ row'[t].cred = row[t].cred
          /\ Live(t)' => Live(t) /\ t \notin gone
  BY <1>1 DEF SessionInv, TypeOK, Row, Live
<1>. HIDE DEF gone
<1>5. \A t \in Tokens : Live(t)' /\ Covers(req[p], row[t]) => t \in escaped
  BY <1>1, <1>4 DEF RevocationInv, SweptOrEscaped, gone
<1>6. ASSUME NEW t \in gone, NEW x \in 1..issued, row[x].family = row[t].family
      PROVE  Covers(req[p], row[x])
  <2>1. row[x].user = row[t].user /\ Covers(req[p], row[t])
    BY <1>2, <1>6 DEF RevocationInv, OneUserPerFamily
  <2>. QED
    BY <1>6, <2>1, CoversSame
<1>7. ASSUME NEW t \in Tokens, Entitled(t)
      PROVE  Entitled(t)' \/ Covers(req[p], row[t])
  <2>1. row[t].user \in Users
    BY DEF SessionInv, TypeOK, Row
  <2>2. CASE req[p].op \in Kills /\ row[t].user = req[p].user
    BY <2>2 DEF Covers
  <2>3. CASE ~(req[p].op \in Kills /\ row[t].user = req[p].user)
    <3>1. /\ lost \subseteq lost'
          /\ LET u == row[t].user
             IN  \/ account'[u] = account[u]
                 \/ account'[u].status = "active" /\ account'[u].pwd = account[u].pwd
                 \/ u \in lost'
      BY <1>1, <2>1, <2>3, WrittenKeeps DEF SessionInv
    <3>. QED
      BY <1>4, <1>7, <3>1 DEF Entitled
  <2>. QED
    BY <2>2, <2>3
<1>8. \A q \in Procs : Rotating(q)' =>
          /\ q # p /\ Rotating(q) /\ req'[q].tok = req[q].tok
          /\ req[q].tok \in 1..issued /\ req[q].tok \in Tokens
          /\ Warned(q) \/ Covers(req[p], row[req[q].tok]) => Warned(q)'
  BY <1>1, <1>2, <1>3 DEF Rotating, Warned, SessionInv, RotatingIssued
<1>9. dead' \subseteq 1..issued'
  BY <1>1, <1>2 DEF RevocationInv, gone
<1>10. ASSUME NEW q \in Procs, req'[q].pc = "sweep"
       PROVE  /\ q # p /\ req[q].pc = "sweep" /\ req'[q].targets = req[q].targets
              /\ req'[q].op = req[q].op /\ req'[q].tok = req[q].tok
              /\ \A x \in Tokens : Covers(req'[q], row'[x]) <=> Covers(req[q], row[x])
  <2>1. q # p /\ req[q].pc = "sweep"
    BY <1>3, <1>10
  <2>. QED
    BY <1>3, <1>4, <2>1, CoversSame
<1>11. SweepsCover'
  <2>. SUFFICES ASSUME NEW q \in Procs, req'[q].pc = "sweep"
                PROVE  /\ req'[q].targets \subseteq 1..issued'
                       /\ \A x \in req'[q].targets : Covers(req'[q], row'[x])
                       /\ req'[q].op \in FamilyOps => req'[q].tok \in 1..issued'
    BY DEF SweepsCover
  <2>. QED
    BY <1>1, <1>2, <1>10 DEF RevocationInv, SweepsCover
<1>12. RequestsFit'
  <2>1. \A q \in Procs : Rotating(q)' => req'[q].user = row'[req'[q].tok].user
    BY <1>3, <1>4, <1>8 DEF RevocationInv, RequestsFit
  <2>. QED
    BY <1>3, <2>1 DEF RevocationInv, RequestsFit
<1>13. OneUserPerFamily'
  BY <1>1, <1>2, <1>4 DEF RevocationInv, OneUserPerFamily
<1>14. SweptOrEscaped'
  BY <1>1, <1>4, <1>10 DEF RevocationInv, SweptOrEscaped
<1>15. DeadRotationsAreWarned'
  <2>. SUFFICES ASSUME NEW q \in Procs, Rotating(q)', FamilyOf(q)' \in dead'
                PROVE  Warned(q)'
    BY DEF DeadRotationsAreWarned
  <2>1. FamilyOf(q)' = row[req[q].tok].family
    BY <1>4, <1>8 DEF FamilyOf
  <2>2. CASE FamilyOf(q)' \in dead
    BY <1>8, <2>1, <2>2 DEF RevocationInv, DeadRotationsAreWarned, FamilyOf
  <2>3. CASE FamilyOf(q)' \notin dead
    <3>1. PICK t \in gone : FamilyOf(q)' = row[t].family
      BY <1>1, <2>3 DEF gone
    <3>2. Covers(req[p], row[req[q].tok])
      BY <1>6, <1>8, <2>1, <3>1
    <3>. QED
      BY <1>8, <3>2
  <2>. QED
    BY <2>2, <2>3
<1>16. RotationsAreEntitled'
  BY <1>7, <1>8 DEF RevocationInv, RotationsAreEntitled
<1>17. DeadFamiliesLiveOnlyThroughRaces'
  <2>. SUFFICES ASSUME NEW x \in Tokens, Live(x)', row[x].family \in dead'
                PROVE  x \in escaped
    BY <1>1, <1>4 DEF DeadFamiliesLiveOnlyThroughRaces
  <2>1. x \in 1..issued
    BY <1>4 DEF Live, SessionInv, TypeOK
  <2>2. CASE row[x].family \in dead
    BY <1>4, <2>2 DEF RevocationInv, DeadFamiliesLiveOnlyThroughRaces
  <2>3. CASE row[x].family \notin dead
    <3>1. PICK t \in gone : row[x].family = row[t].family
      BY <1>1, <2>3 DEF gone
    <3>. QED
      BY <1>5, <1>6, <2>1, <3>1
  <2>. QED
    BY <2>2, <2>3
<1>18. LiveTokensAreEntitled'
  <2>. SUFFICES ASSUME NEW x \in Tokens, Live(x)'
                PROVE  Entitled(x)' \/ x \in escaped'
    BY DEF LiveTokensAreEntitled, Entitled
  <2>1. Entitled(x) \/ x \in escaped
    BY <1>4 DEF RevocationInv, LiveTokensAreEntitled, Entitled
  <2>. QED
    BY <1>1, <1>5, <1>7, <2>1
<1>. QED
  BY <1>9, <1>11, <1>12, <1>13, <1>14, <1>15, <1>16, <1>17, <1>18 DEF RevocationInv

\* One request changes, and of the rest at most an account, which keeps what it
\* entitles to.
LEMMA QuietRequestRevocation ==
    ASSUME SessionInv, RevocationInv, TypeOK', NEW p \in Procs, NEW r,
           req' = [req EXCEPT ![p] = r], UNCHANGED <<issued, stored, row, dead, escaped>>,
           AccountsKeep, lost \subseteq lost',
           RequestKeeps(p)
    PROVE  RevocationInv'
<1>1. RowsKeep
  BY DEF RowsKeep
<1>2. ASSUME NEW q \in Procs PROVE RequestKeeps(q)
  <2>1. CASE q = p
    BY <2>1
  <2>2. CASE q # p
    <3>1. req'[q] = req[q]
      BY <2>2 DEF SessionInv, TypeOK
    <3>. QED
      BY <3>1 DEF RequestKeeps, Rotating, RevocationInv, RequestsFit
  <2>. QED
    BY <2>1, <2>2
<1>. QED
  BY <1>1, <1>2, QuietRevocation

\* Only rows change.
LEMMA QuietRowsRevocation ==
    ASSUME SessionInv, RevocationInv, TypeOK', RowsKeep, stored' \subseteq stored,
           UNCHANGED <<account, issued, req, dead, escaped, lost>>
    PROVE  RevocationInv'
<1>1. AccountsKeep
  BY DEF AccountsKeep
<1>2. ASSUME NEW q \in Procs PROVE RequestKeeps(q)
  BY DEF RequestKeeps, Rotating, RevocationInv, RequestsFit
<1>. QED
  BY <1>1, <1>2, QuietRevocation

\* A request begins.
LEMMA BeginRevocation ==
    ASSUME SessionInv, RevocationInv, TypeOK', NEW p \in Procs, Begin(p)
    PROVE  RevocationInv'
<1>t. TypeOK
  BY DEF SessionInv
<1>k. ASSUME account' = account PROVE AccountsKeep
  BY <1>k DEF AccountsKeep
<1>0. ASSUME NEW r, Start(p, r), account' = account, table' = table, history' = history,
             RequestKeeps(p)
      PROVE  RevocationInv'
  BY <1>0, <1>k, QuietRequestRevocation DEF Start, table, history
<1>1. ASSUME NEW u \in Users, LoginRead(p, u) PROVE RevocationInv'
  <2>. DEFINE r == [Idle EXCEPT !.pc = "login", !.op = "login", !.user = u,
                                !.base = account[u]]
  <2>1. r.pc = "login" /\ r.base = account[u]
    BY DEF Idle
  <2>. HIDE DEF r
  <2>2. /\ Start(p, r) /\ account' = account /\ table' = table /\ history' = history
        /\ account[u].status = "active"
    BY <1>1 DEF LoginRead, r
  <2>3. req'[p] = r
    BY <1>t, <2>2 DEF Start, TypeOK
  <2>4. RequestKeeps(p)
    BY <2>1, <2>2, <2>3 DEF RequestKeeps, Rotating
  <2>. QED
    BY <1>0, <2>2, <2>4
<1>2. ASSUME NEW t \in Tokens, RefreshRead(p, t) PROVE RevocationInv'
  BY <1>2, RefreshReadRevocation
<1>3. ASSUME NEW t \in Tokens, RefreshExpired(p, t) PROVE RevocationInv'
  <2>1. /\ row' = [row EXCEPT ![t].revoked = TRUE]
        /\ UNCHANGED <<account, issued, stored, req, dead, escaped, lost>>
    BY <1>3 DEF RefreshExpired, history
  <2>2. RowsKeep
    BY <1>t, <2>1 DEF RowsKeep, TypeOK, Row
  <2>. QED
    BY <2>1, <2>2, QuietRowsRevocation
<1>4. ASSUME NEW op \in FamilyOps, NEW u, NEW t \in 1..issued, SweepStart(p, op, u, t)
      PROVE  RevocationInv'
  <2>. DEFINE b == [Idle EXCEPT !.pc = "sweep", !.op = op, !.user = u, !.tok = t]
              r == [b EXCEPT !.targets = Targets(b)]
  <2>1. /\ r.pc = "sweep" /\ r.op = op /\ r.user = u /\ r.tok = t
        /\ r.targets = Targets(b)
        /\ b.op = op /\ b.user = u /\ b.tok = t
    BY DEF Idle
  <2>2. Start(p, r) /\ account' = account /\ table' = table /\ history' = history
    BY <1>4 DEF SweepStart
  <2>. HIDE DEF r, b
  <2>3. req'[p] = r
    BY <1>t, <2>2 DEF Start, TypeOK
  <2>4. Targets(b) = Targets(r)
    BY <2>1 DEF Targets, Covers
  <2>5. Targets(req[p])' = Targets(r)
    BY <2>2, <2>3 DEF Targets, table, Covers
  <2>6. /\ req'[p].pc = "sweep" /\ req'[p].targets = Targets(req[p])'
        /\ row' = row /\ stored' = stored /\ req'[p].tok \in 1..issued
    BY <1>4, <2>1, <2>2, <2>3, <2>4, <2>5 DEF table
  <2>7. RequestKeeps(p)
    <3>1. req'[p].targets = Targets(req'[p])
      BY <2>1, <2>2, <2>3, <2>4 DEF Targets, table
    <3>. QED
      BY <2>6, <3>1 DEF RequestKeeps, Rotating
  <2>. QED
    BY <1>0, <2>2, <2>7
<1>5. ASSUME NEW t \in Tokens, RefreshReuse(p, t) \/ Logout(p, t) PROVE RevocationInv'
  <2>1. t \in stored
    BY <1>5 DEF RefreshReuse, Logout
  <2>2. row[t].family \in 1..issued
    BY <1>t, <2>1 DEF TypeOK, SessionInv, RowsPointBack
  <2>. QED
    BY <1>4, <1>5, <2>2 DEF RefreshReuse, Logout, FamilyOps
<1>6. ASSUME NEW u \in Users, NEW f \in Tokens, RevokeSession(p, u, f)
      PROVE  RevocationInv'
  <2>1. f \in 1..issued
    BY <1>t, <1>6 DEF RevokeSession, TypeOK, SessionInv, RowsPointBack
  <2>. QED
    BY <1>4, <1>6, <2>1 DEF RevokeSession, FamilyOps
<1>7. ASSUME NEW op, NEW u, NEW v, AccountStart(p, op, u, v) PROVE RevocationInv'
  <2>. DEFINE r == [Idle EXCEPT !.pc = "select", !.op = op, !.user = u, !.pwd = v]
  <2>1. r.pc = "select"
    BY DEF Idle
  <2>. HIDE DEF r
  <2>2. Start(p, r) /\ account' = account /\ table' = table /\ history' = history
    BY <1>7 DEF AccountStart, r
  <2>3. req'[p] = r
    BY <1>t, <2>2 DEF Start, TypeOK
  <2>4. RequestKeeps(p)
    BY <2>1, <2>3 DEF RequestKeeps, Rotating
  <2>. QED
    BY <1>0, <2>2, <2>4
<1>. QED
  BY <1>1, <1>2, <1>3, <1>5, <1>6, <1>7
  DEF Begin, ChangePassword, ResetPassword, Suspend, Activate, SoftDelete, Restore,
      EditAccount

\* A request goes on.
LEMMA StepRevocation ==
    ASSUME SessionInv, RevocationInv, TypeOK', NEW p \in Procs, Step(p)
    PROVE  RevocationInv'
<1>r. req \in [Procs -> Request] /\ req[p] \in Request /\ TypeOK
  BY DEF SessionInv, TypeOK
<1>i. Idle.pc = "idle"
  BY DEF Idle
<1>k. ASSUME account' = account PROVE AccountsKeep
  BY <1>k DEF AccountsKeep
<1>0. ASSUME NEW r, req' = [req EXCEPT ![p] = r], account' = account, table' = table,
             history' = history, RequestKeeps(p)
      PROVE  RevocationInv'
  BY <1>0, <1>k, QuietRequestRevocation DEF table, history
<1>f. ASSUME Finish(p), account' = account, table' = table, history' = history
      PROVE  RevocationInv'
  <2>1. req' = [req EXCEPT ![p] = Idle] /\ req'[p].pc = "idle"
    BY <1>f, <1>i, <1>r DEF Finish
  <2>2. RequestKeeps(p)
    BY <2>1 DEF RequestKeeps, Rotating
  <2>. QED
    BY <1>0, <1>f, <2>1, <2>2
<1>1. CASE LoginCommit(p)
  BY <1>1, LoginCommitRevocation
<1>2. CASE Rotate(p)
  <2>1. account' = account /\ table' = table /\ history' = history /\ Rotating(p)
    BY <1>2 DEF Rotate, Rotating
  <2>2. CASE Goto(p, "save")
    <3>. DEFINE r == [req[p] EXCEPT !.pc = "save"]
    <3>1. req' = [req EXCEPT ![p] = r] /\ req'[p] = r
      BY <1>r, <2>2 DEF Goto
    <3>2. r.pc = "save" /\ r.tok = req[p].tok /\ r.user = req[p].user
              /\ r.doomed = req[p].doomed
      BY <1>r DEF Request
    <3>. HIDE DEF r
    <3>3. RequestKeeps(p)
      BY <2>1, <3>1, <3>2 DEF RequestKeeps
    <3>. QED
      BY <1>0, <2>1, <3>1, <3>3
  <2>. QED
    BY <1>2, <1>f, <2>1, <2>2 DEF Rotate
<1>3. CASE RefreshCommit(p)
  BY <1>3, RefreshCommitRevocation
<1>4. CASE AccountSelect(p)
  <2>1. account' = account /\ table' = table /\ history' = history
    BY <1>4 DEF AccountSelect
  <2>2. CASE req' = [req EXCEPT ![p].base = account[req[p].user], ![p].pc = "update"]
    <3>. DEFINE r == [req[p] EXCEPT !.base = account[req[p].user], !.pc = "update"]
    <3>1. req' = [req EXCEPT ![p] = r] /\ req'[p] = r /\ r.pc = "update"
      BY <1>r, <2>2 DEF Request
    <3>. HIDE DEF r
    <3>2. RequestKeeps(p)
      BY <3>1 DEF RequestKeeps, Rotating
    <3>. QED
      BY <1>0, <2>1, <3>1, <3>2
  <2>. QED
    BY <1>4, <1>f, <2>1, <2>2 DEF AccountSelect
<1>5. CASE AccountUpdate(p)
  <2>. DEFINE r == [req[p] EXCEPT
                      !.pc = IF req[p].op \in Kills THEN "sweep" ELSE "commit",
                      !.targets = Targets(req[p])]
  <2>1. /\ account' = account /\ table' = table /\ history' = history
        /\ req' = [req EXCEPT ![p] = r] /\ req'[p] = r
    BY <1>5, <1>r DEF AccountUpdate, Request
  <2>2. /\ r.pc = IF req[p].op \in Kills THEN "sweep" ELSE "commit"
        /\ r.targets = Targets(req[p]) /\ r.op = req[p].op
        /\ r.tok = req[p].tok /\ r.user = req[p].user
    BY <1>r DEF Request
  <2>. HIDE DEF r
  <2>3. req'[p].targets = Targets(req'[p])
    BY <2>1, <2>2 DEF Targets, table, Covers
  <2>4. Kills \intersect FamilyOps = {}
    BY DEF Kills, FamilyOps
  <2>5. RequestKeeps(p)
    BY <2>1, <2>2, <2>3, <2>4 DEF RequestKeeps, Rotating, table
  <2>. QED
    BY <1>0, <2>1, <2>5
<1>6. CASE AccountCommit(p)
  <2>1. /\ account' = Written(p) /\ lost' = LostWith(p) /\ req[p].op \notin Kills
        /\ UNCHANGED <<issued, stored, row, dead, escaped>>
        /\ req' = [req EXCEPT ![p] = Idle] /\ req'[p].pc = "idle"
    BY <1>6, <1>i, <1>r DEF AccountCommit, Finish, table, RevocationInv, RequestsFit
  <2>2. AccountsKeep /\ lost \subseteq lost'
    BY <1>r, <2>1, WrittenKeeps DEF AccountsKeep
  <2>3. RequestKeeps(p)
    BY <2>1 DEF RequestKeeps, Rotating
  <2>. QED
    BY <2>1, <2>2, <2>3, QuietRequestRevocation
<1>7. CASE Sweep(p)
  BY <1>7, SweepRevocation
<1>. QED
  BY <1>1, <1>2, <1>3, <1>4, <1>5, <1>6, <1>7 DEF Step

LEMMA NextRevocation == SessionInv /\ RevocationInv /\ [Next]_vars => RevocationInv'
<1>. SUFFICES ASSUME SessionInv, RevocationInv, [Next]_vars PROVE RevocationInv'
  OBVIOUS
<1>t. TypeOK /\ TypeOK'
  BY NextType DEF SessionInv
<1>1. ASSUME NEW p \in Procs, Begin(p) PROVE RevocationInv'
  BY <1>1, <1>t, BeginRevocation
<1>2. ASSUME NEW p \in Procs, Step(p) PROVE RevocationInv'
  BY <1>2, <1>t, StepRevocation
<1>3. ASSUME NEW p \in Procs, Abort(p) PROVE RevocationInv'
  <2>1. /\ req' = [req EXCEPT ![p] = Idle] /\ req'[p].pc = "idle"
        /\ UNCHANGED <<account, issued, stored, row, dead, escaped, lost>>
    BY <1>3, <1>t DEF Abort, Finish, table, history, Idle, TypeOK
  <2>2. RequestKeeps(p) /\ AccountsKeep
    BY <2>1 DEF RequestKeeps, Rotating, AccountsKeep
  <2>. QED
    BY <1>t, <2>1, <2>2, QuietRequestRevocation
<1>4. ASSUME NEW t \in Tokens, Expire(t) PROVE RevocationInv'
  <2>1. /\ row' = [row EXCEPT ![t].expired = TRUE]
        /\ UNCHANGED <<account, issued, stored, req, dead, escaped, lost>>
    BY <1>4 DEF Expire, history
  <2>2. RowsKeep
    BY <1>t, <2>1 DEF RowsKeep, TypeOK, Row
  <2>. QED
    BY <1>t, <2>1, <2>2, QuietRowsRevocation
<1>5. CASE Cleanup
  <2>1. PICK old \in SUBSET {t \in stored : row[t].revoked} :
            LET gone == {t \in stored : row[t].expired} \union old
            IN  /\ stored' = stored \ gone
                /\ row' = [t \in Tokens |-> IF t \in gone THEN Purged(row[t])
                                                       ELSE row[t]]
                /\ UNCHANGED <<account, issued, req, history>>
    BY <1>5 DEF Cleanup
  <2>2. RowsKeep
    <3>1. \A x \in Tokens : row'[x] = row[x] \/ row'[x] = Purged(row[x])
      BY <2>1
    <3>2. \A r \in Row : /\ Purged(r).family = r.family /\ Purged(r).user = r.user
                         /\ Purged(r).cred = r.cred
                         /\ Purged(r).revoked /\ Purged(r).expired
      BY DEF Purged, Row
    <3>3. \A x \in Tokens : row[x] \in Row
      BY <1>t DEF TypeOK
    <3>. QED
      BY <3>1, <3>2, <3>3 DEF RowsKeep
  <2>. QED
    BY <1>t, <2>1, <2>2, QuietRowsRevocation DEF history
<1>6. CASE UNCHANGED vars
  <2>1. RowsKeep /\ UNCHANGED <<account, issued, stored, req, dead, escaped, lost>>
    BY <1>6 DEF vars, RowsKeep
  <2>. QED
    BY <1>t, <2>1, QuietRowsRevocation
<1>. QED
  BY <1>1, <1>2, <1>3, <1>4, <1>5, <1>6 DEF Next

\* The inductive invariant of revocations.
THEOREM RevocationInvariant == Spec => [](SessionInv /\ RevocationInv)
<1>1. Init => SessionInv /\ RevocationInv
  BY InitSession, InitRevocation
<1>2. SessionInv /\ RevocationInv /\ [Next]_vars => SessionInv' /\ RevocationInv'
  BY NextSession, NextRevocation
<1>. QED
  BY <1>1, <1>2, PTL DEF Spec

\* A session that was ended stays ended, except through a refresh that was in
\* flight when a revocation of it committed.
THEOREM EndedSessionsStayEnded == Spec => []DeadFamiliesLiveOnlyThroughRaces
<1>1. RevocationInv => DeadFamiliesLiveOnlyThroughRaces
  BY DEF RevocationInv
<1>. QED
  BY <1>1, RevocationInvariant, PTL

\* A token that can be used is of an active account and of its password of now,
\* except through a request in flight when that changed, or a lost update.
THEOREM SessionsAreEntitled == Spec => []LiveTokensAreEntitled
<1>1. RevocationInv => LiveTokensAreEntitled
  BY DEF RevocationInv
<1>. QED
  BY <1>1, RevocationInvariant, PTL
=============================================================================
