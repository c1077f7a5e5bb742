----------------------------- MODULE Onboarding -----------------------------
(***************************************************************************)
(* How a person gets an account: an administrator invites an e-mail        *)
(* address, the outbox mails the link, whoever has the link accepts.  One  *)
(* address, typed in lower case as users stores it.                        *)
(*                                                                         *)
(* A request of Procs checks outside its transaction or takes its steps in *)
(* it one statement each, READ COMMITTED; the UNIQUE e-mail of users makes *)
(* an INSERT wait for another's.  A request that is refused before its     *)
(* first write is not an action.  A deleted account refuses invitations    *)
(* like any other.                                                         *)
(***************************************************************************)
EXTENDS EmailOutbox

CONSTANT Procs  \* requests that may be in flight together

ASSUME OnboardingAssumption == IsFiniteSet(Procs)

VARIABLES
    invitation,  \* the rows, each under the number of its first e-mail
    offered,     \* the role that each e-mail offers, by its template
    account,     \* the role of the account of the address, "none" before
    req,         \* the request each process runs
    \* History, read by no action's guard:
    joined,      \* the link by which the account was made, 0 before
    crowded      \* whether an invitation overlapped another or an acceptance

onboardingVars == <<invitation, offered, account, req, joined, crowded>>
vars == <<mailVars, onboardingVars>>

\* inviteAdmin differs from registerWorker in the role alone.
Roles == {"client", "worker"}

\* token: its last e-mail.  kind: whether clientKind is set.
Invitation == [state : {"none", "open", "used", "purged"}, token : {0} \union Mails,
               role : Roles, kind : BOOLEAN]

\* An invitation: its role and the pending one it has found.  An acceptance: the
\* invitation it has found and its row, in which token is the link.
Request == [pc : {"idle", "invite", "create", "commit"}, role : Roles,
            found : {0} \union Mails, row : Invitation]

NoInvitation == [state |-> "none", token |-> 0, role |-> "client", kind |-> FALSE]
NoRequest == [pc |-> "idle", role |-> "client", found |-> 0, row |-> NoInvitation]

Init ==
    /\ EmailInit
    /\ invitation = [i \in Mails |-> NoInvitation]
    /\ offered = [t \in Mails |-> "none"]
    /\ account = "none"
    /\ req = [p \in Procs |-> NoRequest]
    /\ joined = 0 /\ crowded = FALSE

-----------------------------------------------------------------------------

At(p, pc) == req[p].pc = pc
Start(p, r) == At(p, "idle") /\ req' = [req EXCEPT ![p] = r]
Finish(p) == req' = [req EXCEPT ![p] = NoRequest]

Issued == Cardinality(Written)

\* expiresAt, seven days after the last e-mail of the invitation.
Over(i) == mail[invitation[i].token].over

\* findPendingInvitationByEmail; what a link finds must be open likewise.
Open == {i \in Mails : invitation[i].state = "open" /\ ~Over(i)}

-----------------------------------------------------------------------------
(* inviteClient, registerWorker, inviteAdmin *)

\* Bound: an e-mail is left for each request that will write one.
HasRoomToMail == Issued + Cardinality({p \in Procs : At(p, "invite")}) < MaxMails

\* The checks before the transaction; only a client's invitation is renewed.
InviteRead(p, role) ==
    /\ HasRoomToMail /\ account = "none"
    /\ \E i \in IF Open = {} THEN {0} ELSE Open :
          /\ role = "worker" => i = 0
          /\ Start(p, [NoRequest EXCEPT !.pc = "invite", !.role = role, !.found = i])
    /\ UNCHANGED <<mailVars, invitation, offered, account, joined, crowded>>

\* Mutant: every invitation is a new one.
StoredAnew(r, t) ==
    [invitation EXCEPT ![t] = [state |-> "open", token |-> t, role |-> r.role,
                               kind |-> r.role = "client"]]

\* updateInvitation, which changes neither role nor isUsed and misses a row that
\* was purged, or createInvitation.
Stored(r, t) ==
    IF r.found = 0
    THEN [invitation EXCEPT ![t] = [state |-> "open", token |-> t, role |-> r.role,
                                    kind |-> r.role = "client"]]
    ELSE IF invitation[r.found].state = "purged" THEN invitation
    ELSE [invitation EXCEPT ![r.found].token = t, ![r.found].kind = TRUE]

InviteCommit(p) ==
    LET r == req[p]
        t == Issued + 1
    IN  /\ At(p, "invite")
        /\ invitation' = Stored(r, t)
        /\ offered' = [offered EXCEPT ![t] = r.role]
        /\ Write(t)
        /\ Finish(p)
        /\ crowded' = (crowded \/ account # "none"
                               \/ \E q \in Procs \ {p} : ~At(q, "idle"))
        /\ UNCHANGED <<worker, sent, overdue, faults, account, joined>>

-----------------------------------------------------------------------------
(* acceptInvitation *)

\* The invitation that the link finds; a link is known from its e-mail.
AcceptRead(p, t) ==
    /\ t \in sent /\ account = "none"
    /\ \E i \in Open :
          /\ invitation[i].token = t
          /\ Start(p, [NoRequest EXCEPT !.pc = "create", !.found = i,
                                        !.row = invitation[i]])
    /\ UNCHANGED <<mailVars, invitation, offered, account, joined, crowded>>

\* Mutant: an account of any role may have a clientKind.
ValidAnyRole(row) == TRUE

\* UserEntity.create: only a client has a clientKind.
Valid(row) == row.kind => row.role = "client"

\* INSERT into users, with the row as it was read.
Create(p) ==
    /\ At(p, "create") /\ Valid(req[p].row)
    /\ account = "none" /\ \A q \in Procs : ~At(q, "commit")
    /\ req' = [req EXCEPT ![p].pc = "commit"]
    /\ UNCHANGED <<mailVars, invitation, offered, account, joined, crowded>>

\* Mutant: the invitation is not marked.
SpentNot(i) == invitation

\* markInvitationAsUsed
Spent(i) ==
    [invitation EXCEPT ![i].state = IF @ = "open" THEN "used" ELSE @]

AcceptCommit(p) ==
    /\ At(p, "commit")
    /\ account' = req[p].row.role
    /\ invitation' = Spent(req[p].found)
    /\ joined' = req[p].row.token
    /\ Finish(p)
    /\ UNCHANGED <<mailVars, offered, crowded>>

\* An error or a crash before COMMIT; the e-mail of the address is taken, or the
\* row does not make a valid user.
Abort(p) ==
    /\ ~At(p, "idle")
    /\ Finish(p)
    /\ UNCHANGED <<mailVars, invitation, offered, account, joined, crowded>>

\* purgeStaleAuthArtifacts: used or not, an invitation goes after it has expired.
PurgeInvitation(i) ==
    /\ invitation[i].state \in {"open", "used"} /\ Over(i)
    /\ invitation' = [invitation EXCEPT ![i].state = "purged"]
    /\ UNCHANGED <<mailVars, offered, account, req, joined, crowded>>

Next ==
    \/ \E p \in Procs :
          \/ \E role \in Roles : InviteRead(p, role)
          \/ InviteCommit(p)
          \/ \E t \in Mails : AcceptRead(p, t)
          \/ Create(p) \/ AcceptCommit(p) \/ Abort(p)
    \/ \E i \in Mails : PurgeInvitation(i)
    \/ EmailNext /\ UNCHANGED onboardingVars

Spec == Init /\ [][Next]_vars
FairSpec == Spec /\ EmailFairness

-----------------------------------------------------------------------------
(* Properties *)

\* Tables, workers and requests hold what they can hold.
TypeOK ==
    /\ EmailTypeOK
    /\ invitation \in [Mails -> Invitation]
    /\ \A i \in Mails : invitation[i].state # "none" => invitation[i].token \in Written
    /\ offered \in [Mails -> Roles \union {"none"}]
    /\ account \in Roles \union {"none"}
    /\ req \in [Procs -> Request]
    /\ \A p, q \in Procs : At(p, "commit") /\ At(q, "commit") => p = q
    /\ joined \in {0} \union Mails /\ crowded \in BOOLEAN

\* The account has the role that the e-mail named by which it was made, though
\* an invitation is renewed without its role and accepted as it was read.
AcceptedAsOffered == account # "none" => account = offered[joined]

\* The address has one open invitation, and none once it has an account, unless an
\* invitation overlapped another or an acceptance.
OneOpenInvitation ==
    ~crowded => Cardinality(Open) <= IF account = "none" THEN 1 ELSE 0

\* Invitations are used up by the one account alone, and its own is: of several
\* that are open, or accepted together, all others stay as they were.
OneInvitationIsSpent ==
    LET used == {i \in Mails : invitation[i].state = "used"}
    IN  /\ Cardinality(used) <= IF account = "none" THEN 0 ELSE 1
        /\ \A i \in Open : invitation[i].token # joined

\* The link of an invitation that can be accepted is on its way to the address or
\* was there, whatever workers did to the row of its e-mail.
OpenInvitationsAreMailed ==
    \A i \in Open : LET t == invitation[i].token
                    IN  t \in sent \/ mail[t].status \in {"pending", "failed"}
=============================================================================
