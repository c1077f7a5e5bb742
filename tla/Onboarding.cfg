\* Two requests, two e-mails, one worker; one tick is interrupted, or one payload
\* becomes unreadable.
CONSTANTS
    Workers = {w1}
    Procs = {p1, p2}
    MaxMails = 2
    MaxFaults = 1
SPECIFICATION FairSpec
INVARIANTS
    TypeOK
    AcceptedAsOffered
    OneInvitationIsSpent
    OneOpenInvitation
    OpenInvitationsAreMailed
PROPERTIES
    SentOrOverdue
