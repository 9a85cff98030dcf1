--------------------------- MODULE EmployeeAccount ---------------------------
(***************************************************************************)
(* The life of one employee's account: the columns of its User row that    *)
(* say whether the employee may come in, and its Session rows (refresh     *)
(* tokens and invitation codes).  Accounts do not interact.                *)
(*                                                                         *)
(* The row is written by the HR handlers of UsersService, DepartureService *)
(* and AuthService (an element of Admins serves one of them at a time), by *)
(* the employee's own logins and activations (Clients) and by two nightly  *)
(* jobs.  Every handler reads the row, decides, and writes in a later      *)
(* statement or transaction without reading again, so each is two steps.   *)
(* Transactions are atomic.  With Overlap = FALSE a handler runs to its    *)
(* end before the next one starts; the code does not ensure that.          *)
(*                                                                         *)
(* Dates are only ever compared with now: a date is "future" or "past".    *)
(* mustChangePassword is left out, so that bulkActivate may take more      *)
(* accounts, and of the password only whether the employee has ever known  *)
(* it: an account is created with a random one.                            *)
(***************************************************************************)
EXTENDS FiniteSets

CONSTANTS
    Admins,     \* HR requests in service at the same time
    Clients,    \* devices of the employee; one refresh token each
    Codes,      \* invitation codes
    Overlap,    \* may handlers overlap?
    Null

ASSUME OverlapAssumption == Overlap \in BOOLEAN
ASSUME CodesAssumption == Null \notin Codes \cup {"future", "past"}

VARIABLES
    status, isActive, noticeEnd, readOnlyUntil, archivedAt,   \* the User row
    passwordKnown, \* passwordHash is of a password the employee was told or chose
    sessions,      \* the clients whose refresh token has a Session row
    invitations,   \* the codes that have an unexpired Session row
    admin,         \* the operation an HR request has decided to write
    client,        \* the logins, refreshes and activations in progress
    noticeJob, readOnlyJob   \* TRUE between the select and the write of a job

row  == <<status, isActive, noticeEnd, readOnlyUntil, archivedAt>>
vars == <<row, passwordKnown, sessions, invitations, admin, client, noticeJob, readOnlyJob>>

Statuses == {"PENDING", "ACTIVE", "ON_NOTICE", "DEPARTED", "ARCHIVED"}
Ended == {"DEPARTED", "ARCHIVED"}
Dates == {"future", "past"}
Operations == {"depart", "reinstate", "archive", "deactivate", "reactivate",
               "bulkActivate", "regenerate"}

FlagsOK ==
    /\ isActive \in BOOLEAN /\ archivedAt \in BOOLEAN /\ passwordKnown \in BOOLEAN
    /\ noticeJob \in BOOLEAN /\ readOnlyJob \in BOOLEAN
RecordsOK ==
    /\ status \in Statuses
    /\ noticeEnd \in Dates \cup {Null} /\ readOnlyUntil \in Dates \cup {Null}
    /\ sessions \in SUBSET Clients /\ invitations \in SUBSET Codes
    /\ admin \in [Admins -> Operations \cup {"idle"}]
    /\ client \in [Clients -> [pc: {"idle", "issue", "lock", "activate", "reset"},
                               code: Codes \cup {Null}]]
TypeOK == FlagsOK /\ RecordsOK

Idle == [pc |-> "idle", code |-> Null]

(* An employee is created by an invitation, with a code, or by an import,  *)
(* without one.                                                            *)
Init ==
    /\ status = "PENDING" /\ isActive = FALSE /\ archivedAt = FALSE
    /\ noticeEnd = Null /\ readOnlyUntil = Null
    /\ passwordKnown = FALSE /\ sessions = {}
    /\ invitations = {} \/ \E k \in Codes : invitations = {k}
    /\ admin = [a \in Admins |-> "idle"]
    /\ client = [c \in Clients |-> Idle]
    /\ noticeJob = FALSE /\ readOnlyJob = FALSE

AllIdle ==
    /\ \A a \in Admins : admin[a] = "idle"
    /\ \A c \in Clients : client[c] = Idle
    /\ ~noticeJob /\ ~readOnlyJob
MayStart == Overlap \/ AllIdle

-----------------------------------------------------------------------------
(* HR operations.  AdminFind is the read and the check of each of them.    *)

Accepts(op) ==
    \/ op = "depart" /\ status \notin Ended
    \/ op = "reinstate" /\ status \in {"DEPARTED", "ON_NOTICE"}
    \/ op = "archive" /\ status = "DEPARTED"
    \/ op \in {"deactivate", "reactivate"} /\ status \notin Ended
    \/ op = "bulkActivate"
    \/ op = "regenerate" /\ ~isActive /\ status = "PENDING"

AdminFind(a, op) ==
    /\ admin[a] = "idle" /\ MayStart
    /\ Accepts(op)
    /\ admin' = [admin EXCEPT ![a] = op]
    /\ UNCHANGED <<row, passwordKnown, sessions, invitations, client, noticeJob, readOnlyJob>>

(* The request's write; the operations below say what it does.             *)
Writes(a, op) ==
    /\ admin[a] = op
    /\ admin' = [admin EXCEPT ![a] = "idle"]
    /\ passwordKnown' = (passwordKnown \/ op = "bulkActivate")
    /\ UNCHANGED <<client, noticeJob, readOnlyJob>>
DeleteAllSessions == sessions' = {} /\ invitations' = {}
KeepSessions == UNCHANGED <<sessions, invitations>>

(* initiateDepart with a notice period.  readOnlyUntil counts from a       *)
(* departure date that HR chooses; noticeEnd was ahead when it was checked.*)
DepartWithNotice(a) ==
    /\ Writes(a, "depart")
    /\ status' = "ON_NOTICE" /\ isActive' = TRUE
    /\ noticeEnd' \in Dates /\ readOnlyUntil' \in Dates
    /\ KeepSessions /\ UNCHANGED archivedAt

Leaves ==
    /\ status' = "DEPARTED" /\ isActive' = FALSE
    /\ noticeEnd' = Null /\ readOnlyUntil' \in Dates
    /\ UNCHANGED archivedAt

(* Mutants: only refresh sessions are deleted; the departure type in place *)
(* of the status.                                                          *)
DepartKeepsCodes(a) ==
    Writes(a, "depart") /\ Leaves /\ sessions' = {} /\ UNCHANGED invitations
DepartStoresType(a) ==
    /\ Writes(a, "depart") /\ DeleteAllSessions
    /\ status' = "TERMINATION" /\ isActive' = FALSE
    /\ noticeEnd' = Null /\ readOnlyUntil' \in Dates /\ UNCHANGED archivedAt

(* initiateDepart without a notice period, and bulkDepart for each account *)
(* of its list: the checks and the writes of the two are the same.         *)
DepartNow(a) == Writes(a, "depart") /\ Leaves /\ DeleteAllSessions

(* Mutant: the dates are reset and the status is forgotten.                *)
ReinstateDatesOnly(a) ==
    /\ Writes(a, "reinstate")
    /\ isActive' = TRUE /\ noticeEnd' = Null /\ readOnlyUntil' = Null
    /\ KeepSessions /\ UNCHANGED <<status, archivedAt>>

Reinstate(a) ==
    /\ Writes(a, "reinstate")
    /\ status' = "ACTIVE" /\ isActive' = TRUE
    /\ noticeEnd' = Null /\ readOnlyUntil' = Null
    /\ KeepSessions /\ UNCHANGED archivedAt

Archive(a) ==
    /\ Writes(a, "archive")
    /\ status' = "ARCHIVED" /\ isActive' = FALSE
    /\ readOnlyUntil' = Null /\ archivedAt' = TRUE
    /\ DeleteAllSessions /\ UNCHANGED noticeEnd

Deactivate(a) ==
    /\ Writes(a, "deactivate") /\ isActive' = FALSE
    /\ KeepSessions /\ UNCHANGED <<status, noticeEnd, readOnlyUntil, archivedAt>>
Reactivate(a) ==
    /\ Writes(a, "reactivate") /\ isActive' = TRUE
    /\ KeepSessions /\ UNCHANGED <<status, noticeEnd, readOnlyUntil, archivedAt>>

(* Whatever the status was; the dates of a departure stay behind.          *)
BulkActivate(a) ==
    /\ Writes(a, "bulkActivate")
    /\ status' = "ACTIVE" /\ isActive' = TRUE
    /\ sessions' = {} /\ UNCHANGED invitations
    /\ UNCHANGED <<noticeEnd, readOnlyUntil, archivedAt>>

(* A new code replaces the old ones.  No activation still holds it.        *)
Regenerate(a) ==
    /\ Writes(a, "regenerate")
    /\ \E k \in Codes \ {client[c].code : c \in Clients} : invitations' = {k}
    /\ UNCHANGED <<row, sessions>>

(* The second statement fails, or the process dies before it.              *)
AdminFails(a) ==
    /\ admin[a] # "idle"
    /\ admin' = [admin EXCEPT ![a] = "idle"]
    /\ UNCHANGED <<row, passwordKnown, sessions, invitations, client, noticeJob, readOnlyJob>>

-----------------------------------------------------------------------------
(* The nightly jobs select the ids of the accounts that are due and then   *)
(* update these ids, whatever has become of the accounts.                  *)

OnlyJobs == UNCHANGED <<passwordKnown, admin, client>>

(* Mutant: accounts on notice that are locked are not seen.                *)
NoticeSelectUnlocked ==
    /\ ~noticeJob /\ MayStart
    /\ status = "ON_NOTICE" /\ noticeEnd = "past" /\ isActive
    /\ noticeJob' = TRUE
    /\ OnlyJobs /\ UNCHANGED <<row, sessions, invitations, readOnlyJob>>

NoticeSelect ==
    /\ ~noticeJob /\ MayStart
    /\ status = "ON_NOTICE" /\ noticeEnd = "past"
    /\ noticeJob' = TRUE
    /\ OnlyJobs /\ UNCHANGED <<row, sessions, invitations, readOnlyJob>>
NoticeWrite ==
    /\ noticeJob /\ noticeJob' = FALSE
    /\ status' = "DEPARTED" /\ isActive' = FALSE /\ DeleteAllSessions
    /\ OnlyJobs /\ UNCHANGED <<noticeEnd, readOnlyUntil, archivedAt, readOnlyJob>>

ReadOnlySelect ==
    /\ ~readOnlyJob /\ MayStart
    /\ status = "DEPARTED" /\ readOnlyUntil = "past" /\ ~archivedAt
    /\ readOnlyJob' = TRUE
    /\ OnlyJobs /\ UNCHANGED <<row, sessions, invitations, noticeJob>>

(* Mutant: the sessions survive the end of the read-only access.           *)
ReadOnlyWriteKeepsSessions ==
    /\ readOnlyJob /\ readOnlyJob' = FALSE
    /\ readOnlyUntil' = Null
    /\ OnlyJobs /\ KeepSessions /\ UNCHANGED <<status, isActive, noticeEnd, archivedAt, noticeJob>>

ReadOnlyWrite ==
    /\ readOnlyJob /\ readOnlyJob' = FALSE
    /\ readOnlyUntil' = Null /\ DeleteAllSessions
    /\ OnlyJobs /\ UNCHANGED <<status, isActive, noticeEnd, archivedAt, noticeJob>>

JobsFail ==
    /\ \/ noticeJob /\ noticeJob' = FALSE /\ UNCHANGED readOnlyJob
       \/ readOnlyJob /\ readOnlyJob' = FALSE /\ UNCHANGED noticeJob
    /\ OnlyJobs /\ UNCHANGED <<row, sessions, invitations>>

-----------------------------------------------------------------------------
(* The employee.                                                           *)

ClientGoto(c, pc) == client' = [client EXCEPT ![c] = [Idle EXCEPT !.pc = pc]]
OnlyClient == UNCHANGED <<admin, noticeJob, readOnlyJob>>

(* What the checks of login, with the right password, and of refreshTokens *)
(* accept of the row they have read.                                       *)
ReadOnlyAccess == status = "DEPARTED" /\ readOnlyUntil = "future"
MayLogIn ==
    /\ passwordKnown /\ status \notin {"ARCHIVED", "PENDING"}
    /\ IF status = "DEPARTED" THEN ReadOnlyAccess ELSE isActive
MayRefresh(c) == c \in sessions /\ (isActive \/ ReadOnlyAccess)

(* Mutant: an account that was never activated is not refused.             *)
LoginFindPendingToo(c) ==
    /\ client[c] = Idle /\ MayStart
    /\ passwordKnown /\ status # "ARCHIVED"
    /\ IF status = "DEPARTED" THEN ReadOnlyAccess ELSE isActive
    /\ ClientGoto(c, "issue")
    /\ OnlyClient /\ UNCHANGED <<row, passwordKnown, sessions, invitations>>

(* login and loginEmployee, up to their checks.  loginEmployee accepts a    *)
(* part of what login accepts.                                             *)
LoginFind(c) ==
    /\ client[c] = Idle /\ MayStart
    /\ MayLogIn
    /\ ClientGoto(c, "issue")
    /\ OnlyClient /\ UNCHANGED <<row, passwordKnown, sessions, invitations>>

(* The one transaction of refreshTokens: find, check, delete.              *)
Refresh(c) ==
    /\ client[c] = Idle /\ MayStart
    /\ MayRefresh(c)
    /\ sessions' = sessions \ {c}
    /\ ClientGoto(c, "issue")
    /\ OnlyClient /\ UNCHANGED <<row, passwordKnown, invitations>>

(* persistRefreshSession, the last step of all that issue tokens.          *)
Issue(c) ==
    /\ client[c].pc = "issue"
    /\ sessions' = sessions \cup {c}
    /\ ClientGoto(c, "idle")
    /\ OnlyClient /\ UNCHANGED <<row, passwordKnown, invitations>>

(* A wrong password that is the fifth in a row; recordFailedLogin counts   *)
(* the audit entries and then locks, whatever the account has become.      *)
WrongPassword(c) ==
    /\ client[c] = Idle /\ MayStart
    /\ ClientGoto(c, "lock")
    /\ OnlyClient /\ UNCHANGED <<row, passwordKnown, sessions, invitations>>
Lock(c) ==
    /\ client[c].pc = "lock"
    /\ isActive' = FALSE
    /\ ClientGoto(c, "idle")
    /\ OnlyClient
    /\ UNCHANGED <<status, noticeEnd, readOnlyUntil, archivedAt,
                   passwordKnown, sessions, invitations>>

(* forgotPassword and resetPassword check isActive; the new password is    *)
(* written later.                                                          *)
ResetFind(c) ==
    /\ client[c] = Idle /\ MayStart
    /\ isActive /\ ~passwordKnown
    /\ ClientGoto(c, "reset")
    /\ OnlyClient /\ UNCHANGED <<row, passwordKnown, sessions, invitations>>
ResetCommit(c) ==
    /\ client[c].pc = "reset"
    /\ passwordKnown' = TRUE
    /\ ClientGoto(c, "idle")
    /\ OnlyClient /\ UNCHANGED <<row, sessions, invitations>>

(* activateInvitation: the code and the account are looked up; later one   *)
(* transaction deletes the code, and fails if it is gone, and activates.   *)
ActivationFind(c, k) ==
    /\ client[c] = Idle /\ MayStart
    /\ k \in invitations /\ ~isActive
    /\ client' = [client EXCEPT ![c] = [pc |-> "activate", code |-> k]]
    /\ OnlyClient /\ UNCHANGED <<row, passwordKnown, sessions, invitations>>

ActivationCommit(c) ==
    /\ client[c].pc = "activate"
    /\ client[c].code \in invitations
    /\ invitations' = invitations \ {client[c].code}
    /\ status' = "ACTIVE" /\ isActive' = TRUE /\ passwordKnown' = TRUE
    /\ ClientGoto(c, "issue")
    /\ OnlyClient /\ UNCHANGED <<noticeEnd, readOnlyUntil, archivedAt, sessions>>

ClientFails(c) ==
    /\ client[c] # Idle
    /\ ClientGoto(c, "idle")
    /\ OnlyClient /\ UNCHANGED <<row, passwordKnown, sessions, invitations>>

-----------------------------------------------------------------------------
(* Time and the employee's other gestures.                                 *)

TimePasses ==
    /\ \/ noticeEnd = "future" /\ noticeEnd' = "past" /\ UNCHANGED readOnlyUntil
       \/ readOnlyUntil = "future" /\ readOnlyUntil' = "past" /\ UNCHANGED noticeEnd
    /\ UNCHANGED <<status, isActive, archivedAt, passwordKnown, sessions, invitations,
                   admin, client, noticeJob, readOnlyJob>>

(* Logout, revocation from the profile, or the end of the token's days.    *)
SessionEnds(c) ==
    /\ c \in sessions /\ sessions' = sessions \ {c}
    /\ UNCHANGED <<row, passwordKnown, invitations, admin, client, noticeJob, readOnlyJob>>
InvitationExpires(k) ==
    /\ k \in invitations /\ invitations' = invitations \ {k}
    /\ UNCHANGED <<row, passwordKnown, sessions, admin, client, noticeJob, readOnlyJob>>

AdminStep(a) ==
    \/ \E op \in Operations : AdminFind(a, op)
    \/ DepartWithNotice(a) \/ DepartNow(a) \/ Reinstate(a) \/ Archive(a)
    \/ Deactivate(a) \/ Reactivate(a) \/ BulkActivate(a) \/ Regenerate(a) \/ AdminFails(a)
ClientStep(c) ==
    \/ LoginFind(c) \/ Refresh(c) \/ Issue(c) \/ WrongPassword(c) \/ Lock(c)
    \/ ResetFind(c) \/ ResetCommit(c)
    \/ \E k \in Codes : ActivationFind(c, k)
    \/ ActivationCommit(c) \/ ClientFails(c) \/ SessionEnds(c)
JobStep == NoticeSelect \/ NoticeWrite \/ ReadOnlySelect \/ ReadOnlyWrite \/ JobsFail

Next ==
    \/ \E a \in Admins : AdminStep(a)
    \/ \E c \in Clients : ClientStep(c)
    \/ JobStep
    \/ TimePasses
    \/ \E k \in Codes : InvitationExpires(k)

Spec == Init /\ [][Next]_vars

(* The jobs run every night, and their transactions do not fail every one. *)
FairSpec ==
    /\ Spec
    /\ WF_vars(NoticeSelect) /\ SF_vars(NoticeWrite)
    /\ WF_vars(ReadOnlySelect) /\ SF_vars(ReadOnlyWrite)

-----------------------------------------------------------------------------
(* Properties that hold although handlers overlap.                         *)

(* An account on notice has the date at which the job will end it: the     *)
(* nine writers that race for the row never leave a notice without one,    *)
(* which the filter noticeEndDate <= now would never select.               *)
NoticeHasEnd == status = "ON_NOTICE" => noticeEnd # Null

(* Nobody holds, or is being issued, a token for an account that was never *)
(* activated, even if HR or a notice period has set isActive on it.        *)
PendingHasNoSession ==
    status = "PENDING" => sessions = {} /\ \A c \in Clients : client[c].pc # "issue"

(* A notice that is over does not stay so: the job, or somebody else, takes*)
(* the account out of it or sets a later date, also if the account is      *)
(* locked and whatever the handlers in progress do to the row.             *)
NoticeOver == status = "ON_NOTICE" /\ noticeEnd = "past"
EveryNoticeEnds == NoticeOver ~> ~NoticeOver

(* Read-only access that is over is closed for good: the job takes the     *)
(* tokens with the date, unless the employee comes back, is archived or is *)
(* given a later date.  An account that was once archived is excepted,     *)
(* since archivedAt is never cleared and the job passes over it.           *)
ReadOnlyOver == status = "DEPARTED" /\ readOnlyUntil = "past" /\ ~archivedAt
ReadOnlyClosed == readOnlyUntil = Null /\ sessions = {} /\ invitations = {}
ReadOnlyAccessEnds ==
    ReadOnlyOver ~> (ReadOnlyClosed \/ status # "DEPARTED" \/ readOnlyUntil = "future")

(* Properties of the handlers one at a time.                               *)

(* The account of somebody who left is inert: inactive, and no invitation  *)
(* sent earlier can bring it back.                                         *)
EndedIsInert == status \in Ended => ~isActive /\ invitations = {}

(* Once archived, or departed without a read-only period or past it, also  *)
(* before the job has seen that it is over, an account has no way in: its  *)
(* password and its refresh tokens are refused, the password cannot be     *)
(* reset and no invitation is open.  Archiving, and the job, also delete   *)
(* the tokens.                                                             *)
NoWayIn ==
    /\ ~MayLogIn /\ ~isActive /\ invitations = {}
    /\ \A c \in Clients : ~MayRefresh(c)
Closed == status = "ARCHIVED" \/ (status = "DEPARTED" /\ readOnlyUntil = Null)
AccessRevoked ==
    /\ status \in Ended /\ ~ReadOnlyAccess => NoWayIn
    /\ Closed => sessions = {}

-----------------------------------------------------------------------------
(* Claims that the code does not keep.                                     *)

(* "compte marqué ARCHIVED, sessions révoquées": not when handlers overlap.*)
ArchivedRevoked == status = "ARCHIVED" => sessions = {}

(* "Le compte sera marqué archivé et ne pourra plus être réintégré": not   *)
(* even when they do not.                                                  *)
ArchivedForGood == [][status = "ARCHIVED" => status' = "ARCHIVED"]_vars
=============================================================================
