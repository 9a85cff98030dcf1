----------------------- MODULE EmployeeAccountProofs -----------------------
(***************************************************************************)
(* Proofs about EmployeeAccount, for any number of HR requests, clients    *)
(* and invitation codes: what holds although handlers overlap, and what    *)
(* holds when they do not.                                                 *)
(***************************************************************************)
EXTENDS EmployeeAccount, TLAPS

LEMMA FlagsInit == Init => FlagsOK
BY Zenon DEF Init, FlagsOK

LEMMA FlagsStep == ASSUME FlagsOK, [Next]_vars PROVE FlagsOK'
<1> USE DEF FlagsOK, row
<1>1. ASSUME NEW a \in Admins, AdminStep(a) PROVE FlagsOK'
  BY <1>1, Zenon DEF AdminStep, AdminFind, Writes, DepartWithNotice, DepartNow, Leaves, Reinstate,
     Archive, Deactivate, Reactivate, BulkActivate, Regenerate, AdminFails
<1>2. ASSUME NEW c \in Clients, ClientStep(c) PROVE FlagsOK'
  BY <1>2, Zenon DEF ClientStep, OnlyClient, LoginFind, Refresh, Issue, WrongPassword,
     Lock, ResetFind, ResetCommit, ActivationFind, ActivationCommit, ClientFails, SessionEnds
<1>3. CASE JobStep
  BY <1>3, Zenon DEF JobStep, NoticeSelect, NoticeWrite, ReadOnlySelect, ReadOnlyWrite, JobsFail, OnlyJobs
<1>4. CASE TimePasses
  BY <1>4, Zenon DEF TimePasses
<1>5. ASSUME NEW k \in Codes, InvitationExpires(k) PROVE FlagsOK'
  BY <1>5, Zenon DEF InvitationExpires
<1>6. CASE UNCHANGED vars
  BY <1>6, Zenon DEF vars
<1>7. QED
  BY <1>1, <1>2, <1>3, <1>4, <1>5, <1>6 DEF Next

LEMMA RecordsStep == ASSUME RecordsOK, [Next]_vars PROVE RecordsOK'
<1> USE DEF RecordsOK, Statuses, Ended, Dates, Operations, Idle, row
<1>1. ASSUME NEW a \in Admins, AdminStep(a) PROVE RecordsOK'
  BY <1>1 DEF AdminStep, AdminFind, Writes, DepartWithNotice, DepartNow, Leaves, Reinstate,
     Archive, Deactivate, Reactivate, BulkActivate, Regenerate, AdminFails,
     DeleteAllSessions, KeepSessions
<1>2. ASSUME NEW c \in Clients, ClientStep(c) PROVE RecordsOK'
  BY <1>2 DEF ClientStep, ClientGoto, OnlyClient, LoginFind, Refresh, Issue, WrongPassword,
     Lock, ResetFind, ResetCommit, ActivationFind, ActivationCommit, ClientFails, SessionEnds,
     MayLogIn, MayRefresh
<1>3. CASE JobStep
  BY <1>3 DEF JobStep, NoticeSelect, NoticeWrite, ReadOnlySelect, ReadOnlyWrite, JobsFail,
     OnlyJobs, DeleteAllSessions
<1>4. CASE TimePasses
  BY <1>4 DEF TimePasses
<1>5. ASSUME NEW k \in Codes, InvitationExpires(k) PROVE RecordsOK'
  BY <1>5 DEF InvitationExpires
<1>6. CASE UNCHANGED vars
  BY <1>6 DEF vars
<1>7. QED
  BY <1>1, <1>2, <1>3, <1>4, <1>5, <1>6 DEF Next

LEMMA RecordsInit == Init => RecordsOK
<1> SUFFICES ASSUME Init PROVE RecordsOK
  OBVIOUS
<1>1. invitations \in SUBSET Codes
  BY DEF Init
<1>2. QED
  BY <1>1 DEF Init, RecordsOK, Statuses, Operations, Idle

(* Every variable keeps its type: the User row, the Session rows and the   *)
(* local state of the handlers of the account services.                    *)
THEOREM AccountTypeCorrect == Spec => []TypeOK
<1>1. Init => TypeOK
  BY FlagsInit, RecordsInit DEF TypeOK
<1>2. TypeOK /\ [Next]_vars => TypeOK'
  BY FlagsStep, RecordsStep DEF TypeOK
<1>3. QED
  BY <1>1, <1>2, PTL DEF Spec

-----------------------------------------------------------------------------
(* What holds although handlers overlap.                                   *)

OverlapInv == TypeOK /\ NoticeHasEnd /\ PendingHasNoSession

LEMMA OverlapStep ==
    ASSUME OverlapInv, TypeOK', [Next]_vars
    PROVE  OverlapInv'
<1> USE CodesAssumption DEF OverlapInv, NoticeHasEnd, PendingHasNoSession, TypeOK, FlagsOK,
        RecordsOK, Statuses, Ended, Dates, Idle, row
<1>1. ASSUME NEW a \in Admins, AdminStep(a) PROVE OverlapInv'
  BY <1>1 DEF AdminStep, AdminFind, Writes, DepartWithNotice, DepartNow, Leaves, Reinstate,
     Archive, Deactivate, Reactivate, BulkActivate, Regenerate, AdminFails,
     DeleteAllSessions, KeepSessions
<1>2. ASSUME NEW c \in Clients, ClientStep(c) PROVE OverlapInv'
  BY <1>2 DEF ClientStep, ClientGoto, OnlyClient, LoginFind, Refresh, Issue, WrongPassword,
     Lock, ResetFind, ResetCommit, ActivationFind, ActivationCommit, ClientFails, SessionEnds,
     MayLogIn, MayRefresh
<1>3. CASE JobStep
  BY <1>3 DEF JobStep, NoticeSelect, NoticeWrite, ReadOnlySelect, ReadOnlyWrite, JobsFail,
     OnlyJobs, DeleteAllSessions
<1>4. CASE TimePasses
  BY <1>4 DEF TimePasses
<1>5. ASSUME NEW k \in Codes, InvitationExpires(k) PROVE OverlapInv'
  BY <1>5 DEF InvitationExpires
<1>6. CASE UNCHANGED vars
  BY <1>6 DEF vars
<1>7. QED
  BY <1>1, <1>2, <1>3, <1>4, <1>5, <1>6 DEF Next

LEMMA OverlapInvariant == Spec => []OverlapInv
<1>1. Init => OverlapInv
  BY FlagsInit, RecordsInit DEF Init, OverlapInv, TypeOK, NoticeHasEnd, PendingHasNoSession, Idle
<1>2. OverlapInv /\ TypeOK' /\ [Next]_vars => OverlapInv'
  BY OverlapStep
<1>3. QED
  BY <1>1, <1>2, AccountTypeCorrect, PTL DEF Spec

(* An account on notice always carries the date at which the nightly job   *)
(* will find it, whatever HR handlers race for the row.                    *)
THEOREM NoticesAreDated == Spec => []NoticeHasEnd
BY OverlapInvariant, PTL DEF OverlapInv

(* No refresh token exists, or is about to be stored, for an account that  *)
(* was never activated.                                                    *)
THEOREM PendingIsOut == Spec => []PendingHasNoSession
BY OverlapInvariant, PTL DEF OverlapInv

-----------------------------------------------------------------------------
(* What holds of the handlers one at a time.  The inductive invariant says *)
(* that at most one of them is between its two steps, and that what it has *)
(* read of the row is still so.                                            *)

OneAtATime ==
    /\ \A a \in Admins : admin[a] # "idle" =>
          /\ \A b \in Admins \ {a} : admin[b] = "idle"
          /\ \A c \in Clients : client[c] = Idle
          /\ ~noticeJob /\ ~readOnlyJob
    /\ \A c \in Clients : client[c] # Idle =>
          /\ \A d \in Clients \ {c} : client[d] = Idle
          /\ \A a \in Admins : admin[a] = "idle"
          /\ ~noticeJob /\ ~readOnlyJob
    /\ noticeJob \/ readOnlyJob =>
          /\ \A c \in Clients : client[c] = Idle
          /\ \A a \in Admins : admin[a] = "idle"
          /\ ~(noticeJob /\ readOnlyJob)

StillAccepted ==
    /\ \A a \in Admins : admin[a] # "idle" => Accepts(admin[a])
    /\ \A c \in Clients : client[c].pc = "issue" =>
          status # "ARCHIVED" /\ (status = "DEPARTED" => readOnlyUntil # Null)

TokensGone == Closed => sessions = {}

SerialInv == OverlapInv /\ OneAtATime /\ StillAccepted /\ EndedIsInert /\ TokensGone

LEMMA SerialAdminStep ==
    ASSUME ~Overlap, SerialInv, OverlapInv', NEW a \in Admins, AdminStep(a)
    PROVE  SerialInv'
<1> USE CodesAssumption DEF SerialInv, OverlapInv, TypeOK, RecordsOK, OneAtATime, StillAccepted,
        EndedIsInert, TokensGone, Closed, Accepts, Ended, Dates, Statuses, Operations, Idle, row
<1>1. CASE \E op \in Operations : AdminFind(a, op)
  BY <1>1 DEF AdminFind, MayStart, AllIdle
<1>2. CASE DepartWithNotice(a) \/ DepartNow(a)
  BY <1>2 DEF DepartWithNotice, DepartNow, Leaves, Writes, DeleteAllSessions, KeepSessions
<1>3. CASE Reinstate(a) \/ Archive(a)
  BY <1>3 DEF Reinstate, Archive, Writes, DeleteAllSessions, KeepSessions
<1>4. CASE Deactivate(a) \/ Reactivate(a) \/ BulkActivate(a)
  BY <1>4 DEF Deactivate, Reactivate, BulkActivate, Writes, KeepSessions
<1>5. CASE Regenerate(a) \/ AdminFails(a)
  BY <1>5 DEF Regenerate, AdminFails, Writes
<1>6. QED
  BY <1>1, <1>2, <1>3, <1>4, <1>5 DEF AdminStep

LEMMA SerialClientStep ==
    ASSUME ~Overlap, SerialInv, OverlapInv', NEW c \in Clients, ClientStep(c)
    PROVE  SerialInv'
<1> USE CodesAssumption DEF SerialInv, OverlapInv, TypeOK, RecordsOK, OneAtATime, StillAccepted,
        EndedIsInert, TokensGone, Closed, Accepts, Ended, Dates, Statuses, Operations, Idle, row, ClientGoto, OnlyClient
<1>1. CASE LoginFind(c) \/ Refresh(c)
  BY <1>1 DEF LoginFind, Refresh, MayLogIn, MayRefresh, ReadOnlyAccess, MayStart, AllIdle
<1>2. CASE Issue(c) \/ Lock(c) \/ ResetCommit(c) \/ ClientFails(c) \/ SessionEnds(c)
  BY <1>2 DEF Issue, Lock, ResetCommit, ClientFails, SessionEnds
<1>3. CASE WrongPassword(c) \/ ResetFind(c)
  BY <1>3 DEF WrongPassword, ResetFind, MayStart, AllIdle
<1>4. CASE \E k \in Codes : ActivationFind(c, k)
  BY <1>4 DEF ActivationFind, MayStart, AllIdle
<1>5. CASE ActivationCommit(c)
  BY <1>5 DEF ActivationCommit
<1>6. QED
  BY <1>1, <1>2, <1>3, <1>4, <1>5 DEF ClientStep

LEMMA SerialOtherStep ==
    ASSUME ~Overlap, SerialInv, OverlapInv',
           JobStep \/ TimePasses \/ (\E k \in Codes : InvitationExpires(k)) \/ UNCHANGED vars
    PROVE  SerialInv'
<1> USE CodesAssumption DEF SerialInv, OverlapInv, TypeOK, RecordsOK, OneAtATime, StillAccepted,
        EndedIsInert, TokensGone, Closed, Accepts, Ended, Dates, Statuses, Operations, Idle, row
<1>1. CASE NoticeSelect \/ ReadOnlySelect
  BY <1>1 DEF NoticeSelect, ReadOnlySelect, MayStart, AllIdle, OnlyJobs
<1>2. CASE NoticeWrite \/ ReadOnlyWrite
  BY <1>2 DEF NoticeWrite, ReadOnlyWrite, OnlyJobs, DeleteAllSessions
<1>3. CASE JobsFail
  <2>1. OneAtATime'
    BY <1>3 DEF JobsFail, OnlyJobs, FlagsOK
  <2>2. StillAccepted' /\ EndedIsInert' /\ TokensGone'
    BY <1>3 DEF JobsFail, OnlyJobs
  <2>3. QED
    BY <2>1, <2>2
<1>4. CASE TimePasses
  BY <1>4 DEF TimePasses
<1>5. CASE \E k \in Codes : InvitationExpires(k)
  BY <1>5 DEF InvitationExpires
<1>6. CASE UNCHANGED vars
  BY <1>6 DEF vars
<1>7. QED
  BY <1>1, <1>2, <1>3, <1>4, <1>5, <1>6 DEF JobStep

LEMMA SerialInvariant == ASSUME ~Overlap PROVE Spec => []SerialInv
<1>1. Init => SerialInv
  <2> SUFFICES ASSUME Init PROVE SerialInv
    OBVIOUS
  <2>1. OverlapInv
    BY FlagsInit, RecordsInit DEF Init, OverlapInv, TypeOK, NoticeHasEnd, PendingHasNoSession, Idle
  <2>2. OneAtATime /\ StillAccepted
    BY DEF Init, OneAtATime, StillAccepted, Idle
  <2>3. EndedIsInert /\ TokensGone
    BY DEF Init, EndedIsInert, TokensGone, Closed, Ended
  <2>4. QED
    BY <2>1, <2>2, <2>3 DEF SerialInv
<1>2. SerialInv /\ OverlapInv' /\ [Next]_vars => SerialInv'
  BY SerialAdminStep, SerialClientStep, SerialOtherStep DEF Next
<1>3. QED
  BY <1>1, <1>2, OverlapInvariant, PTL DEF Spec

(* One handler at a time, the account of somebody who left is inactive and *)
(* no invitation code can bring it back.                                   *)
THEOREM LeaversAreInert == ASSUME ~Overlap PROVE Spec => []EndedIsInert
BY SerialInvariant, PTL DEF SerialInv

(* An account that is closed has no way in: what is inert is not active,   *)
(* and the only other way through the checks is a date still ahead.        *)
LEMMA InertHasNoWayIn == EndedIsInert => (status \in Ended /\ ~ReadOnlyAccess => NoWayIn)
BY DEF EndedIsInert, NoWayIn, MayLogIn, MayRefresh, ReadOnlyAccess, Ended

(* One handler at a time, somebody who was archived, or who left and has   *)
(* no read-only period or is past it, whether or not the nightly job has   *)
(* cleared the date, is refused at every way in; archiving and the job     *)
(* leave no refresh token behind.                                          *)
THEOREM LeaversAreOut == ASSUME ~Overlap PROVE Spec => []AccessRevoked
<1>1. SerialInv => AccessRevoked
  BY InertHasNoWayIn DEF SerialInv, TokensGone, AccessRevoked
<1>2. QED
  BY <1>1, SerialInvariant, PTL
=============================================================================
