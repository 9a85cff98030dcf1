---------------------------- MODULE PayslipVault ----------------------------
(***************************************************************************)
(* The life of a payslip in the backend: a row of the Payslip table, the   *)
(* PDF it points to in the S3 bucket, its electronic acknowledgement (a    *)
(* row of PayslipSignature) and the entries of the audit log.              *)
(*                                                                         *)
(* Four handlers run concurrently on these stores:                         *)
(*   PayslipsService.uploadSingle          one element of Uploads          *)
(*   PayslipsService.remove                one element of Removals         *)
(*   PayslipsService.markAsRead            one element of Readings         *)
(*   PayslipSignatureService.signPayslip   one element of Signings         *)
(* A handler suspends at each await, so it is one action per database      *)
(* statement (or transaction) and per S3 command; its local variables are  *)
(* a record indexed by the request.  A request is served once: an element  *)
(* of Uploads is also the identity of the PDF it carries and of the row it *)
(* creates (a fresh uuid in the code).                                     *)
(*                                                                         *)
(* S3 and PostgreSQL are remote: a command may fail without effect, or     *)
(* take effect and have its answer lost.  A process may die between any    *)
(* two steps of any handler.                                               *)
(***************************************************************************)
EXTENDS Naturals, FiniteSets

CONSTANTS
    Employees,    \* the accounts payslips are issued to, all of one company
    Periods,      \* the (month, year) pairs
    Uploads, Removals, Readings, Signings,
    MaxAttempts,  \* PutObject commands one upload may issue (4 in the code)
    Null

(* The null of the database and of the unset locals is no request and no   *)
(* (employee, period) pair; the identities of requests do not collide.     *)
ASSUME NullAssumption ==
    /\ Null \notin Uploads \cup Readings \cup Signings
    /\ Null \notin Employees \X Periods
ASSUME AttemptsAssumption == MaxAttempts \in Nat \ {0}

VARIABLES
    object,       \* the bucket: which PDF is stored under a key
    rows,         \* identities of the existing Payslip rows
    isRead,       \* rows with isRead = true
    readAt,       \* the request whose clock gave readAt, per row
    isSigned,     \* rows with isSigned = true
    signature,    \* the PDF whose hash the row's PayslipSignature holds
    audit,        \* the entries of the audit log
    upload, removal, reading, signing   \* the requests in service

stores  == <<object, rows, isRead, readAt, isSigned, signature, audit>>
requests == <<upload, removal, reading, signing>>
vars == <<stores, requests>>

Slots == Employees \X Periods

(* Mutant: the month is missing from the key.                              *)
KeyWithoutPeriod(s) == <<s[1], CHOOSE p \in Periods : TRUE>>

(* The storage key is companies/C/payslips/EMPLOYEE/YEAR/MM.pdf: within a  *)
(* company it is a function of the employee and the period and of nothing  *)
(* else, so every upload for a slot uses the same key.                     *)
Key(s) == <<s[1], s[2]>>

SlotOf(r) == upload[r].slot
FileOf(r) == object[Key(SlotOf(r))]
RowFor(s) == {r \in rows : SlotOf(r) = s}
Entry(action, r, q) == [action |-> action, row |-> r, by |-> q]
Entries(action, r) == {e \in audit : e.action = action /\ e.row = r}

-----------------------------------------------------------------------------
(* Control points.  After the last await a handler rests in one of the     *)
(* points that name its outcome.                                           *)
UploadBusy  == {"find", "put", "create", "undoConflict", "undoPersist", "audit"}
UploadEnded == {"refused", "unstored", "conflict", "persistFailed",
                "auditFailed", "done", "crashed"}
OtherBusy   == {"file", "row", "update", "fetch", "commit", "audit"}
OtherEnded  == {"refused", "failed", "done"}

UploadState  == [pc: UploadBusy \cup UploadEnded \cup {"idle"},
                 slot: Slots \cup {Null}, tries: 0..MaxAttempts]
RemovalState == [pc: OtherBusy \cup OtherEnded \cup {"idle"}, row: Uploads \cup {Null}]
ReadingState == [pc: OtherBusy \cup OtherEnded \cup {"idle"}, row: Uploads \cup {Null},
                 actor: {"EMPLOYEE", "RH_ADMIN"}, wasUnread: BOOLEAN]
SigningState == [pc: OtherBusy \cup OtherEnded \cup {"idle"}, row: Uploads \cup {Null},
                 readAt: Readings \cup Signings \cup {Null}, hash: Uploads \cup {Null}]

AuditEntry == [action: {"UPLOADED", "DELETED", "READ", "SIGNED"}, row: Uploads,
               by: Uploads \cup Removals \cup Readings \cup Signings]

StoresOK ==
    /\ object \in [Slots -> Uploads \cup {Null}]
    /\ rows \in SUBSET Uploads
    /\ isRead \in SUBSET Uploads
    /\ readAt \in [Uploads -> Readings \cup Signings \cup {Null}]
    /\ isSigned \in SUBSET Uploads
    /\ signature \in [Uploads -> Uploads \cup {Null}]
    /\ audit \in SUBSET AuditEntry
RequestsOK ==
    /\ upload \in [Uploads -> UploadState]
    /\ removal \in [Removals -> RemovalState]
    /\ reading \in [Readings -> ReadingState]
    /\ signing \in [Signings -> SigningState]
TypeOK == StoresOK /\ RequestsOK

Init ==
    /\ object = [s \in Slots |-> Null]
    /\ rows = {} /\ isRead = {} /\ isSigned = {}
    /\ readAt = [r \in Uploads |-> Null]
    /\ signature = [r \in Uploads |-> Null]
    /\ audit = {}
    /\ upload  = [u \in Uploads  |-> [pc |-> "idle", slot |-> Null, tries |-> 0]]
    /\ removal = [d \in Removals |-> [pc |-> "idle", row |-> Null]]
    /\ reading = [m \in Readings |-> [pc |-> "idle", row |-> Null,
                                      actor |-> "EMPLOYEE", wasUnread |-> FALSE]]
    /\ signing = [g \in Signings |-> [pc |-> "idle", row |-> Null,
                                      readAt |-> Null, hash |-> Null]]

-----------------------------------------------------------------------------
(* uploadSingle.                                                           *)

UploadGoto(u, pc) == upload' = [upload EXCEPT ![u].pc = pc]
OnlyUpload == UNCHANGED <<removal, reading, signing>>

(* The target account is read once, before everything else; it may be      *)
(* found operational or not.                                               *)
UploadReadTarget(u, s) ==
    /\ upload[u].pc = "idle"
    /\ \E pc \in {"find", "refused"} :
           upload' = [upload EXCEPT ![u] = [@ EXCEPT !.slot = s, !.pc = pc]]
    /\ OnlyUpload /\ UNCHANGED stores

(* Mutant: the refusal of a duplicate also cleans the key up.              *)
UploadFindExistingCleans(u) ==
    LET found == RowFor(SlotOf(u)) # {} IN
    /\ upload[u].pc = "find"
    /\ UploadGoto(u, IF found THEN "refused" ELSE "put")
    /\ object' = IF found THEN [object EXCEPT ![Key(SlotOf(u))] = Null] ELSE object
    /\ OnlyUpload /\ UNCHANGED <<rows, isRead, readAt, isSigned, signature, audit>>

(* payslip.findFirst on (user, month, year): the check of the              *)
(* check-then-act the unique index later backs.                            *)
UploadFindExisting(u) ==
    /\ upload[u].pc = "find"
    /\ UploadGoto(u, IF RowFor(SlotOf(u)) # {} THEN "refused" ELSE "put")
    /\ OnlyUpload /\ UNCHANGED stores

UploadPut(u) ==
    /\ upload[u].pc = "put"
    /\ object' = [object EXCEPT ![Key(SlotOf(u))] = u]
    /\ UploadGoto(u, "create")
    /\ OnlyUpload /\ UNCHANGED <<rows, isRead, readAt, isSigned, signature, audit>>

(* Mutants: one attempt too many; attempts that are not counted.           *)
UploadPutFailsOnceMore(u) ==
    /\ upload[u].pc = "put"
    /\ upload' = [upload EXCEPT ![u].tries = @ + 1,
                     ![u].pc = IF upload[u].tries <= MaxAttempts THEN "put" ELSE "unstored"]
    /\ OnlyUpload /\ UNCHANGED stores
UploadPutFailsForever(u) ==
    /\ upload[u].pc = "put"
    /\ \E o \in {Null, u} : object' = [object EXCEPT ![Key(SlotOf(u))] = o]
    /\ OnlyUpload
    /\ UNCHANGED <<upload, rows, isRead, readAt, isSigned, signature, audit>>

(* PutObject answered with an error, having stored the PDF or not; the     *)
(* last attempt makes the handler answer 503 and leave the bucket as it is.*)
UploadPutFails(u) ==
    LET tries == upload[u].tries + 1 IN
    /\ upload[u].pc = "put"
    /\ \/ object' = [object EXCEPT ![Key(SlotOf(u))] = u]
       \/ UNCHANGED object
    /\ upload' = [upload EXCEPT ![u] =
           [@ EXCEPT !.tries = tries, !.pc = IF tries < MaxAttempts THEN "put" ELSE "unstored"]]
    /\ OnlyUpload /\ UNCHANGED <<rows, isRead, readAt, isSigned, signature, audit>>

(* Mutants: no unique index; an upsert that replaces the row of the slot.  *)
UploadCreateUnguarded(u) ==
    /\ upload[u].pc = "create"
    /\ rows' = rows \cup {u}
    /\ UploadGoto(u, "audit")
    /\ OnlyUpload /\ UNCHANGED <<object, isRead, readAt, isSigned, signature, audit>>
UploadUpsert(u) ==
    LET old == RowFor(SlotOf(u)) IN
    /\ upload[u].pc = "create"
    /\ rows' = (rows \ old) \cup {u}
    /\ isRead' = isRead \ old /\ isSigned' = isSigned \ old
    /\ readAt' = [r \in Uploads |-> IF r \in old THEN Null ELSE readAt[r]]
    /\ signature' = [r \in Uploads |-> IF r \in old THEN Null ELSE signature[r]]
    /\ UploadGoto(u, "audit")
    /\ OnlyUpload /\ UNCHANGED <<object, audit>>

(* payslip.create succeeds: the index on (user, month, year) was free.     *)
UploadCreate(u) ==
    /\ upload[u].pc = "create"
    /\ RowFor(SlotOf(u)) = {}
    /\ rows' = rows \cup {u}
    /\ UploadGoto(u, "audit")
    /\ OnlyUpload /\ UNCHANGED <<object, isRead, readAt, isSigned, signature, audit>>

(* P2002: another upload created the row since UploadFindExisting.         *)
UploadCreateConflict(u) ==
    /\ upload[u].pc = "create"
    /\ RowFor(SlotOf(u)) # {}
    /\ UploadGoto(u, "undoConflict")
    /\ OnlyUpload /\ UNCHANGED stores

(* Any other error of payslip.create; the insert may have been committed   *)
(* and its answer lost.                                                    *)
UploadCreateFails(u) ==
    /\ upload[u].pc = "create"
    /\ \/ UNCHANGED rows
       \/ RowFor(SlotOf(u)) = {} /\ rows' = rows \cup {u}
    /\ UploadGoto(u, "undoPersist")
    /\ OnlyUpload /\ UNCHANGED <<object, isRead, readAt, isSigned, signature, audit>>

(* The catch of payslip.create deletes the key whatever the error was and  *)
(* swallows a failure to delete.                                           *)
UploadRollback(u) ==
    /\ upload[u].pc \in {"undoConflict", "undoPersist"}
    /\ \/ object' = [object EXCEPT ![Key(SlotOf(u))] = Null]
       \/ UNCHANGED object
    /\ UploadGoto(u, IF upload[u].pc = "undoConflict" THEN "conflict" ELSE "persistFailed")
    /\ OnlyUpload /\ UNCHANGED <<rows, isRead, readAt, isSigned, signature, audit>>

UploadAudit(u) ==
    /\ upload[u].pc = "audit"
    /\ audit' = audit \cup {Entry("UPLOADED", u, u)}
    /\ UploadGoto(u, "done")
    /\ OnlyUpload /\ UNCHANGED <<object, rows, isRead, readAt, isSigned, signature>>

UploadAuditFails(u) ==
    /\ upload[u].pc = "audit"
    /\ UploadGoto(u, "auditFailed")
    /\ OnlyUpload /\ UNCHANGED stores

-----------------------------------------------------------------------------
(* remove.                                                                 *)

RemovalGoto(d, pc) == removal' = [removal EXCEPT ![d].pc = pc]
OnlyRemoval == UNCHANGED <<upload, reading, signing>>

RemoveFind(d, r) ==
    /\ removal[d].pc = "idle"
    /\ removal' = [removal EXCEPT ![d] = IF r \in rows
           THEN [pc |-> "file", row |-> r] ELSE [@ EXCEPT !.pc = "refused"]]
    /\ OnlyRemoval /\ UNCHANGED stores

RemoveFile(d) ==
    /\ removal[d].pc = "file"
    /\ object' = [object EXCEPT ![Key(SlotOf(removal[d].row))] = Null]
    /\ RemovalGoto(d, "row")
    /\ OnlyRemoval /\ UNCHANGED <<rows, isRead, readAt, isSigned, signature, audit>>

(* Mutant: the failure of the deletion is swallowed, as in UploadRollback. *)
RemoveFileFailureIgnored(d) ==
    /\ removal[d].pc = "file"
    /\ RemovalGoto(d, "row")
    /\ OnlyRemoval /\ UNCHANGED stores

RemoveFileFails(d) ==
    /\ removal[d].pc = "file"
    /\ \/ object' = [object EXCEPT ![Key(SlotOf(removal[d].row))] = Null]
       \/ UNCHANGED object
    /\ RemovalGoto(d, "failed")
    /\ OnlyRemoval /\ UNCHANGED <<rows, isRead, readAt, isSigned, signature, audit>>

(* Mutant: no cascade to the signature.                                    *)
RemoveRowOnly(d) ==
    LET r == removal[d].row IN
    /\ removal[d].pc = "row"
    /\ r \in rows
    /\ rows' = rows \ {r} /\ isRead' = isRead \ {r} /\ isSigned' = isSigned \ {r}
    /\ readAt' = [readAt EXCEPT ![r] = Null]
    /\ RemovalGoto(d, "audit")
    /\ OnlyRemoval /\ UNCHANGED <<object, signature, audit>>

(* payslip.delete: the foreign key of PayslipSignature cascades.           *)
RemoveRow(d) ==
    LET r == removal[d].row IN
    /\ removal[d].pc = "row"
    /\ r \in rows
    /\ rows' = rows \ {r}
    /\ isRead' = isRead \ {r}
    /\ readAt' = [readAt EXCEPT ![r] = Null]
    /\ isSigned' = isSigned \ {r}
    /\ signature' = [signature EXCEPT ![r] = Null]
    /\ RemovalGoto(d, "audit")
    /\ OnlyRemoval /\ UNCHANGED <<object, audit>>

(* P2025 when another removal was faster, or a database error.             *)
RemoveRowFails(d) ==
    /\ removal[d].pc = "row"
    /\ RemovalGoto(d, "failed")
    /\ OnlyRemoval /\ UNCHANGED stores

RemoveAudit(d) ==
    /\ removal[d].pc = "audit"
    /\ \/ /\ audit' = audit \cup {Entry("DELETED", removal[d].row, d)}
          /\ RemovalGoto(d, "done")
       \/ /\ UNCHANGED audit
          /\ RemovalGoto(d, "failed")
    /\ OnlyRemoval /\ UNCHANGED <<object, rows, isRead, readAt, isSigned, signature>>

-----------------------------------------------------------------------------
(* markAsRead.                                                             *)

ReadingGoto(m, pc) == reading' = [reading EXCEPT ![m].pc = pc]
OnlyReading == UNCHANGED <<upload, removal, signing>>

(* The row is read; wasUnread is a copy that the later steps rely on.      *)
ReadFind(m, r, actor) ==
    /\ reading[m].pc = "idle"
    /\ reading' = [reading EXCEPT ![m] = IF r \in rows
           THEN [pc |-> "update", row |-> r, actor |-> actor, wasUnread |-> r \notin isRead]
           ELSE [@ EXCEPT !.pc = "refused"]]
    /\ OnlyReading /\ UNCHANGED stores

(* Mutant: the row is written back whole, as ReadFind saw it.              *)
ReadUpdateWholeRow(m) ==
    LET r == reading[m].row IN
    /\ reading[m].pc = "update"
    /\ r \in rows
    /\ isRead' = isRead \cup {r}
    /\ readAt' = [readAt EXCEPT ![r] = m]
    /\ isSigned' = IF reading[m].wasUnread THEN isSigned \ {r} ELSE isSigned
    /\ ReadingGoto(m, IF reading[m].wasUnread /\ reading[m].actor = "EMPLOYEE"
                      THEN "audit" ELSE "done")
    /\ OnlyReading /\ UNCHANGED <<object, rows, signature, audit>>

(* isRead and readAt are written whether or not they were already set.     *)
ReadUpdate(m) ==
    LET r == reading[m].row IN
    /\ reading[m].pc = "update"
    /\ r \in rows
    /\ isRead' = isRead \cup {r}
    /\ readAt' = [readAt EXCEPT ![r] = m]
    /\ ReadingGoto(m, IF reading[m].wasUnread /\ reading[m].actor = "EMPLOYEE"
                      THEN "audit" ELSE "done")
    /\ OnlyReading /\ UNCHANGED <<object, rows, isSigned, signature, audit>>

(* P2025 when the row was removed meanwhile, or a database error.          *)
ReadUpdateFails(m) ==
    /\ reading[m].pc = "update"
    /\ ReadingGoto(m, "failed")
    /\ OnlyReading /\ UNCHANGED stores

ReadAudit(m) ==
    /\ reading[m].pc = "audit"
    /\ \/ /\ audit' = audit \cup {Entry("READ", reading[m].row, m)}
          /\ ReadingGoto(m, "done")
       \/ /\ UNCHANGED audit
          /\ ReadingGoto(m, "failed")
    /\ OnlyReading /\ UNCHANGED <<object, rows, isRead, readAt, isSigned, signature>>

-----------------------------------------------------------------------------
(* signPayslip.                                                            *)

SigningGoto(g, pc) == signing' = [signing EXCEPT ![g].pc = pc]
OnlySigning == UNCHANGED <<upload, removal, reading>>

(* The row is read and isSigned checked; readAt is kept for the update.    *)
SignFind(g, r) ==
    /\ signing[g].pc = "idle"
    /\ signing' = [signing EXCEPT ![g] = IF r \in rows \ isSigned
           THEN [pc |-> "fetch", row |-> r, readAt |-> readAt[r], hash |-> Null]
           ELSE [@ EXCEPT !.pc = "refused"]]
    /\ OnlySigning /\ UNCHANGED stores

(* The PDF under the row's key is downloaded and hashed.                   *)
SignFetch(g) ==
    /\ signing[g].pc = "fetch"
    /\ FileOf(signing[g].row) # Null
    /\ signing' = [signing EXCEPT ![g] =
           [@ EXCEPT !.pc = "commit", !.hash = FileOf(signing[g].row)]]
    /\ OnlySigning /\ UNCHANGED stores

SignFetchFails(g) ==
    /\ signing[g].pc = "fetch"
    /\ SigningGoto(g, "failed")
    /\ OnlySigning /\ UNCHANGED stores

(* Mutant: an upsert of the signature.                                     *)
SignCommitAgain(g) ==
    LET r == signing[g].row IN
    /\ signing[g].pc = "commit"
    /\ r \in rows
    /\ signature' = [signature EXCEPT ![r] = signing[g].hash]
    /\ isSigned' = isSigned \cup {r} /\ isRead' = isRead \cup {r}
    /\ readAt' = [readAt EXCEPT ![r] = g]
    /\ audit' = audit \cup {Entry("SIGNED", r, g)}
    /\ SigningGoto(g, "done")
    /\ OnlySigning /\ UNCHANGED <<object, rows>>

(* One transaction: insert the signature (payslipId is unique and a        *)
(* foreign key), set the flags of the row, write the audit entry.          *)
SignCommit(g) ==
    LET r == signing[g].row IN
    /\ signing[g].pc = "commit"
    /\ r \in rows
    /\ signature[r] = Null
    /\ signature' = [signature EXCEPT ![r] = signing[g].hash]
    /\ isSigned' = isSigned \cup {r}
    /\ isRead' = isRead \cup {r}
    /\ readAt' = [readAt EXCEPT ![r] = IF signing[g].readAt # Null
                                       THEN signing[g].readAt ELSE g]
    /\ audit' = audit \cup {Entry("SIGNED", r, g)}
    /\ SigningGoto(g, "done")
    /\ OnlySigning /\ UNCHANGED <<object, rows>>

(* The transaction rolls back: the row is gone, a concurrent signature won,*)
(* no free verification code was drawn in 16 attempts, a database error.   *)
SignAbort(g) ==
    /\ signing[g].pc = "commit"
    /\ SigningGoto(g, "failed")
    /\ OnlySigning /\ UNCHANGED stores

-----------------------------------------------------------------------------
(* The environment.                                                        *)

(* The process that serves a request dies, or its connection is cut.       *)
Crash ==
    /\ \/ /\ \E u \in Uploads : upload[u].pc \in UploadBusy /\ UploadGoto(u, "crashed")
          /\ UNCHANGED <<removal, reading, signing>>
       \/ /\ \E d \in Removals : removal[d].pc \in OtherBusy /\ RemovalGoto(d, "failed")
          /\ UNCHANGED <<upload, reading, signing>>
       \/ /\ \E m \in Readings : reading[m].pc \in OtherBusy /\ ReadingGoto(m, "failed")
          /\ UNCHANGED <<upload, removal, signing>>
       \/ /\ \E g \in Signings : signing[g].pc \in OtherBusy /\ SigningGoto(g, "failed")
          /\ UNCHANGED <<upload, removal, reading>>
    /\ UNCHANGED stores

UploadStep(u) ==
    \/ UploadFindExisting(u) \/ UploadPut(u) \/ UploadPutFails(u)
    \/ UploadCreate(u) \/ UploadCreateConflict(u) \/ UploadCreateFails(u)
    \/ UploadRollback(u) \/ UploadAudit(u) \/ UploadAuditFails(u)
RemovalStep(d) ==
    RemoveFile(d) \/ RemoveFileFails(d) \/ RemoveRow(d) \/ RemoveRowFails(d) \/ RemoveAudit(d)
ReadingStep(m) == ReadUpdate(m) \/ ReadUpdateFails(m) \/ ReadAudit(m)
SigningStep(g) == SignFetch(g) \/ SignFetchFails(g) \/ SignCommit(g) \/ SignAbort(g)

Next ==
    \/ \E u \in Uploads : (\E s \in Slots : UploadReadTarget(u, s)) \/ UploadStep(u)
    \/ \E d \in Removals : (\E r \in Uploads : RemoveFind(d, r)) \/ RemovalStep(d)
    \/ \E m \in Readings :
          \/ \E r \in Uploads, actor \in {"EMPLOYEE", "RH_ADMIN"} : ReadFind(m, r, actor)
          \/ ReadingStep(m)
    \/ \E g \in Signings : (\E r \in Uploads : SignFind(g, r)) \/ SigningStep(g)
    \/ Crash

Spec == Init /\ [][Next]_vars

(* A request once accepted is carried on by the event loop of its process: *)
(* each awaited command is answered or fails.  Nobody has to send requests *)
(* and no account has to change.                                           *)
Fairness ==
    /\ \A u \in Uploads : WF_vars(UploadStep(u))
    /\ \A d \in Removals : WF_vars(RemovalStep(d))
    /\ \A m \in Readings : WF_vars(ReadingStep(m))
    /\ \A g \in Signings : WF_vars(SigningStep(g))
FairSpec == Spec /\ Fairness

-----------------------------------------------------------------------------
(* Properties.                                                             *)

(* At most one payslip per employee and period, whatever uploads overlap:  *)
(* the findFirst of uploadSingle does not ensure it, the unique index does.*)
OneRowPerSlot ==
    \A r1, r2 \in rows : SlotOf(r1) = SlotOf(r2) => r1 = r2

(* The three places that record an acknowledgement and a reading agree: a  *)
(* payslip is flagged signed exactly when its signature row exists, a      *)
(* signed payslip is read, readAt is set exactly on read payslips, and     *)
(* nothing survives the row.                                               *)
ReceiptConsistent ==
    /\ isSigned = {r \in Uploads : signature[r] # Null}
    /\ isRead = {r \in Uploads : readAt[r] # Null}
    /\ isSigned \subseteq isRead
    /\ isRead \subseteq rows

(* Requests that, from the bucket's point of view, may have deleted or     *)
(* overwritten the PDF of row r: its own rollback after a lost answer, an  *)
(* upload of the same slot that got past the duplicate check, or a removal *)
(* of a row of that slot.                                                  *)
RolledBack(r) == upload[r].pc = "persistFailed"
RivalUpload(r) ==
    \E u \in Uploads \ {r} :
        /\ SlotOf(u) = SlotOf(r)
        /\ upload[u].pc \notin {"idle", "find", "refused"}
RivalRemoval(r) ==
    \E d \in Removals :
        /\ removal[d].pc \in {"row", "audit", "failed", "done"}
        /\ removal[d].row # Null
        /\ SlotOf(removal[d].row) = SlotOf(r)
LossExplained(r) == RolledBack(r) \/ RivalUpload(r) \/ RivalRemoval(r)

(* A payslip whose PDF is missing or replaced owes it to one of these      *)
(* three: in particular a refused duplicate never touches the file, and    *)
(* neither do readings, signatures and crashes.                            *)
LostFileHasCause ==
    \A r \in rows : FileOf(r) # r => LossExplained(r)

(* Once a distributed payslip is withdrawn its PDF is out of the bucket:   *)
(* remove deletes the object first and gives up if that fails.             *)
WithdrawnFileGone ==
    \A r \in Uploads \ rows :
        upload[r].pc \in {"audit", "auditFailed", "done"} => FileOf(r) # r

(* A signature is for a PDF uploaded for the same employee and period.     *)
SignatureOfSlot ==
    \A r \in isSigned : SlotOf(signature[r]) = SlotOf(r)

(* Exactly one SIGNED entry for each signature, and never two for the same *)
(* payslip, whatever signings overlap.                                     *)
SignedAuditExact ==
    \A r \in Uploads :
        /\ \A e, f \in Entries("SIGNED", r) : e = f
        /\ r \in isSigned => Entries("SIGNED", r) # {}

(* While a payslip exists, a reading is not undone, and an acknowledgement *)
(* is neither undone nor replaced.                                         *)
ReceiptImmutable ==
    [][\A r \in rows \cap rows' :
          /\ r \in isRead => r \in isRead'
          /\ r \in isSigned => r \in isSigned' /\ signature'[r] = signature[r]]_vars

(* The services implement the ledger.                                      *)
StatusOf(r) == IF r \in isSigned THEN "signed" ELSE IF r \in isRead THEN "read" ELSE "unread"
LedgerView ==
    [s \in Slots |->
        IF RowFor(s) = {} THEN [doc |-> Null, status |-> "absent"]
        ELSE LET r == CHOOSE x \in RowFor(s) : TRUE IN [doc |-> r, status |-> StatusOf(r)]]
ReceiptsView == {r \in Uploads : Entries("SIGNED", r) # {}}
Ledger == INSTANCE PayslipLedger
             WITH Docs <- Uploads, ledger <- LedgerView, receipts <- ReceiptsView
ImplementsLedger == Ledger!Spec

(* uploadFileWithRetry gives up: an upload that reached the storage step   *)
(* comes to an end, also when S3 keeps failing.                            *)
EveryUploadAnswered ==
    \A u \in Uploads : upload[u].pc = "put" ~> upload[u].pc \in UploadEnded

-----------------------------------------------------------------------------
(* Claims of the documentation that the code does not keep.                *)

(* The certificate of a signature says that its SHA-256 guarantees the     *)
(* integrity of the signed document: as long as its own upload succeeded   *)
(* and nobody asks to withdraw it, the stored PDF is the one signed.       *)
SignedFileIntact ==
    \A r \in isSigned :
        ~RolledBack(r) /\ (\A d \in Removals : removal[d].row # r)
            => FileOf(r) = signature[r]

(* PAYSLIP_READ is documented as the first reading by the holder: at most  *)
(* one entry per payslip.                                                  *)
OneReadEntry ==
    \A r \in Uploads : \A e, f \in Entries("READ", r) : e = f
=============================================================================
