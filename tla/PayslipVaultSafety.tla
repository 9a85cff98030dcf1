------------------------- MODULE PayslipVaultSafety -------------------------
(***************************************************************************)
(* The safety invariants of PayslipVault, proved from the type invariant   *)
(* of PayslipVaultProofs.  The proofs go by what a step may do to the      *)
(* stores (RowsStep) and to the requests (UploadMoves), not by the         *)
(* individual actions.                                                     *)
(***************************************************************************)
EXTENDS PayslipVaultProofs

flags == <<isRead, readAt, isSigned, signature>>

(* payslip.create: the unique index was free.                              *)
Creates(u) ==
    /\ upload[u].pc = "create"
    /\ RowFor(SlotOf(u)) = {}
    /\ rows' = rows \cup {u}
    /\ UNCHANGED flags

(* Only four kinds of steps touch the rows, their flags and signatures.    *)
LEMMA RowsStep ==
    ASSUME [Next]_vars
    PROVE  \/ UNCHANGED <<rows, flags>>
           \/ \E u \in Uploads : Creates(u)
           \/ \E d \in Removals : RemoveRow(d)
           \/ \E m \in Readings : ReadUpdate(m)
           \/ \E g \in Signings : SignCommit(g)
<1> USE DEF stores, flags
<1>1. CASE UNCHANGED vars \/ Crash
  BY <1>1 DEF vars, Crash
<1>2. ASSUME NEW u \in Uploads, (\E s \in Slots : UploadReadTarget(u, s)) \/ UploadStep(u)
      PROVE  UNCHANGED <<rows, flags>> \/ Creates(u)
  BY <1>2 DEF UploadStep, UploadReadTarget, UploadFindExisting, UploadPut, UploadPutFails,
     UploadCreate, UploadCreateConflict, UploadCreateFails, UploadRollback, UploadAudit,
     UploadAuditFails, Creates
<1>3. ASSUME NEW d \in Removals, (\E r \in Uploads : RemoveFind(d, r)) \/ RemovalStep(d)
      PROVE  UNCHANGED <<rows, flags>> \/ RemoveRow(d)
  BY <1>3 DEF RemovalStep, RemoveFind, RemoveFile, RemoveFileFails, RemoveRowFails, RemoveAudit
<1>4. ASSUME NEW m \in Readings,
             \/ \E r \in Uploads, actor \in {"EMPLOYEE", "RH_ADMIN"} : ReadFind(m, r, actor)
             \/ ReadingStep(m)
      PROVE  UNCHANGED <<rows, flags>> \/ ReadUpdate(m)
  BY <1>4 DEF ReadingStep, ReadFind, ReadUpdateFails, ReadAudit
<1>5. ASSUME NEW g \in Signings, (\E r \in Uploads : SignFind(g, r)) \/ SigningStep(g)
      PROVE  UNCHANGED <<rows, flags>> \/ SignCommit(g)
  BY <1>5 DEF SigningStep, SignFind, SignFetch, SignFetchFails, SignAbort
<1>6. QED
  BY <1>1, <1>2, <1>3, <1>4, <1>5 DEF Next

(* Steps of the other handlers leave the uploads alone.                    *)
LEMMA UploadTouched ==
    ASSUME [Next]_vars
    PROVE  \/ UNCHANGED upload
           \/ \E v \in Uploads : (\E s \in Slots : UploadReadTarget(v, s)) \/ UploadStep(v)
           \/ \E v \in Uploads : upload[v].pc \in UploadBusy /\ UploadGoto(v, "crashed")
<1>1. ASSUME NEW d \in Removals, (\E r \in Uploads : RemoveFind(d, r)) \/ RemovalStep(d)
      PROVE  UNCHANGED upload
  BY <1>1 DEF RemovalStep, RemoveFind, RemoveFile, RemoveFileFails, RemoveRow, RemoveRowFails,
     RemoveAudit, OnlyRemoval
<1>2. ASSUME NEW m \in Readings,
             \/ \E r \in Uploads, actor \in {"EMPLOYEE", "RH_ADMIN"} : ReadFind(m, r, actor)
             \/ ReadingStep(m)
      PROVE  UNCHANGED upload
  BY <1>2 DEF ReadingStep, ReadFind, ReadUpdate, ReadUpdateFails, ReadAudit, OnlyReading
<1>3. ASSUME NEW g \in Signings, (\E r \in Uploads : SignFind(g, r)) \/ SigningStep(g)
      PROVE  UNCHANGED upload
  BY <1>3 DEF SigningStep, SignFind, SignFetch, SignFetchFails, SignCommit, SignAbort, OnlySigning
<1>4. QED
  BY <1>1, <1>2, <1>3 DEF Next, Crash, vars, requests

(* Uploads past the duplicate check.                                       *)
Tried == {"put", "unstored", "create", "undoConflict", "conflict"} \cup PastCreate

(* An upload keeps its slot and never returns to an earlier stage.         *)
LEMMA UploadMoves ==
    ASSUME TypeInv, [Next]_vars, NEW u \in Uploads, upload[u].pc # "idle"
    PROVE  /\ SlotOf(u)' = SlotOf(u)
           /\ upload'[u].pc # "idle"
           /\ upload[u].pc \in Tried => upload'[u].pc \in Tried
           /\ upload[u].pc \in PastCreate => upload'[u].pc \in PastCreate
           /\ upload[u].pc = "persistFailed" => upload'[u].pc = "persistFailed"
<1> USE DEF SlotOf, PastCreate, Tried
<1>1. upload[u] \in UploadState /\ upload \in [Uploads -> UploadState]
  BY DEF TypeInv, TypeOK, RequestsOK
<1>2. CASE upload'[u] = upload[u]
  BY <1>2
<1>3. ASSUME NEW v \in Uploads, v # u, (\E s \in Slots : UploadReadTarget(v, s)) \/ UploadStep(v)
      PROVE  upload'[u] = upload[u]
  BY <1>1, <1>3 DEF UploadStep, UploadReadTarget, UploadFindExisting, UploadPut, UploadPutFails,
     UploadCreate, UploadCreateConflict, UploadCreateFails, UploadRollback, UploadAudit,
     UploadAuditFails, UploadGoto
<1>4. ASSUME UploadStep(u)
      PROVE  /\ upload'[u].slot = upload[u].slot
             /\ \/ upload[u].pc = "find" /\ upload'[u].pc \in {"refused", "put"}
                \/ upload[u].pc = "put" /\ upload'[u].pc \in {"put", "create", "unstored"}
                \/ upload[u].pc = "create" /\ upload'[u].pc \in {"audit", "undoConflict", "undoPersist"}
                \/ upload[u].pc = "undoConflict" /\ upload'[u].pc = "conflict"
                \/ upload[u].pc = "undoPersist" /\ upload'[u].pc = "persistFailed"
                \/ upload[u].pc = "audit" /\ upload'[u].pc \in {"auditFailed", "done"}
  <2> USE <1>1 DEF UploadGoto, UploadState
  <2>1. CASE UploadFindExisting(u)
    BY <2>1 DEF UploadFindExisting
  <2>2. CASE UploadPut(u)
    BY <2>2 DEF UploadPut
  <2>3. CASE UploadPutFails(u)
    BY <2>3 DEF UploadPutFails
  <2>4. CASE UploadCreate(u) \/ UploadCreateConflict(u) \/ UploadCreateFails(u)
    BY <2>4 DEF UploadCreate, UploadCreateConflict, UploadCreateFails
  <2>5. CASE UploadRollback(u)
    BY <2>5 DEF UploadRollback
  <2>6. CASE UploadAudit(u) \/ UploadAuditFails(u)
    BY <2>6 DEF UploadAudit, UploadAuditFails
  <2>7. QED
    BY <1>4, <2>1, <2>2, <2>3, <2>4, <2>5, <2>6 DEF UploadStep
<1>5. \/ UNCHANGED upload
      \/ \E v \in Uploads : (\E s \in Slots : UploadReadTarget(v, s)) \/ UploadStep(v)
      \/ \E v \in Uploads : upload[v].pc \in UploadBusy /\ UploadGoto(v, "crashed")
  BY UploadTouched
<1>6. ASSUME NEW s \in Slots, UploadReadTarget(u, s)
      PROVE  upload[u].pc = "idle"
  BY <1>6 DEF UploadReadTarget
<1>7. CASE UploadStep(u)
  BY <1>4, <1>7
<1>8. ASSUME NEW v \in Uploads, upload[v].pc \in UploadBusy, UploadGoto(v, "crashed")
      PROVE  upload'[u] = upload[u] \/ (upload[u].pc # "persistFailed" /\ upload'[u].pc = "crashed"
                                          /\ upload'[u].slot = upload[u].slot)
  BY <1>1, <1>8 DEF UploadGoto, UploadState, UploadBusy
<1>9. upload'[u] = upload[u] \/ UploadStep(u)
          \/ (upload[u].pc # "persistFailed" /\ upload'[u].pc = "crashed"
                /\ upload'[u].slot = upload[u].slot)
  BY <1>3, <1>5, <1>6, <1>8
<1>10. QED
  BY <1>2, <1>7, <1>9

-----------------------------------------------------------------------------
LEMMA OneRowStep == ASSUME TypeInv, [Next]_vars, OneRowPerSlot PROVE OneRowPerSlot'
<1>1. \A r \in rows : r \in Uploads /\ SlotOf(r)' = SlotOf(r)
  BY UploadMoves DEF TypeInv, TypeOK, StoresOK, UploadLocals, PastCreate
<1>2. rows' \subseteq rows \/ \E u \in Uploads : Creates(u)
  BY RowsStep DEF RemoveRow, ReadUpdate, SignCommit
<1>3. ASSUME NEW u \in Uploads, Creates(u)
      PROVE  SlotOf(u)' = SlotOf(u) /\ \A r \in rows : SlotOf(r) # SlotOf(u)
  BY <1>3, UploadMoves DEF Creates, RowFor
<1>4. QED
  BY <1>1, <1>2, <1>3 DEF OneRowPerSlot, Creates

(* However uploads of the same employee and month overlap, crash or lose   *)
(* their answers, the table never holds two payslips for them.             *)
THEOREM NoDuplicatePayslip == Spec => []OneRowPerSlot
<1>1. Init => OneRowPerSlot
  BY DEF Init, OneRowPerSlot
<1>2. TypeInv /\ OneRowPerSlot /\ [Next]_vars => OneRowPerSlot'
  BY OneRowStep
<1>3. QED
  BY <1>1, <1>2, TypeInvInit, TypeInvStep, PTL DEF Spec

-----------------------------------------------------------------------------
LEMMA ReceiptStep ==
    ASSUME TypeInv, [Next]_vars, ReceiptConsistent
    PROVE  ReceiptConsistent'
<1> USE DEF ReceiptConsistent, flags
<1>1. /\ readAt \in [Uploads -> Readings \cup Signings \cup {Null}]
      /\ signature \in [Uploads -> Uploads \cup {Null}]
      /\ rows \subseteq Uploads
  BY DEF TypeInv, TypeOK, StoresOK
<1>2. CASE UNCHANGED <<rows, flags>>
  BY <1>2
<1>3. ASSUME NEW u \in Uploads, Creates(u) PROVE ReceiptConsistent'
  BY <1>3 DEF Creates
<1>4. ASSUME NEW d \in Removals, RemoveRow(d) PROVE ReceiptConsistent'
  BY <1>1, <1>4 DEF RemoveRow
<1>5. ASSUME NEW m \in Readings, ReadUpdate(m) PROVE ReceiptConsistent'
  BY <1>1, <1>5, NullAssumption DEF ReadUpdate
<1>6. ASSUME NEW g \in Signings, SignCommit(g) PROVE ReceiptConsistent'
  <2>1. signing[g].hash # Null /\ signing[g].row \in rows
    BY <1>6 DEF SignCommit, TypeInv, SigningLocals
  <2>2. QED
    BY <1>1, <1>6, <2>1, NullAssumption DEF SignCommit
<1>7. QED
  BY <1>2, <1>3, <1>4, <1>5, <1>6, RowsStep

(* The flags of a payslip, its readAt and its signature row always agree.  *)
THEOREM ReceiptsAgree == Spec => []ReceiptConsistent
<1>1. Init => ReceiptConsistent
  BY DEF Init, ReceiptConsistent
<1>2. TypeInv /\ ReceiptConsistent /\ [Next]_vars => ReceiptConsistent'
  BY ReceiptStep
<1>3. QED
  BY <1>1, <1>2, TypeInvInit, TypeInvStep, PTL DEF Spec

(* No step undoes a reading or an acknowledgement of a payslip that stays, *)
(* or replaces the hash that was acknowledged.                             *)
THEOREM ReceiptsKept == Spec => ReceiptImmutable
<1>1. ASSUME TypeInv, ReceiptConsistent, [Next]_vars
      PROVE  \A r \in rows \cap rows' :
                /\ r \in isRead => r \in isRead'
                /\ r \in isSigned => r \in isSigned' /\ signature'[r] = signature[r]
  <2>1. signature \in [Uploads -> Uploads \cup {Null}] /\ rows \subseteq Uploads
    BY <1>1 DEF TypeInv, TypeOK, StoresOK
  <2>2. QED
    BY <1>1, <2>1, RowsStep DEF flags, Creates, RemoveRow, ReadUpdate, SignCommit, ReceiptConsistent
<1>2. Spec => []TypeInv
  BY TypeInvInit, TypeInvStep, PTL DEF Spec
<1>3. QED
  BY <1>1, <1>2, ReceiptsAgree, PTL DEF Spec, ReceiptImmutable

-----------------------------------------------------------------------------
(* What a step may do to the bucket.                                       *)
Writes(u) ==
    /\ upload[u].pc = "put"
    /\ object' = [object EXCEPT ![Key(SlotOf(u))] = u]
Undoes(u) ==
    /\ upload[u].pc \in {"undoConflict", "undoPersist"}
    /\ object' = [object EXCEPT ![Key(SlotOf(u))] = Null]
    /\ upload[u].pc = "undoPersist" => upload'[u].pc = "persistFailed"
Deletes(d) ==
    /\ removal[d].pc = "file"
    /\ object' = [object EXCEPT ![Key(SlotOf(removal[d].row))] = Null]
    /\ removal'[d].pc \in {"row", "failed"}
    /\ removal'[d].row = removal[d].row

LEMMA ObjectStep ==
    ASSUME TypeInv, [Next]_vars
    PROVE  \/ UNCHANGED object
           \/ \E u \in Uploads : Writes(u) \/ Undoes(u)
           \/ \E d \in Removals : Deletes(d)
<1> USE DEF stores
<1>1. RequestsOK
  BY DEF TypeInv, TypeOK
<1>2. CASE UNCHANGED vars \/ Crash
  BY <1>2 DEF vars, Crash
<1>3. ASSUME NEW u \in Uploads, (\E s \in Slots : UploadReadTarget(u, s)) \/ UploadStep(u)
      PROVE  UNCHANGED object \/ Writes(u) \/ Undoes(u)
  <2>1. CASE UploadRollback(u)
    BY <1>1, <2>1 DEF UploadRollback, UploadGoto, Undoes, RequestsOK, UploadState
  <2>2. CASE UploadPut(u) \/ UploadPutFails(u)
    BY <2>2 DEF UploadPut, UploadPutFails, Writes
  <2>3. QED
    BY <1>3, <2>1, <2>2 DEF UploadStep, UploadReadTarget, UploadFindExisting,
       UploadCreate, UploadCreateConflict, UploadCreateFails, UploadAudit, UploadAuditFails
<1>4. ASSUME NEW d \in Removals, (\E r \in Uploads : RemoveFind(d, r)) \/ RemovalStep(d)
      PROVE  UNCHANGED object \/ Deletes(d)
  <2>1. CASE RemoveFile(d) \/ RemoveFileFails(d)
    BY <1>1, <2>1 DEF RemoveFile, RemoveFileFails, RemovalGoto, Deletes, RequestsOK, RemovalState
  <2>2. QED
    BY <1>4, <2>1 DEF RemovalStep, RemoveFind, RemoveRow, RemoveRowFails, RemoveAudit
<1>5. ASSUME NEW m \in Readings,
             \/ \E r \in Uploads, actor \in {"EMPLOYEE", "RH_ADMIN"} : ReadFind(m, r, actor)
             \/ ReadingStep(m)
      PROVE  UNCHANGED object
  BY <1>5 DEF ReadingStep, ReadFind, ReadUpdate, ReadUpdateFails, ReadAudit
<1>6. ASSUME NEW g \in Signings, (\E r \in Uploads : SignFind(g, r)) \/ SigningStep(g)
      PROVE  UNCHANGED object
  BY <1>6 DEF SigningStep, SignFind, SignFetch, SignFetchFails, SignCommit, SignAbort
<1>7. QED
  BY <1>2, <1>3, <1>4, <1>5, <1>6 DEF Next

(* Steps of the other handlers leave the removals alone.                   *)
LEMMA RemovalTouched ==
    ASSUME [Next]_vars
    PROVE  \/ UNCHANGED removal
           \/ \E e \in Removals : (\E r \in Uploads : RemoveFind(e, r)) \/ RemovalStep(e)
           \/ \E e \in Removals : removal[e].pc \in OtherBusy /\ RemovalGoto(e, "failed")
<1>1. ASSUME NEW u \in Uploads, (\E s \in Slots : UploadReadTarget(u, s)) \/ UploadStep(u)
      PROVE  UNCHANGED removal
  BY <1>1 DEF UploadStep, UploadReadTarget, UploadFindExisting, UploadPut, UploadPutFails,
     UploadCreate, UploadCreateConflict, UploadCreateFails, UploadRollback, UploadAudit,
     UploadAuditFails, OnlyUpload
<1>2. ASSUME NEW m \in Readings,
             \/ \E r \in Uploads, actor \in {"EMPLOYEE", "RH_ADMIN"} : ReadFind(m, r, actor)
             \/ ReadingStep(m)
      PROVE  UNCHANGED removal
  BY <1>2 DEF ReadingStep, ReadFind, ReadUpdate, ReadUpdateFails, ReadAudit, OnlyReading
<1>3. ASSUME NEW g \in Signings, (\E r \in Uploads : SignFind(g, r)) \/ SigningStep(g)
      PROVE  UNCHANGED removal
  BY <1>3 DEF SigningStep, SignFind, SignFetch, SignFetchFails, SignCommit, SignAbort, OnlySigning
<1>4. QED
  BY <1>1, <1>2, <1>3 DEF Next, Crash, vars, requests

(* A removal that got hold of a row keeps it, and does not go back.        *)
DeletionBegun == {"row", "audit", "failed", "done"}
LEMMA RemovalMoves ==
    ASSUME TypeInv, [Next]_vars, NEW d \in Removals, removal[d].row # Null
    PROVE  /\ removal'[d].row = removal[d].row
           /\ removal[d].pc \in DeletionBegun => removal'[d].pc \in DeletionBegun
<1> USE DEF DeletionBegun
<1>1. removal[d] \in RemovalState /\ removal \in [Removals -> RemovalState]
  BY DEF TypeInv, TypeOK, RequestsOK
<1>2. CASE removal'[d] = removal[d]
  BY <1>2
<1>3. ASSUME NEW e \in Removals, (\E r \in Uploads : RemoveFind(e, r)) \/ RemovalStep(e)
      PROVE  \/ removal'[d] = removal[d]
             \/ /\ removal'[d].row = removal[d].row
                /\ \/ removal[d].pc \in {"file", "row"} /\ removal'[d].pc \in {"row", "audit", "failed"}
                   \/ removal[d].pc = "audit" /\ removal'[d].pc \in {"done", "failed"}
  <2>1. CASE e # d
    BY <1>1, <1>3, <2>1 DEF RemovalStep, RemoveFind, RemoveFile, RemoveFileFails, RemoveRow,
       RemoveRowFails, RemoveAudit, RemovalGoto
  <2>2. ~\E r \in Uploads : RemoveFind(d, r)
    BY DEF RemoveFind, TypeInv, RemovalLocals
  <2>3. CASE RemoveFile(d) \/ RemoveFileFails(d) \/ RemoveRow(d) \/ RemoveRowFails(d)
    BY <1>1, <2>3 DEF RemoveFile, RemoveFileFails, RemoveRow, RemoveRowFails, RemovalGoto, RemovalState
  <2>4. CASE RemoveAudit(d)
    BY <1>1, <2>4 DEF RemoveAudit, RemovalGoto, RemovalState
  <2>5. QED
    BY <1>3, <2>1, <2>2, <2>3, <2>4 DEF RemovalStep
<1>4. ASSUME NEW e \in Removals, removal[e].pc \in OtherBusy, RemovalGoto(e, "failed")
      PROVE  \/ removal'[d] = removal[d]
             \/ removal'[d].row = removal[d].row /\ removal'[d].pc = "failed"
  BY <1>1, <1>4 DEF RemovalGoto, RemovalState
<1>5. \/ UNCHANGED removal
      \/ \E e \in Removals : (\E r \in Uploads : RemoveFind(e, r)) \/ RemovalStep(e)
      \/ \E e \in Removals : removal[e].pc \in OtherBusy /\ RemovalGoto(e, "failed")
  BY RemovalTouched
<1>6. QED
  BY <1>2, <1>3, <1>4, <1>5

-----------------------------------------------------------------------------
(* The invariant behind LostFileHasCause also covers the upload that is    *)
(* about to create its row.                                                *)
LossInv ==
    \A r \in Uploads :
        r \in rows \/ upload[r].pc = "create" => FileOf(r) = r \/ LossExplained(r)

LEMMA ExplanationStays ==
    ASSUME TypeInv, [Next]_vars, NEW r \in Uploads, upload[r].pc # "idle", LossExplained(r)
    PROVE  LossExplained(r)'
<1>1. SlotOf(r)' = SlotOf(r)
  BY UploadMoves
<1>2. CASE RolledBack(r)
  BY <1>2, UploadMoves DEF LossExplained, RolledBack
<1>3. CASE RivalUpload(r)
  <2>1. PICK u \in Uploads \ {r} :
           SlotOf(u) = SlotOf(r) /\ upload[u].pc \notin {"idle", "find", "refused"}
    BY <1>3 DEF RivalUpload
  <2>2. upload[u].pc \in Tried
    BY <2>1 DEF TypeInv, TypeOK, RequestsOK, UploadState, UploadBusy, UploadEnded, Tried, PastCreate
  <2>3. SlotOf(u)' = SlotOf(u) /\ upload'[u].pc \in Tried
    BY <2>1, <2>2, UploadMoves
  <2>4. RivalUpload(r)'
    BY <1>1, <2>1, <2>3 DEF RivalUpload, Tried, PastCreate
  <2>5. QED
    BY <2>4 DEF LossExplained
<1>4. CASE RivalRemoval(r)
  <2>1. PICK d \in Removals :
           removal[d].pc \in DeletionBegun /\ removal[d].row # Null /\ SlotOf(removal[d].row) = SlotOf(r)
    BY <1>4 DEF RivalRemoval, DeletionBegun
  <2>2. removal'[d].row = removal[d].row /\ removal'[d].pc \in DeletionBegun
    BY <2>1, RemovalMoves
  <2>3. removal[d].row \in Uploads /\ upload[removal[d].row].pc # "idle"
    BY <2>1 DEF TypeInv, TypeOK, RequestsOK, RemovalState, RemovalLocals, Targeted, PastCreate
  <2>4. SlotOf(removal[d].row)' = SlotOf(removal[d].row)
    BY <2>2, <2>3, UploadMoves DEF SlotOf
  <2>5. RivalRemoval(r)'
    BY <1>1, <2>1, <2>2, <2>4 DEF RivalRemoval, DeletionBegun
  <2>6. QED
    BY <2>5 DEF LossExplained
<1>5. QED
  BY <1>2, <1>3, <1>4 DEF LossExplained

(* The only way to the insertion of the row is a PDF just stored.          *)
LEMMA CreateEntry ==
    ASSUME TypeInv, [Next]_vars, NEW r \in Uploads, upload'[r].pc = "create"
    PROVE  upload[r].pc = "create" \/ UploadPut(r)
<1>1. upload \in [Uploads -> UploadState]
  BY DEF TypeInv, TypeOK, RequestsOK
<1>2. ASSUME NEW u \in Uploads, (\E s \in Slots : UploadReadTarget(u, s)) \/ UploadStep(u)
      PROVE  upload[r].pc = "create" \/ UploadPut(r)
  <2>1. CASE u # r
    BY <1>1, <1>2, <2>1 DEF UploadStep, UploadReadTarget, UploadFindExisting, UploadPut,
       UploadPutFails, UploadCreate, UploadCreateConflict, UploadCreateFails, UploadRollback,
       UploadAudit, UploadAuditFails, UploadGoto
  <2>2. ASSUME NEW s \in Slots, UploadReadTarget(r, s) PROVE FALSE
    <3>1. PICK pc \in {"find", "refused"} :
             upload' = [upload EXCEPT ![r] = [@ EXCEPT !.slot = s, !.pc = pc]]
      BY <2>2 DEF UploadReadTarget
    <3>2. QED
      BY <1>1, <3>1 DEF UploadState
  <2>3. CASE UploadFindExisting(r) \/ UploadPutFails(r)
    BY <1>1, <2>3 DEF UploadFindExisting, UploadPutFails, UploadGoto, UploadState
  <2>4. CASE UploadCreate(r) \/ UploadCreateConflict(r) \/ UploadCreateFails(r)
    BY <2>4 DEF UploadCreate, UploadCreateConflict, UploadCreateFails
  <2>5. CASE UploadRollback(r) \/ UploadAudit(r) \/ UploadAuditFails(r)
    BY <1>1, <2>5 DEF UploadRollback, UploadAudit, UploadAuditFails, UploadGoto, UploadState
  <2>6. QED
    BY <1>2, <2>1, <2>2, <2>3, <2>4, <2>5 DEF UploadStep
<1>3. ASSUME NEW u \in Uploads, UploadGoto(u, "crashed") PROVE upload[r].pc = "create"
  BY <1>1, <1>3 DEF UploadGoto, UploadState
<1>4. CASE UNCHANGED upload
  BY <1>4
<1>5. \/ UNCHANGED upload
      \/ \E u \in Uploads : (\E s \in Slots : UploadReadTarget(u, s)) \/ UploadStep(u)
      \/ \E u \in Uploads : UploadGoto(u, "crashed")
  BY UploadTouched
<1>6. QED
  BY <1>2, <1>3, <1>4, <1>5

LEMMA LossStep == ASSUME TypeInv, [Next]_vars, LossInv PROVE LossInv'
<1> SUFFICES ASSUME NEW r \in Uploads, r \in rows' \/ upload'[r].pc = "create"
             PROVE  FileOf(r)' = r \/ LossExplained(r)'
  BY DEF LossInv
<1>1. /\ object \in [Slots -> Uploads \cup {Null}]
      /\ \A v \in Uploads : upload[v].pc # "idle" => SlotOf(v) \in Slots
      /\ \A v \in rows : upload[v].pc \in PastCreate
  BY DEF TypeInv, TypeOK, StoresOK, UploadLocals, SlotOf
<1>2. \/ r \in rows \/ upload[r].pc = "create"
      \/ UploadPut(r)
  BY RowsStep, CreateEntry DEF Creates, RemoveRow, ReadUpdate, SignCommit
<1>3. upload[r].pc # "idle" /\ SlotOf(r)' = SlotOf(r) /\ SlotOf(r) \in Slots
  BY <1>1, <1>2, UploadMoves DEF UploadPut, PastCreate
<1>4. ASSUME NEW u \in Uploads, Writes(u), u = r \/ SlotOf(u) = SlotOf(r)
      PROVE  FileOf(r)' = r \/ LossExplained(r)'
  <2>1. CASE u = r
    BY <1>1, <1>3, <1>4, <2>1, KeyIsSlot DEF Writes, FileOf
  <2>2. CASE u # r
    BY <1>3, <1>4, <2>2, ExplanationStays DEF Writes, RivalUpload, LossExplained
  <2>3. QED
    BY <2>1, <2>2
<1>5. CASE UploadPut(r)
  BY <1>4, <1>5 DEF UploadPut, Writes
<1>6. CASE r \in rows \/ upload[r].pc = "create"
  <2>1. FileOf(r) = r \/ LossExplained(r)
    BY <1>6 DEF LossInv
  <2>2. CASE FileOf(r)' = FileOf(r)
    BY <1>3, <2>1, <2>2, ExplanationStays
  <2>3. ASSUME NEW s \in Slots, NEW o, object' = [object EXCEPT ![Key(s)] = o], s # SlotOf(r)
        PROVE  FileOf(r)' = FileOf(r)
    BY <1>1, <1>3, <2>3, KeyIsSlot DEF FileOf
  <2>4. CASE UNCHANGED object
    BY <1>3, <2>2, <2>4 DEF FileOf
  <2>5. ASSUME NEW u \in Uploads, Writes(u) PROVE FileOf(r)' = r \/ LossExplained(r)'
    BY <1>1, <1>4, <2>2, <2>3, <2>5 DEF Writes
  <2>6. ASSUME NEW u \in Uploads, Undoes(u) PROVE FileOf(r)' = r \/ LossExplained(r)'
    <3>1. CASE u = r
      BY <1>1, <1>6, <2>6, <3>1 DEF Undoes, PastCreate, LossExplained, RolledBack
    <3>2. CASE u # r /\ SlotOf(u) = SlotOf(r)
      BY <1>3, <2>6, <3>2, ExplanationStays DEF Undoes, RivalUpload, LossExplained
    <3>3. CASE SlotOf(u) # SlotOf(r)
      BY <1>1, <2>2, <2>3, <2>6, <3>3 DEF Undoes
    <3>4. QED
      BY <3>1, <3>2, <3>3
  <2>7. ASSUME NEW d \in Removals, Deletes(d) PROVE FileOf(r)' = r \/ LossExplained(r)'
    <3>1. /\ removal[d].row \in Uploads /\ removal[d].row # Null
          /\ upload[removal[d].row].pc # "idle"
      BY <2>7 DEF Deletes, TypeInv, TypeOK, RequestsOK, RemovalState, RemovalLocals, Targeted,
         OtherBusy, PastCreate
    <3>2. SlotOf(removal[d].row) \in Slots /\ SlotOf(removal[d].row)' = SlotOf(removal[d].row)
      BY <1>1, <2>7, <3>1, UploadMoves DEF Deletes, SlotOf
    <3>3. CASE SlotOf(removal[d].row) = SlotOf(r)
      BY <1>3, <2>7, <3>1, <3>2, <3>3 DEF Deletes, RivalRemoval, LossExplained
    <3>4. CASE SlotOf(removal[d].row) # SlotOf(r)
      BY <2>2, <2>3, <2>7, <3>2, <3>4 DEF Deletes
    <3>5. QED
      BY <3>3, <3>4
  <2>8. QED
    BY <2>4, <2>5, <2>6, <2>7, ObjectStep
<1>7. QED
  BY <1>2, <1>5, <1>6

(* A payslip in the table whose PDF is missing or replaced had a rival     *)
(* upload for its slot, a removal on its slot, or a lost answer of the     *)
(* database; nothing else in the code can separate a row from its file.    *)
THEOREM LossHasCause == Spec => []LostFileHasCause
<1>1. Init => LossInv
  BY DEF Init, LossInv
<1>2. TypeInv /\ LossInv /\ [Next]_vars => LossInv'
  BY LossStep
<1>3. TypeInv /\ LossInv => LostFileHasCause
  BY DEF TypeInv, TypeOK, StoresOK, LossInv, LostFileHasCause
<1>4. QED
  BY <1>1, <1>2, <1>3, TypeInvInit, TypeInvStep, PTL DEF Spec

-----------------------------------------------------------------------------
(* A removal whose DeleteObject succeeded: the PDF of its row is gone for  *)
(* good, because the upload of that row is past its PutObject.             *)
Distributed(r) == upload[r].pc \in {"audit", "auditFailed", "done"}
WithdrawInv ==
    /\ WithdrawnFileGone
    /\ \A d \in Removals :
          removal[d].pc = "row" => FileOf(removal[d].row) # removal[d].row

LEMMA DistributedEntry ==
    ASSUME TypeInv, [Next]_vars, NEW r \in Uploads, Distributed(r)'
    PROVE  Distributed(r) \/ r \in rows'
<1> USE DEF Distributed
<1>1. upload \in [Uploads -> UploadState]
  BY DEF TypeInv, TypeOK, RequestsOK
<1>2. ASSUME NEW u \in Uploads, (\E s \in Slots : UploadReadTarget(u, s)) \/ UploadStep(u)
      PROVE  Distributed(r) \/ r \in rows'
  <2>1. CASE u # r
    BY <1>1, <1>2, <2>1 DEF UploadStep, UploadReadTarget, UploadFindExisting, UploadPut,
       UploadPutFails, UploadCreate, UploadCreateConflict, UploadCreateFails, UploadRollback,
       UploadAudit, UploadAuditFails, UploadGoto
  <2>2. ASSUME NEW s \in Slots, UploadReadTarget(r, s) PROVE FALSE
    <3>1. PICK pc \in {"find", "refused"} :
             upload' = [upload EXCEPT ![r] = [@ EXCEPT !.slot = s, !.pc = pc]]
      BY <2>2 DEF UploadReadTarget
    <3>2. QED
      BY <1>1, <3>1 DEF UploadState
  <2>3. CASE UploadFindExisting(r) \/ UploadPut(r) \/ UploadPutFails(r)
    BY <1>1, <2>3 DEF UploadFindExisting, UploadPut, UploadPutFails, UploadGoto, UploadState
  <2>4. CASE UploadCreate(r)
    BY <2>4 DEF UploadCreate
  <2>5. CASE UploadCreateConflict(r) \/ UploadCreateFails(r) \/ UploadRollback(r)
    BY <1>1, <2>5 DEF UploadCreateConflict, UploadCreateFails, UploadRollback, UploadGoto, UploadState
  <2>6. CASE UploadAudit(r) \/ UploadAuditFails(r)
    BY <2>6 DEF UploadAudit, UploadAuditFails
  <2>7. QED
    BY <1>2, <2>1, <2>2, <2>3, <2>4, <2>5, <2>6 DEF UploadStep
<1>3. ASSUME NEW u \in Uploads, UploadGoto(u, "crashed") PROVE Distributed(r)
  BY <1>1, <1>3 DEF UploadGoto, UploadState
<1>4. QED
  BY <1>2, <1>3, UploadTouched

LEMMA DeletedEntry ==
    ASSUME TypeInv, [Next]_vars, NEW d \in Removals, removal'[d].pc = "row"
    PROVE  removal[d].pc = "row" \/ RemoveFile(d)
<1>1. removal \in [Removals -> RemovalState]
  BY DEF TypeInv, TypeOK, RequestsOK
<1>2. ASSUME NEW e \in Removals, (\E r \in Uploads : RemoveFind(e, r)) \/ RemovalStep(e)
      PROVE  removal[d].pc = "row" \/ RemoveFile(d)
  <2>1. CASE e # d
    BY <1>1, <1>2, <2>1 DEF RemovalStep, RemoveFind, RemoveFile, RemoveFileFails, RemoveRow,
       RemoveRowFails, RemoveAudit, RemovalGoto
  <2>2. ASSUME NEW r \in Uploads, RemoveFind(d, r) PROVE FALSE
    BY <1>1, <2>2 DEF RemoveFind, RemovalState
  <2>3. CASE RemoveFileFails(d) \/ RemoveRow(d) \/ RemoveRowFails(d) \/ RemoveAudit(d)
    BY <1>1, <2>3 DEF RemoveFileFails, RemoveRow, RemoveRowFails, RemoveAudit, RemovalGoto, RemovalState
  <2>4. QED
    BY <1>2, <2>1, <2>2, <2>3 DEF RemovalStep
<1>3. ASSUME NEW e \in Removals, RemovalGoto(e, "failed") PROVE removal[d].pc = "row"
  BY <1>1, <1>3 DEF RemovalGoto, RemovalState
<1>4. QED
  BY <1>2, <1>3, RemovalTouched

(* Once the PDF of a created row is gone, nobody stores it again.          *)
LEMMA GoneStays ==
    ASSUME TypeInv, [Next]_vars, NEW r \in Uploads, upload[r].pc \in PastCreate, FileOf(r) # r
    PROVE  FileOf(r)' # r
<1>1. /\ object \in [Slots -> Uploads \cup {Null}]
      /\ SlotOf(r) \in Slots /\ SlotOf(r)' = SlotOf(r)
  BY UploadMoves DEF TypeInv, TypeOK, StoresOK, UploadLocals, SlotOf, PastCreate
<1>2. ASSUME NEW s, NEW o, object' = [object EXCEPT ![s] = o], o # r
      PROVE  FileOf(r)' # r
  BY <1>1, <1>2, KeyIsSlot DEF FileOf
<1>3. ASSUME NEW u \in Uploads, Writes(u) PROVE u # r
  BY <1>3 DEF Writes, PastCreate
<1>4. r # Null
  BY NullAssumption
<1>5. CASE UNCHANGED object
  BY <1>1, <1>5 DEF FileOf
<1>6. QED
  BY <1>2, <1>3, <1>4, <1>5, ObjectStep DEF Writes, Undoes, Deletes

LEMMA WithdrawStep == ASSUME TypeInv, [Next]_vars, WithdrawInv PROVE WithdrawInv'
<1>1. ASSUME NEW r \in Uploads, r \notin rows', Distributed(r)'
      PROVE  FileOf(r)' # r
  <2>1. Distributed(r)
    BY <1>1, DistributedEntry
  <2>2. upload[r].pc \in PastCreate
    BY <2>1 DEF Distributed, PastCreate
  <2>3. CASE r \notin rows
    BY <2>1, <2>2, <2>3, GoneStays DEF WithdrawInv, WithdrawnFileGone, Distributed
  <2>4. CASE r \in rows
    <3>1. PICK d \in Removals : RemoveRow(d)
      BY <1>1, <2>4, RowsStep DEF Creates, ReadUpdate, SignCommit
    <3>2. removal[d].row = r /\ removal[d].pc = "row"
      BY <1>1, <2>4, <3>1 DEF RemoveRow
    <3>3. QED
      BY <2>2, <3>2, GoneStays DEF WithdrawInv
  <2>5. QED
    BY <2>3, <2>4
<1>2. ASSUME NEW d \in Removals, removal'[d].pc = "row"
      PROVE  FileOf(removal[d].row)' # removal'[d].row
  <2>1. removal[d].pc \in {"row", "file"}
    BY <1>2, DeletedEntry DEF RemoveFile
  <2>2. /\ removal[d].row \in Uploads /\ removal[d].row # Null
        /\ upload[removal[d].row].pc \in PastCreate
    BY <2>1 DEF TypeInv, TypeOK, RequestsOK, RemovalState, RemovalLocals, Targeted, OtherBusy
  <2>3. removal'[d].row = removal[d].row
    BY <2>2, RemovalMoves
  <2>4. CASE removal[d].pc = "row"
    BY <2>2, <2>3, <2>4, GoneStays DEF WithdrawInv
  <2>5. CASE RemoveFile(d)
    <3>1. /\ object \in [Slots -> Uploads \cup {Null}]
          /\ SlotOf(removal[d].row) \in Slots
          /\ UNCHANGED upload
      BY <2>2, <2>5 DEF RemoveFile, OnlyRemoval, TypeInv, TypeOK, StoresOK, UploadLocals, SlotOf,
         PastCreate
    <3>2. FileOf(removal[d].row)' = Null
      BY <2>3, <2>5, <3>1, KeyIsSlot DEF RemoveFile, FileOf, SlotOf
    <3>3. QED
      BY <2>2, <2>3, <3>2
  <2>6. QED
    BY <1>2, <2>4, <2>5, DeletedEntry
<1>3. \A d \in Removals : removal'[d].pc = "row" => FileOf(removal[d].row)' # removal'[d].row
  BY <1>2
<1>4. QED
  BY <1>1, <1>3 DEF WithdrawInv, WithdrawnFileGone, Distributed

(* When a distributed payslip has been withdrawn its PDF is not in the     *)
(* bucket any more, whatever failed on the way.                            *)
THEOREM WithdrawnIsGone == Spec => []WithdrawnFileGone
<1>1. Init => WithdrawInv
  BY DEF Init, WithdrawInv, WithdrawnFileGone
<1>2. TypeInv /\ WithdrawInv /\ [Next]_vars => WithdrawInv'
  BY WithdrawStep
<1>3. WithdrawInv => WithdrawnFileGone
  BY DEF WithdrawInv
<1>4. QED
  BY <1>1, <1>2, <1>3, TypeInvInit, TypeInvStep, PTL DEF Spec
=============================================================================
