----------------------- MODULE PayslipVaultRefinement -----------------------
(***************************************************************************)
(* What PayslipVault says of acknowledgements, and the proof that it       *)
(* implements PayslipLedger.  As in PayslipVaultSafety, the proofs go by   *)
(* what a step may do to the stores and to the requests.                   *)
(***************************************************************************)
EXTENDS PayslipVaultSafety

(* Steps of the other handlers leave the signings alone.                   *)
LEMMA SigningTouched ==
    ASSUME [Next]_vars
    PROVE  \/ UNCHANGED signing
           \/ \E g \in Signings : (\E r \in Uploads : SignFind(g, r)) \/ SigningStep(g)
           \/ \E g \in Signings : signing[g].pc \in OtherBusy /\ SigningGoto(g, "failed")
<1>1. ASSUME NEW u \in Uploads, (\E s \in Slots : UploadReadTarget(u, s)) \/ UploadStep(u)
      PROVE  UNCHANGED signing
  BY <1>1 DEF UploadStep, UploadReadTarget, UploadFindExisting, UploadPut, UploadPutFails,
     UploadCreate, UploadCreateConflict, UploadCreateFails, UploadRollback, UploadAudit,
     UploadAuditFails, OnlyUpload
<1>2. ASSUME NEW d \in Removals, (\E r \in Uploads : RemoveFind(d, r)) \/ RemovalStep(d)
      PROVE  UNCHANGED signing
  BY <1>2 DEF RemovalStep, RemoveFind, RemoveFile, RemoveFileFails, RemoveRow, RemoveRowFails,
     RemoveAudit, OnlyRemoval
<1>3. ASSUME NEW m \in Readings,
             \/ \E r \in Uploads, actor \in {"EMPLOYEE", "RH_ADMIN"} : ReadFind(m, r, actor)
             \/ ReadingStep(m)
      PROVE  UNCHANGED signing
  BY <1>3 DEF ReadingStep, ReadFind, ReadUpdate, ReadUpdateFails, ReadAudit, OnlyReading
<1>4. QED
  BY <1>1, <1>2, <1>3 DEF Next, Crash, vars, requests

(* A signing gets its hash from the file it fetches, and keeps it with the *)
(* row it is for.                                                          *)
LEMMA HashEntry ==
    ASSUME TypeInv, [Next]_vars, NEW g \in Signings, signing'[g].hash # Null
    PROVE  \/ SignFetch(g)
           \/ signing'[g].hash = signing[g].hash /\ signing'[g].row = signing[g].row
<1>1. signing[g] \in SigningState /\ signing \in [Signings -> SigningState]
  BY DEF TypeInv, TypeOK, RequestsOK
<1>2. ASSUME NEW h \in Signings, (\E r \in Uploads : SignFind(h, r)) \/ SigningStep(h), ~SignFetch(g)
      PROVE  signing'[g].hash = signing[g].hash /\ signing'[g].row = signing[g].row
  <2>1. CASE h # g
    BY <1>1, <1>2, <2>1 DEF SigningStep, SignFind, SignFetch, SignFetchFails, SignCommit, SignAbort,
       SigningGoto
  <2>2. ASSUME NEW r \in Uploads, SignFind(g, r)
        PROVE  signing'[g].hash = signing[g].hash /\ signing'[g].row = signing[g].row
    BY <1>1, <2>2 DEF SignFind, SigningState
  <2>3. CASE SignFetchFails(g) \/ SignCommit(g) \/ SignAbort(g)
    BY <1>1, <2>3 DEF SignFetchFails, SignCommit, SignAbort, SigningGoto, SigningState
  <2>4. QED
    BY <1>2, <2>1, <2>2, <2>3 DEF SigningStep
<1>3. ASSUME NEW h \in Signings, SigningGoto(h, "failed")
      PROVE  signing'[g].hash = signing[g].hash /\ signing'[g].row = signing[g].row
  BY <1>1, <1>3 DEF SigningGoto, SigningState
<1>4. QED
  BY <1>2, <1>3, SigningTouched

-----------------------------------------------------------------------------
(* Behind SignatureOfSlot: wherever a PDF is found, in the bucket, hashed  *)
(* by a signing under way or in a signature, it was uploaded for the slot  *)
(* it is found for, and that upload's slot is settled.                     *)
UploadedFor(o, s) == upload[o].pc # "idle" /\ SlotOf(o) = s
PlaceInv ==
    /\ \A s \in Slots : object[s] # Null => UploadedFor(object[s], s)
    /\ \A g \in Signings :
          signing[g].hash # Null =>
             /\ signing[g].row # Null
             /\ UploadedFor(signing[g].hash, SlotOf(signing[g].row))
    /\ \A r \in Uploads :
          signature[r] # Null => upload[r].pc # "idle" /\ UploadedFor(signature[r], SlotOf(r))

LEMMA UploadedForStays ==
    ASSUME TypeInv, [Next]_vars, NEW o \in Uploads, NEW s, UploadedFor(o, s)
    PROVE  UploadedFor(o, s)'
BY UploadMoves DEF UploadedFor

LEMMA PlaceStep == ASSUME TypeInv, [Next]_vars, PlaceInv PROVE PlaceInv'
<1>1. /\ object \in [Slots -> Uploads \cup {Null}]
      /\ signature \in [Uploads -> Uploads \cup {Null}]
      /\ signing \in [Signings -> SigningState]
      /\ \A u \in Uploads : upload[u].pc # "idle" => SlotOf(u) \in Slots
  BY DEF TypeInv, TypeOK, StoresOK, RequestsOK, UploadLocals, SlotOf
<1>2. ASSUME NEW s \in Slots, object'[s] # Null PROVE UploadedFor(object[s], s)'
  <2>1. CASE object'[s] = object[s]
    BY <1>1, <1>2, <2>1, UploadedForStays DEF PlaceInv, UploadedFor
  <2>2. CASE object'[s] # object[s]
    <3>1. PICK u \in Uploads : Writes(u)
      BY <1>1, <1>2, <2>2, ObjectStep DEF Undoes, Deletes
    <3>2. UploadedFor(u, SlotOf(u)) /\ SlotOf(u) \in Slots
      BY <1>1, <3>1 DEF Writes, UploadedFor
    <3>3. s = SlotOf(u) /\ object'[s] = u
      BY <1>1, <2>2, <3>1, <3>2, KeyIsSlot DEF Writes
    <3>4. UploadedFor(u, s)'
      BY <3>2, <3>3, UploadedForStays
    <3>5. QED
      BY <3>3, <3>4 DEF UploadedFor
  <2>3. QED
    BY <2>1, <2>2
<1>3. ASSUME NEW g \in Signings, signing'[g].hash # Null
      PROVE  signing'[g].row # Null /\ UploadedFor(signing[g].hash, SlotOf(signing[g].row))'
  <2>1. /\ signing'[g].row = signing[g].row /\ signing[g].row # Null
        /\ UploadedFor(signing'[g].hash, SlotOf(signing[g].row))
        /\ signing'[g].hash \in Uploads
    <3>1. CASE SignFetch(g)
      <4>1. /\ signing[g].row # Null /\ signing[g].row \in Uploads
            /\ upload[signing[g].row].pc # "idle"
        BY <1>1, <3>1 DEF SignFetch, TypeInv, SigningLocals, Targeted, PastCreate, OtherBusy, SigningState
      <4> DEFINE s == SlotOf(signing[g].row)
      <4>2. s \in Slots /\ FileOf(signing[g].row) = object[s] /\ object[s] # Null
        BY <1>1, <3>1, <4>1, KeyIsSlot DEF SignFetch, FileOf
      <4>3. signing'[g].hash = object[s] /\ signing'[g].row = signing[g].row
        BY <1>1, <3>1, <4>2 DEF SignFetch, SigningState
      <4>4. QED
        BY <1>1, <4>1, <4>2, <4>3 DEF PlaceInv
    <3>2. CASE signing'[g].hash = signing[g].hash /\ signing'[g].row = signing[g].row
      BY <1>1, <1>3, <3>2 DEF PlaceInv, SigningState
    <3>3. QED
      BY <1>3, <3>1, <3>2, HashEntry
  <2>2. signing[g].row \in Uploads /\ upload[signing[g].row].pc # "idle"
    BY <1>1, <2>1 DEF TypeInv, SigningLocals, Targeted, PastCreate, SigningState
  <2>3. SlotOf(signing[g].row)' = SlotOf(signing[g].row)
    BY <2>1, <2>2, UploadMoves DEF SlotOf
  <2>4. PICK h, s : h \in Uploads /\ h = signing'[g].hash /\ s = SlotOf(signing[g].row)
    BY <2>1
  <2>5. UploadedFor(h, s)'
    BY <2>1, <2>4, UploadedForStays
  <2>6. QED
    BY <2>1, <2>3, <2>4, <2>5 DEF UploadedFor
<1>4. ASSUME NEW r \in Uploads, signature'[r] # Null
      PROVE  upload'[r].pc # "idle" /\ UploadedFor(signature[r], SlotOf(r))'
  <2>1. /\ upload[r].pc # "idle" /\ signature'[r] \in Uploads
        /\ UploadedFor(signature'[r], SlotOf(r))
    <3>1. CASE signature'[r] = signature[r]
      BY <1>1, <1>4, <3>1 DEF PlaceInv
    <3>2. CASE signature'[r] # signature[r]
      <4>1. PICK g \in Signings : SignCommit(g)
        BY <1>1, <1>4, <3>2, RowsStep DEF flags, Creates, RemoveRow, ReadUpdate
      <4>2. r = signing[g].row /\ signature'[r] = signing[g].hash /\ r \in rows
        BY <1>1, <3>2, <4>1 DEF SignCommit
      <4>3. upload[r].pc # "idle"
        BY <4>2 DEF TypeInv, UploadLocals, PastCreate
      <4>4. signing[g].hash \in Uploads
        BY <1>1, <1>4, <4>2 DEF SigningState
      <4>5. QED
        BY <1>4, <4>2, <4>3, <4>4 DEF PlaceInv
    <3>3. QED
      BY <3>1, <3>2
  <2>2. SlotOf(r)' = SlotOf(r) /\ upload'[r].pc # "idle"
    BY <2>1, UploadMoves
  <2>3. PICK h, s : h \in Uploads /\ h = signature'[r] /\ s = SlotOf(r)
    BY <2>1
  <2>4. UploadedFor(h, s)'
    BY <2>1, <2>3, UploadedForStays
  <2>5. QED
    BY <2>2, <2>3, <2>4 DEF UploadedFor
<1>5. \A g \in Signings :
         signing'[g].hash # Null =>
            signing'[g].row # Null /\ UploadedFor(signing[g].hash, SlotOf(signing[g].row))'
  BY <1>3
<1>6. \A r \in Uploads :
         signature'[r] # Null => upload'[r].pc # "idle" /\ UploadedFor(signature[r], SlotOf(r))'
  BY <1>4
<1>7. \A s \in Slots : object'[s] # Null => UploadedFor(object[s], s)'
  BY <1>2
<1>8. QED
  BY <1>5, <1>6, <1>7 DEF PlaceInv

(* The document an employee acknowledged was uploaded for that employee    *)
(* and that month, whichever PDF the shared key held when it was hashed.   *)
THEOREM AcknowledgesOwnPayslip == Spec => []SignatureOfSlot
<1>1. Init => PlaceInv
  BY DEF Init, PlaceInv
<1>2. TypeInv /\ PlaceInv /\ [Next]_vars => PlaceInv'
  BY PlaceStep
<1>3. PlaceInv /\ ReceiptConsistent => SignatureOfSlot
  BY DEF PlaceInv, ReceiptConsistent, SignatureOfSlot, UploadedFor
<1>4. QED
  BY <1>1, <1>2, <1>3, TypeInvInit, TypeInvStep, ReceiptsAgree, PTL DEF Spec

-----------------------------------------------------------------------------
(* Only SignCommit writes a SIGNED entry.                                  *)
Acknowledgements == {e \in audit : e.action = "SIGNED"}

LEMMA AcknowledgementStep ==
    ASSUME [Next]_vars
    PROVE  \/ UNCHANGED Acknowledgements
           \/ \E g \in Signings : SignCommit(g)
<1> USE DEF Acknowledgements, stores
<1>1. CASE UNCHANGED vars \/ Crash
  BY <1>1 DEF vars, Crash
<1>2. ASSUME NEW u \in Uploads, (\E s \in Slots : UploadReadTarget(u, s)) \/ UploadStep(u)
      PROVE  UNCHANGED Acknowledgements
  <2>1. CASE UploadAudit(u)
    BY <2>1 DEF UploadAudit, Entry
  <2>2. UploadAudit(u) \/ UNCHANGED audit
    BY <1>2 DEF UploadStep, UploadReadTarget, UploadFindExisting, UploadPut, UploadPutFails,
       UploadCreate, UploadCreateConflict, UploadCreateFails, UploadRollback, UploadAuditFails
  <2>3. QED
    BY <2>1, <2>2
<1>3. ASSUME NEW d \in Removals, (\E r \in Uploads : RemoveFind(d, r)) \/ RemovalStep(d)
      PROVE  UNCHANGED Acknowledgements
  <2>1. CASE RemoveAudit(d)
    BY <2>1 DEF RemoveAudit, Entry
  <2>2. RemoveAudit(d) \/ UNCHANGED audit
    BY <1>3 DEF RemovalStep, RemoveFind, RemoveFile, RemoveFileFails, RemoveRow, RemoveRowFails
  <2>3. QED
    BY <2>1, <2>2
<1>4. ASSUME NEW m \in Readings,
             \/ \E r \in Uploads, actor \in {"EMPLOYEE", "RH_ADMIN"} : ReadFind(m, r, actor)
             \/ ReadingStep(m)
      PROVE  UNCHANGED Acknowledgements
  <2>1. CASE ReadAudit(m)
    BY <2>1 DEF ReadAudit, Entry
  <2>2. ReadAudit(m) \/ UNCHANGED audit
    BY <1>4 DEF ReadingStep, ReadFind, ReadUpdate, ReadUpdateFails
  <2>3. QED
    BY <2>1, <2>2
<1>5. ASSUME NEW g \in Signings, (\E r \in Uploads : SignFind(g, r)) \/ SigningStep(g)
      PROVE  UNCHANGED Acknowledgements \/ SignCommit(g)
  BY <1>5 DEF SigningStep, SignFind, SignFetch, SignFetchFails, SignAbort
<1>6. QED
  BY <1>1, <1>2, <1>3, <1>4, <1>5 DEF Next

(* SignedAuditExact is not inductive: a second entry could come once the   *)
(* signature is gone.  It does not, because the signature goes only with   *)
(* its row, and a row that is gone is never created again.                 *)
AuditInv ==
    /\ \A e, f \in Acknowledgements : e.row = f.row => e = f
    /\ \A e \in Acknowledgements :
          /\ upload[e.row].pc \in PastCreate
          /\ e.row \in rows => signature[e.row] # Null
    /\ \A r \in Uploads : signature[r] # Null => \E e \in Acknowledgements : e.row = r

LEMMA AuditStep == ASSUME TypeInv, [Next]_vars, ReceiptConsistent, AuditInv PROVE AuditInv'
<1>1. /\ signature \in [Uploads -> Uploads \cup {Null}]
      /\ \A e \in Acknowledgements : e.row \in Uploads
      /\ \A u \in rows : u \in Uploads /\ upload[u].pc \in PastCreate
  BY DEF TypeInv, TypeOK, StoresOK, AuditEntry, Acknowledgements, UploadLocals
<1>2. \A u \in Uploads : upload[u].pc \in PastCreate => upload'[u].pc \in PastCreate
  BY UploadMoves DEF PastCreate
<1>3. ASSUME NEW g \in Signings, SignCommit(g) PROVE AuditInv'
  <2> DEFINE r == signing[g].row
             new == Entry("SIGNED", signing[g].row, g)
  <2>1. PICK k, entry : k = r /\ entry = new
    OBVIOUS
  <2>2. k \in rows /\ k \in Uploads /\ signature[k] = Null /\ UNCHANGED rows
    BY <1>1, <1>3, <2>1 DEF SignCommit
  <2>3. /\ Acknowledgements' = Acknowledgements \cup {entry}
        /\ entry.row = k
    BY <1>3, <2>1 DEF SignCommit, Acknowledgements, Entry
  <2>4. /\ \A q \in Uploads \ {k} : signature'[q] = signature[q]
        /\ signature'[k] # Null
    BY <1>1, <1>3, <2>1 DEF SignCommit, TypeInv, SigningLocals
  <2>5. \A e \in Acknowledgements : e.row # k
    BY <2>2 DEF AuditInv
  <2>6. QED
    BY <1>1, <1>2, <2>2, <2>3, <2>4, <2>5 DEF AuditInv
<1>4. CASE UNCHANGED Acknowledgements
  <2>1. \A r \in Uploads : signature'[r] # Null => signature[r] # Null \/ \E g \in Signings : SignCommit(g)
    BY <1>1, RowsStep DEF flags, Creates, RemoveRow, ReadUpdate
  <2>2. ASSUME NEW e \in Acknowledgements, e.row \in rows'
        PROVE  signature'[e.row] # Null \/ \E g \in Signings : SignCommit(g)
    <3>1. e.row \in Uploads /\ upload[e.row].pc \in PastCreate
      BY <1>1 DEF AuditInv
    <3>2. e.row \in rows => signature[e.row] # Null
      BY DEF AuditInv
    <3>3. ASSUME NEW u \in Uploads, Creates(u) PROVE signature'[e.row] # Null
      BY <2>2, <3>1, <3>2, <3>3 DEF Creates, flags, PastCreate
    <3>4. ASSUME NEW d \in Removals, RemoveRow(d) PROVE signature'[e.row] # Null
      BY <1>1, <2>2, <3>1, <3>2, <3>4 DEF RemoveRow
    <3>5. CASE \E m \in Readings : ReadUpdate(m)
      BY <2>2, <3>2, <3>5 DEF ReadUpdate
    <3>6. CASE UNCHANGED <<rows, flags>>
      BY <2>2, <3>2, <3>6 DEF flags
    <3>7. QED
      BY <3>3, <3>4, <3>5, <3>6, RowsStep
  <2>3. CASE \E g \in Signings : SignCommit(g)
    BY <1>3, <2>3
  <2>4. CASE ~\E g \in Signings : SignCommit(g)
    <3>1. \A e \in Acknowledgements : e.row \in rows' => signature'[e.row] # Null
      BY <2>2, <2>4
    <3>2. \A e \in Acknowledgements : upload'[e.row].pc \in PastCreate
      BY <1>1, <1>2 DEF AuditInv
    <3>3. QED
      BY <1>4, <2>1, <2>4, <3>1, <3>2 DEF AuditInv
  <2>5. QED
    BY <2>3, <2>4
<1>5. QED
  BY <1>3, <1>4, AcknowledgementStep

LEMMA AuditAlways == Spec => []AuditInv
<1>1. Init => AuditInv
  BY DEF Init, AuditInv, Acknowledgements
<1>2. TypeInv /\ ReceiptConsistent /\ AuditInv /\ [Next]_vars => AuditInv'
  BY AuditStep
<1>3. QED
  BY <1>1, <1>2, TypeInvInit, TypeInvStep, ReceiptsAgree, PTL DEF Spec

(* A payslip has exactly one SIGNED entry in the audit log from the moment *)
(* it is acknowledged, also after its withdrawal, whatever signings race.  *)
THEOREM OneAcknowledgement == Spec => []SignedAuditExact
<1>1. AuditInv /\ ReceiptConsistent => SignedAuditExact
  BY DEF AuditInv, ReceiptConsistent, SignedAuditExact, Acknowledgements, Entries
<1>2. QED
  BY <1>1, AuditAlways, ReceiptsAgree, PTL

-----------------------------------------------------------------------------
(* The refinement.  View(s) is the ledger's entry for one slot.            *)
View(s) ==
    IF RowFor(s) = {} THEN [doc |-> Null, status |-> "absent"]
    ELSE LET r == CHOOSE x \in RowFor(s) : TRUE IN [doc |-> r, status |-> StatusOf(r)]
Recorded(r) == [doc |-> r, status |-> StatusOf(r)]

LEMMA LedgerIsViews ==
    /\ LedgerView  = [s \in Slots |-> View(s)]
    /\ LedgerView' = [s \in Slots |-> View(s)']
BY DEF LedgerView, View

(* The unique index makes the ledger's entry the one row of the slot.      *)
LEMMA ViewOfRow ==
    ASSUME OneRowPerSlot, NEW r \in rows
    PROVE  View(SlotOf(r)) = Recorded(r)
<1>1. \A x \in RowFor(SlotOf(r)) : x = r
  BY DEF RowFor, OneRowPerSlot
<1>2. r \in RowFor(SlotOf(r))
  BY DEF RowFor
<1>3. (CHOOSE x \in RowFor(SlotOf(r)) : TRUE) = r
  BY <1>1, <1>2
<1>4. QED
  BY <1>2, <1>3 DEF View, Recorded

LEMMA ViewOfNone ==
    ASSUME NEW s, \A r \in rows : SlotOf(r) # s
    PROVE  View(s) = Ledger!Absent
BY DEF RowFor, View, Ledger!Absent

(* A step that keeps the row of a slot and its status, or leaves the slot  *)
(* without a row, keeps the entry.                                         *)
LEMMA ViewKept ==
    ASSUME OneRowPerSlot, OneRowPerSlot', NEW s,
           \A r \in rows :
              SlotOf(r) = s => r \in rows' /\ SlotOf(r)' = s /\ StatusOf(r)' = StatusOf(r),
           \A r \in rows' : SlotOf(r)' = s => r \in rows /\ SlotOf(r) = s
    PROVE  View(s)' = View(s)
<1>1. CASE \A r \in rows : SlotOf(r) # s
  <2>1. View(s) = Ledger!Absent
    BY <1>1, ViewOfNone
  <2>2. \A r \in rows' : SlotOf(r)' # s
    BY <1>1
  <2>3. View(s)' = Ledger!Absent
    BY <2>2 DEF RowFor, View, Ledger!Absent
  <2>4. QED
    BY <2>1, <2>3
<1>2. ASSUME NEW r \in rows, SlotOf(r) = s
      PROVE  View(s)' = View(s)
  <2>1. View(s) = Recorded(r)
    BY <1>2, ViewOfRow
  <2>2. r \in rows' /\ SlotOf(r)' = s /\ StatusOf(r)' = StatusOf(r)
    BY <1>2
  <2>3. \A x \in RowFor(s)' : x = r
    BY <2>2 DEF RowFor, OneRowPerSlot
  <2>4. r \in RowFor(s)'
    BY <2>2 DEF RowFor
  <2>5. (CHOOSE x \in RowFor(s)' : TRUE) = r
    BY <2>3, <2>4
  <2>6. View(s)' = Recorded(r)'
    BY <2>4, <2>5 DEF View, Recorded
  <2>7. QED
    BY <2>1, <2>2, <2>6 DEF Recorded
<1>3. QED
  BY <1>1, <1>2

(* One slot changes.                                                       *)
LEMMA LedgerMoves ==
    ASSUME NEW s \in Slots, \A t \in Slots \ {s} : View(t)' = View(t)
    PROVE  LedgerView' = [LedgerView EXCEPT ![s] = View(s)']
BY LedgerIsViews

(* The slot of a row is settled.                                           *)
LEMMA RowSlots ==
    ASSUME TypeInv, [Next]_vars, NEW r \in rows
    PROVE  r \in Uploads /\ SlotOf(r) \in Slots /\ SlotOf(r)' = SlotOf(r)
BY UploadMoves DEF TypeInv, TypeOK, StoresOK, UploadLocals, PastCreate, SlotOf

LEMMA ReceiptsAreEntries ==
    /\ TypeInv  => ReceiptsView  = {e.row : e \in Acknowledgements}
    /\ TypeInv' => ReceiptsView' = {e.row : e \in Acknowledgements'}
BY DEF ReceiptsView, Entries, Acknowledgements, TypeInv, TypeOK, StoresOK, AuditEntry

(* What the proofs of the five kinds of steps assume of the state.         *)
LedgerInv == TypeInv /\ OneRowPerSlot /\ ReceiptConsistent /\ AuditInv

LEMMA CreatesPublishes ==
    ASSUME LedgerInv, LedgerInv', [Next]_vars, NEW u \in Uploads, Creates(u),
           UNCHANGED Acknowledgements
    PROVE  Ledger!Publish(SlotOf(u), u)
<1> USE DEF LedgerInv
<1> DEFINE slot == SlotOf(u)
<1>1. PICK s : s = slot
  OBVIOUS
<1>2. s \in Slots /\ SlotOf(u)' = s /\ upload[u].pc = "create" /\ u # Null
  BY <1>1, UploadMoves, NullAssumption DEF Creates, TypeInv, UploadLocals, SlotOf
<1>3. u \notin rows /\ rows' = rows \cup {u} /\ UNCHANGED flags
  BY <1>2 DEF Creates, TypeInv, UploadLocals, PastCreate
<1>4. View(s) = Ledger!Absent
  BY <1>1, ViewOfNone DEF Creates, RowFor
<1>5. View(s)' = [doc |-> u, status |-> "unread"]
  <2>1. u \notin isSigned' /\ u \notin isRead'
    BY <1>3 DEF ReceiptConsistent, flags
  <2>2. \A x \in RowFor(s)' : x = u
    BY <1>2, <1>3 DEF RowFor, OneRowPerSlot
  <2>3. u \in RowFor(s)'
    BY <1>2, <1>3 DEF RowFor
  <2>4. (CHOOSE x \in RowFor(s)' : TRUE) = u
    BY <2>2, <2>3
  <2>5. QED
    BY <2>1, <2>3, <2>4 DEF View, StatusOf
<1>6. ASSUME NEW t \in Slots \ {s} PROVE View(t)' = View(t)
  BY <1>2, <1>3, RowSlots, ViewKept DEF StatusOf, flags
<1>7. LedgerView' = [LedgerView EXCEPT ![s] = [doc |-> u, status |-> "unread"]]
  BY <1>2, <1>5, <1>6, LedgerMoves
<1>8. u \notin ReceiptsView /\ UNCHANGED ReceiptsView
  BY <1>2, ReceiptsAreEntries DEF AuditInv, PastCreate
<1>9. ASSUME NEW t \in Slots PROVE LedgerView[t].doc # u
  <2>1. CASE \A r \in rows : SlotOf(r) # t
    BY <1>2, <2>1, ViewOfNone, LedgerIsViews DEF Ledger!Absent
  <2>2. ASSUME NEW r \in rows, SlotOf(r) = t PROVE LedgerView[t].doc # u
    BY <1>3, <2>2, ViewOfRow, LedgerIsViews DEF Recorded
  <2>3. QED
    BY <2>1, <2>2
<1>10. LedgerView[s] = Ledger!Absent
  BY <1>2, <1>4, LedgerIsViews
<1>11. QED
  BY <1>1, <1>7, <1>8, <1>9, <1>10 DEF Ledger!Publish, Ledger!Entry

(* A step that changes the status of one row only.                         *)
LEMMA StatusMoves ==
    ASSUME LedgerInv, LedgerInv', [Next]_vars, UNCHANGED rows, NEW r \in rows, NEW s, s = SlotOf(r),
           \A x \in rows \ {r} : StatusOf(x)' = StatusOf(x)
    PROVE  /\ s \in Slots
           /\ LedgerView[s] = [doc |-> r, status |-> StatusOf(r)]
           /\ LedgerView' = [LedgerView EXCEPT ![s].status = StatusOf(r)']
<1> USE DEF LedgerInv
<1>1. s \in Slots /\ SlotOf(r)' = s
  BY RowSlots
<1>2. View(s) = Recorded(r)
  BY ViewOfRow
<1>3. View(s)' = Recorded(r)'
  <2>1. \A x \in RowFor(s)' : x = r
    BY <1>1 DEF RowFor, OneRowPerSlot
  <2>2. r \in RowFor(s)'
    BY <1>1 DEF RowFor
  <2>3. (CHOOSE x \in RowFor(s)' : TRUE) = r
    BY <2>1, <2>2
  <2>4. QED
    BY <2>2, <2>3 DEF View, Recorded
<1>4. ASSUME NEW t \in Slots \ {s} PROVE View(t)' = View(t)
  BY <1>1, RowSlots, ViewKept
<1>5. LedgerView[s] = [doc |-> r, status |-> StatusOf(r)]
  BY <1>1, <1>2, LedgerIsViews DEF Recorded
<1>6. [LedgerView[s] EXCEPT !.status = StatusOf(r)'] = View(s)'
  BY <1>3, <1>5 DEF Recorded
<1>7. LedgerView' = [LedgerView EXCEPT ![s] = View(s)']
  BY <1>1, <1>4, LedgerMoves
<1>8. QED
  BY <1>1, <1>5, <1>6, <1>7

LEMMA UpdateReads ==
    ASSUME LedgerInv, LedgerInv', [Next]_vars, NEW m \in Readings, ReadUpdate(m),
           UNCHANGED Acknowledgements
    PROVE  (\E s \in Slots : Ledger!Read(s)) \/ UNCHANGED <<LedgerView, ReceiptsView>>
<1> USE DEF LedgerInv
<1>1. PICK r \in rows : /\ isRead' = isRead \cup {r}
                        /\ UNCHANGED <<rows, isSigned>>
  BY DEF ReadUpdate
<1>2. UNCHANGED ReceiptsView
  BY ReceiptsAreEntries
<1>3. PICK s : s = SlotOf(r)
  OBVIOUS
<1>4. \A x \in rows \ {r} : StatusOf(x)' = StatusOf(x)
  BY <1>1 DEF StatusOf
<1>5. /\ s \in Slots
      /\ LedgerView[s] = [doc |-> r, status |-> StatusOf(r)]
      /\ LedgerView' = [LedgerView EXCEPT ![s].status = StatusOf(r)']
  BY <1>1, <1>3, <1>4, StatusMoves
<1>6. CASE r \in isRead
  <2>1. StatusOf(r)' = StatusOf(r)
    BY <1>1, <1>6 DEF StatusOf
  <2>2. LedgerView' = LedgerView
    BY <1>5, <2>1, LedgerIsViews
  <2>3. QED
    BY <1>2, <2>2
<1>7. CASE r \notin isRead
  <2>1. StatusOf(r) = "unread" /\ StatusOf(r)' = "read"
    BY <1>1, <1>7 DEF StatusOf, ReceiptConsistent
  <2>2. Ledger!Read(s)
    BY <1>2, <1>5, <2>1 DEF Ledger!Read
  <2>3. QED
    BY <1>5, <2>2
<1>8. QED
  BY <1>6, <1>7

LEMMA CommitAcknowledges ==
    ASSUME LedgerInv, LedgerInv', [Next]_vars, NEW g \in Signings, SignCommit(g)
    PROVE  \E s \in Slots : Ledger!Acknowledge(s)
<1> USE DEF LedgerInv
<1>1. PICK r \in rows : /\ r = signing[g].row
                        /\ signature[r] = Null
                        /\ isRead' = isRead \cup {r} /\ isSigned' = isSigned \cup {r}
                        /\ audit' = audit \cup {Entry("SIGNED", r, g)}
                        /\ UNCHANGED rows
  BY DEF SignCommit
<1>2. PICK s : s = SlotOf(r)
  OBVIOUS
<1>3. \A x \in rows \ {r} : StatusOf(x)' = StatusOf(x)
  BY <1>1 DEF StatusOf
<1>4. /\ s \in Slots
      /\ LedgerView[s] = [doc |-> r, status |-> StatusOf(r)]
      /\ LedgerView' = [LedgerView EXCEPT ![s].status = StatusOf(r)']
  BY <1>1, <1>2, <1>3, StatusMoves
<1>5. StatusOf(r) \in {"unread", "read"} /\ StatusOf(r)' = "signed"
  BY <1>1, RowSlots DEF StatusOf, ReceiptConsistent
<1>6. r \notin ReceiptsView
  BY <1>1, ReceiptsAreEntries DEF AuditInv
<1>7. ReceiptsView' = ReceiptsView \cup {r}
  <2>1. Acknowledgements' = Acknowledgements \cup {Entry("SIGNED", r, g)}
    BY <1>1 DEF Acknowledgements, Entry
  <2>2. Entry("SIGNED", r, g).row = r
    BY DEF Entry
  <2>3. QED
    BY <2>1, <2>2, ReceiptsAreEntries
<1>8. Ledger!Acknowledge(s)
  BY <1>4, <1>5, <1>6, <1>7 DEF Ledger!Acknowledge
<1>9. QED
  BY <1>4, <1>8

LEMMA RemovalWithdraws ==
    ASSUME LedgerInv, LedgerInv', [Next]_vars, NEW d \in Removals, RemoveRow(d),
           UNCHANGED Acknowledgements
    PROVE  \E s \in Slots : Ledger!Withdraw(s)
<1> USE DEF LedgerInv
<1>1. PICK r \in rows : /\ rows' = rows \ {r}
                        /\ isRead' = isRead \ {r} /\ isSigned' = isSigned \ {r}
  BY DEF RemoveRow
<1>2. PICK s : s = SlotOf(r)
  OBVIOUS
<1>3. s \in Slots /\ r # Null
  BY <1>2, RowSlots, NullAssumption
<1>4. View(s) = Recorded(r)
  BY <1>2, ViewOfRow
<1>5. View(s)' = Ledger!Absent
  <2>1. \A x \in rows' : SlotOf(x)' # s
    BY <1>1, <1>2, RowSlots DEF OneRowPerSlot
  <2>2. QED
    BY <2>1 DEF RowFor, View, Ledger!Absent
<1>6. ASSUME NEW t \in Slots \ {s} PROVE View(t)' = View(t)
  <2>1. \A x \in rows : SlotOf(x) = t => x \in rows' /\ SlotOf(x)' = t /\ StatusOf(x)' = StatusOf(x)
    BY <1>1, <1>2, RowSlots DEF StatusOf
  <2>2. \A x \in rows' : SlotOf(x)' = t => x \in rows /\ SlotOf(x) = t
    BY <1>1, RowSlots
  <2>3. QED
    BY <2>1, <2>2, ViewKept
<1>7. LedgerView' = [LedgerView EXCEPT ![s] = Ledger!Absent]
  BY <1>3, <1>5, <1>6, LedgerMoves
<1>8. LedgerView[s] # Ledger!Absent
  BY <1>3, <1>4, LedgerIsViews DEF Recorded, Ledger!Absent
<1>9. UNCHANGED ReceiptsView
  BY ReceiptsAreEntries
<1>10. QED
  BY <1>3, <1>7, <1>8, <1>9 DEF Ledger!Withdraw

LEMMA NothingToReport ==
    ASSUME LedgerInv, LedgerInv', [Next]_vars, UNCHANGED <<rows, flags>>,
           UNCHANGED Acknowledgements
    PROVE  UNCHANGED <<LedgerView, ReceiptsView>>
<1> USE DEF LedgerInv
<1>1. ASSUME NEW t \in Slots PROVE View(t)' = View(t)
  BY RowSlots, ViewKept DEF StatusOf, flags
<1>2. QED
  BY <1>1, LedgerIsViews, ReceiptsAreEntries

(* Every step of the services is a step of the ledger or leaves it alone.  *)
LEMMA LedgerStep ==
    ASSUME LedgerInv, LedgerInv', [Next]_vars
    PROVE  [Ledger!Next]_(Ledger!vars)
<1>1. CASE \E g \in Signings : SignCommit(g)
  BY <1>1, CommitAcknowledges DEF Ledger!Next
<1>2. CASE ~\E g \in Signings : SignCommit(g)
  <2>1. UNCHANGED Acknowledgements
    BY <1>2, AcknowledgementStep
  <2>2. ASSUME NEW u \in Uploads, Creates(u) PROVE Ledger!Next
    BY <2>1, <2>2, CreatesPublishes, UploadMoves DEF Ledger!Next, LedgerInv, Creates, TypeInv,
       UploadLocals, SlotOf
  <2>3. ASSUME NEW d \in Removals, RemoveRow(d) PROVE Ledger!Next
    BY <2>1, <2>3, RemovalWithdraws DEF Ledger!Next
  <2>4. ASSUME NEW m \in Readings, ReadUpdate(m) PROVE [Ledger!Next]_(Ledger!vars)
    BY <2>1, <2>4, UpdateReads DEF Ledger!Next, Ledger!vars
  <2>5. CASE UNCHANGED <<rows, flags>>
    BY <2>1, <2>5, NothingToReport DEF Ledger!vars
  <2>6. QED
    BY <1>2, <2>2, <2>3, <2>4, <2>5, RowsStep
<1>3. QED
  BY <1>1, <1>2

(* The four handlers, on their stores, with crashes, lost answers and      *)
(* races, do what the ledger says: publish a payslip in a free slot, read  *)
(* it, acknowledge it at most once ever, withdraw it, and nothing else.    *)
THEOREM VaultImplementsLedger == Spec => ImplementsLedger
<1>1. Init => Ledger!Init
  BY DEF Init, Ledger!Init, LedgerView, ReceiptsView, RowFor, Entries, Ledger!Absent
<1>2. LedgerInv /\ LedgerInv' /\ [Next]_vars => [Ledger!Next]_(Ledger!vars)
  BY LedgerStep
<1>3. Spec => []TypeInv
  BY TypeInvInit, TypeInvStep, PTL DEF Spec
<1>4. Spec => []LedgerInv
  BY <1>3, NoDuplicatePayslip, ReceiptsAgree, AuditAlways, PTL DEF LedgerInv
<1>5. QED
  BY <1>1, <1>2, <1>4, PTL DEF Spec, ImplementsLedger, Ledger!Spec
=============================================================================
