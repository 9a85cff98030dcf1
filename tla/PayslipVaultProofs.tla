------------------------- MODULE PayslipVaultProofs -------------------------
(***************************************************************************)
(* Proofs about PayslipVault, for any sets of employees, periods and       *)
(* requests and any bound on the attempts.                                 *)
(***************************************************************************)
EXTENDS PayslipVault, TLAPS

(* Control points an upload can be at once payslip.create was tried: it    *)
(* never writes its PDF again.                                             *)
PastCreate == {"audit", "auditFailed", "done", "undoPersist", "persistFailed", "crashed"}

(* Where a request stands determines what its locals hold.                 *)
UploadLocals ==
    \A u \in Uploads :
        /\ upload[u].pc # "idle" => upload[u].slot \in Slots
        /\ upload[u].pc \in {"idle", "find", "put"} => upload[u].tries < MaxAttempts
        /\ u \in rows => upload[u].pc \in PastCreate
Targeted(q) == q.row # Null => upload[q.row].pc \in PastCreate
RemovalLocals ==
    \A d \in Removals :
        /\ Targeted(removal[d])
        /\ removal[d].pc \in OtherBusy => removal[d].row # Null
        /\ removal[d].pc = "idle" => removal[d].row = Null
ReadingLocals ==
    \A m \in Readings :
        /\ Targeted(reading[m])
        /\ reading[m].pc \in OtherBusy => reading[m].row # Null
SigningLocals ==
    \A g \in Signings :
        /\ Targeted(signing[g])
        /\ signing[g].pc \in OtherBusy => signing[g].row # Null
        /\ signing[g].pc = "commit" => signing[g].hash # Null

TypeInv == TypeOK /\ UploadLocals /\ RemovalLocals /\ ReadingLocals /\ SigningLocals

LEMMA KeyIsSlot == ASSUME NEW s \in Slots PROVE Key(s) = s
BY DEF Key, Slots

LEMMA PutType ==
    ASSUME StoresOK, NEW s, NEW o \in Uploads \cup {Null}
    PROVE  [object EXCEPT ![s] = o] \in [Slots -> Uploads \cup {Null}]
BY DEF StoresOK

(* The PDF found under the key of an accepted request's row is an upload.  *)
LEMMA TargetFile ==
    ASSUME TypeInv, NEW r \in Uploads, upload[r].pc \in PastCreate
    PROVE  FileOf(r) \in Uploads \cup {Null}
<1>1. SlotOf(r) \in Slots
  BY DEF TypeInv, UploadLocals, SlotOf, PastCreate
<1>2. QED
  BY <1>1, KeyIsSlot DEF TypeInv, TypeOK, StoresOK, FileOf

(* What a step of one request has to establish for TypeInv to be kept.     *)
LEMMA UploadFrame ==
    ASSUME TypeInv, NEW u \in Uploads, NEW st \in UploadState,
           upload' = [upload EXCEPT ![u] = st], UNCHANGED <<removal, reading, signing>>,
           st.pc # "idle", st.slot \in Slots,
           st.pc \in {"find", "put"} => st.tries < MaxAttempts,
           upload[u].pc \in PastCreate \/ u \in rows' => st.pc \in PastCreate,
           rows' \subseteq rows \cup {u}, StoresOK'
    PROVE  TypeInv'
<1> USE DEF TypeInv, TypeOK, RequestsOK
<1>1. /\ \A v \in Uploads : upload'[v] = IF v = u THEN st ELSE upload[v]
      /\ upload' \in [Uploads -> UploadState]
  OBVIOUS
<1>2. \A v \in Uploads : upload[v].pc \in PastCreate => upload'[v].pc \in PastCreate
  BY <1>1
<1>3. UploadLocals'
  BY <1>1, <1>2 DEF UploadLocals
<1>4. RemovalLocals' /\ ReadingLocals' /\ SigningLocals'
  BY <1>2 DEF RemovalLocals, ReadingLocals, SigningLocals, Targeted, RemovalState, ReadingState,
     SigningState
<1>5. QED
  BY <1>1, <1>3, <1>4

LEMMA OtherFrame ==
    ASSUME TypeInv, UNCHANGED upload, rows' \subseteq rows
    PROVE  /\ UploadLocals'
           /\ \A q : Targeted(q) => Targeted(q)'
           /\ UNCHANGED removal => RemovalLocals'
           /\ UNCHANGED reading => ReadingLocals'
           /\ UNCHANGED signing => SigningLocals'
BY DEF TypeInv, UploadLocals, RemovalLocals, ReadingLocals, SigningLocals, Targeted

LEMMA RemovalFrame ==
    ASSUME TypeInv, NEW d \in Removals, NEW st \in RemovalState,
           removal' = [removal EXCEPT ![d] = st], UNCHANGED <<upload, reading, signing>>,
           st.row # Null => upload[st.row].pc \in PastCreate,
           st.pc \in OtherBusy => st.row # Null,
           st.pc # "idle",
           rows' \subseteq rows, StoresOK'
    PROVE  TypeInv'
<1> USE DEF TypeInv, TypeOK, RequestsOK
<1>1. /\ \A w \in Removals : removal'[w] = IF w = d THEN st ELSE removal[w]
      /\ removal' \in [Removals -> RemovalState]
  OBVIOUS
<1>2. RemovalLocals'
  BY <1>1 DEF RemovalLocals, Targeted
<1>3. QED
  BY <1>1, <1>2, OtherFrame

LEMMA ReadingFrame ==
    ASSUME TypeInv, NEW m \in Readings, NEW st \in ReadingState,
           reading' = [reading EXCEPT ![m] = st], UNCHANGED <<upload, removal, signing>>,
           st.row # Null => upload[st.row].pc \in PastCreate,
           st.pc \in OtherBusy => st.row # Null,
           rows' \subseteq rows, StoresOK'
    PROVE  TypeInv'
<1> USE DEF TypeInv, TypeOK, RequestsOK
<1>1. /\ \A w \in Readings : reading'[w] = IF w = m THEN st ELSE reading[w]
      /\ reading' \in [Readings -> ReadingState]
  OBVIOUS
<1>2. ReadingLocals'
  BY <1>1 DEF ReadingLocals, Targeted
<1>3. QED
  BY <1>1, <1>2, OtherFrame

LEMMA SigningFrame ==
    ASSUME TypeInv, NEW g \in Signings, NEW st \in SigningState,
           signing' = [signing EXCEPT ![g] = st], UNCHANGED <<upload, removal, reading>>,
           st.row # Null => upload[st.row].pc \in PastCreate,
           st.pc \in OtherBusy => st.row # Null,
           st.pc = "commit" => st.hash # Null,
           rows' \subseteq rows, StoresOK'
    PROVE  TypeInv'
<1> USE DEF TypeInv, TypeOK, RequestsOK
<1>1. /\ \A w \in Signings : signing'[w] = IF w = g THEN st ELSE signing[w]
      /\ signing' \in [Signings -> SigningState]
  OBVIOUS
<1>2. SigningLocals'
  BY <1>1 DEF SigningLocals, Targeted
<1>3. QED
  BY <1>1, <1>2, OtherFrame

(* Type correctness, with what the locals of the requests hold.            *)
LEMMA TypeInvInit == Init => TypeInv
BY NullAssumption, AttemptsAssumption
   DEF Init, TypeInv, TypeOK, StoresOK, RequestsOK, UploadLocals, RemovalLocals, ReadingLocals,
       SigningLocals, Targeted, UploadState, RemovalState, ReadingState, SigningState, UploadBusy,
       UploadEnded, OtherBusy, OtherEnded, PastCreate

(* The steps of uploadSingle.                                               *)
LEMMA TypeInvUpload ==
    ASSUME TypeInv, NEW u \in Uploads,
           \/ \E s \in Slots : UploadReadTarget(u, s)
           \/ UploadStep(u)
    PROVE  TypeInv'
<1> DEFINE st == upload'[u]
<1>1. upload[u] \in UploadState /\ StoresOK /\ upload \in [Uploads -> UploadState] /\ UploadLocals
  BY DEF TypeInv, TypeOK, RequestsOK
<1> USE <1>1, NullAssumption, AttemptsAssumption DEF UploadGoto, OnlyUpload, stores
<1>2. ASSUME NEW s \in Slots, UploadReadTarget(u, s) PROVE TypeInv'
  <2>1. StoresOK'
    BY <1>2, PutType DEF UploadReadTarget, StoresOK
  <2>2. PICK pc \in {"find", "refused"} :
           upload' = [upload EXCEPT ![u] = [@ EXCEPT !.slot = s, !.pc = pc]]
    BY <1>2 DEF UploadReadTarget
  <2> DEFINE new == [upload[u] EXCEPT !.slot = s, !.pc = pc]
  <2>3. /\ upload' = [upload EXCEPT ![u] = new]
        /\ new \in UploadState /\ new.pc = pc /\ new.slot = s
        /\ new.tries = upload[u].tries
    BY <2>2 DEF UploadState, UploadBusy, UploadEnded
  <2>4. upload[u].pc = "idle" /\ upload[u].tries < MaxAttempts /\ u \notin rows
    BY <1>2 DEF UploadReadTarget, UploadLocals, PastCreate
  <2>5. /\ UNCHANGED <<rows, removal, reading, signing>>
        /\ new.pc \notin {"idle", "put"} /\ new.slot \in Slots /\ new.tries < MaxAttempts
        /\ upload[u].pc \notin PastCreate
    BY <1>2, <2>2, <2>3, <2>4 DEF UploadReadTarget, PastCreate
  <2> HIDE DEF new
  <2>6. QED
    BY <2>1, <2>3, <2>4, <2>5, UploadFrame
<1>3. CASE UploadFindExisting(u)
  <2>1. StoresOK'
    BY <1>3, PutType DEF UploadFindExisting, StoresOK
  <2>2. upload' = [upload EXCEPT ![u] = st] /\ st \in UploadState
    BY <1>3 DEF UploadFindExisting, UploadState, UploadBusy, UploadEnded
  <2>3. QED
    BY <1>3, <2>1, <2>2, UploadFrame DEF UploadFindExisting, UploadState, UploadBusy, UploadEnded, UploadLocals, Targeted, PastCreate, TypeInv
<1>4. CASE UploadPut(u)
  <2>1. StoresOK'
    BY <1>4, PutType DEF UploadPut, StoresOK
  <2>2. upload' = [upload EXCEPT ![u] = st] /\ st \in UploadState
    BY <1>4 DEF UploadPut, UploadState, UploadBusy, UploadEnded
  <2>3. QED
    BY <1>4, <2>1, <2>2, UploadFrame DEF UploadPut, UploadState, UploadBusy, UploadEnded, UploadLocals, Targeted, PastCreate, TypeInv
<1>5. CASE UploadPutFails(u)
  <2>1. StoresOK'
    BY <1>5, PutType DEF UploadPutFails, StoresOK
  <2> DEFINE tries == upload[u].tries + 1
             new == [upload[u] EXCEPT !.tries = tries,
                        !.pc = IF tries < MaxAttempts THEN "put" ELSE "unstored"]
  <2>2. /\ upload[u].pc = "put" /\ upload[u].tries < MaxAttempts
        /\ upload[u].tries \in 0..MaxAttempts
        /\ upload[u].slot \in Slots /\ u \notin rows
    BY <1>5 DEF UploadPutFails, UploadLocals, UploadState, PastCreate
  <2>3. upload' = [upload EXCEPT ![u] = new]
    BY <1>5 DEF UploadPutFails
  <2>4. /\ new.slot = upload[u].slot /\ new.tries = tries
        /\ new.pc = IF tries < MaxAttempts THEN "put" ELSE "unstored"
    BY DEF UploadState
  <2>5. tries \in 0..MaxAttempts
    BY <2>2
  <2>6. new \in UploadState
    BY <2>5 DEF UploadState, UploadBusy, UploadEnded
  <2>7. /\ UNCHANGED <<rows, removal, reading, signing>>
        /\ new.pc \in {"put", "unstored"} /\ new.slot \in Slots
        /\ new.pc = "put" => new.tries < MaxAttempts
        /\ upload[u].pc \notin PastCreate
    BY <1>5, <2>2, <2>4 DEF UploadPutFails, PastCreate
  <2> HIDE DEF new
  <2>8. QED
    BY <2>1, <2>2, <2>3, <2>6, <2>7, UploadFrame
<1>6. CASE UploadCreate(u)
  <2>1. StoresOK'
    BY <1>6, PutType DEF UploadCreate, StoresOK
  <2>2. upload' = [upload EXCEPT ![u] = st] /\ st \in UploadState
    BY <1>6 DEF UploadCreate, UploadState, UploadBusy, UploadEnded
  <2>3. QED
    BY <1>6, <2>1, <2>2, UploadFrame DEF UploadCreate, UploadState, UploadBusy, UploadEnded, UploadLocals, Targeted, PastCreate, TypeInv
<1>7. CASE UploadCreateConflict(u)
  <2>1. StoresOK'
    BY <1>7, PutType DEF UploadCreateConflict, StoresOK
  <2>2. upload' = [upload EXCEPT ![u] = st] /\ st \in UploadState
    BY <1>7 DEF UploadCreateConflict, UploadState, UploadBusy, UploadEnded
  <2>3. QED
    BY <1>7, <2>1, <2>2, UploadFrame DEF UploadCreateConflict, UploadState, UploadBusy, UploadEnded, UploadLocals, Targeted, PastCreate, TypeInv
<1>8. CASE UploadCreateFails(u)
  <2>1. StoresOK'
    BY <1>8, PutType DEF UploadCreateFails, StoresOK
  <2>2. upload' = [upload EXCEPT ![u] = st] /\ st \in UploadState
    BY <1>8 DEF UploadCreateFails, UploadState, UploadBusy, UploadEnded
  <2>3. QED
    BY <1>8, <2>1, <2>2, UploadFrame DEF UploadCreateFails, UploadState, UploadBusy, UploadEnded, UploadLocals, Targeted, PastCreate, TypeInv
<1>9. CASE UploadRollback(u)
  <2>1. StoresOK'
    BY <1>9, PutType DEF UploadRollback, StoresOK
  <2>2. upload' = [upload EXCEPT ![u] = st] /\ st \in UploadState
    BY <1>9 DEF UploadRollback, UploadState, UploadBusy, UploadEnded
  <2>3. QED
    BY <1>9, <2>1, <2>2, UploadFrame DEF UploadRollback, UploadState, UploadBusy, UploadEnded, UploadLocals, Targeted, PastCreate, TypeInv
<1>10. CASE UploadAudit(u)
  <2>1. StoresOK'
    BY <1>10, PutType DEF UploadAudit, StoresOK, Entry, AuditEntry
  <2>2. upload' = [upload EXCEPT ![u] = st] /\ st \in UploadState
    BY <1>10 DEF UploadAudit, UploadState, UploadBusy, UploadEnded
  <2>3. QED
    BY <1>10, <2>1, <2>2, UploadFrame DEF UploadAudit, UploadState, UploadBusy, UploadEnded, UploadLocals, Targeted, PastCreate, TypeInv
<1>11. CASE UploadAuditFails(u)
  <2>1. StoresOK'
    BY <1>11, PutType DEF UploadAuditFails, StoresOK
  <2>2. upload' = [upload EXCEPT ![u] = st] /\ st \in UploadState
    BY <1>11 DEF UploadAuditFails, UploadState, UploadBusy, UploadEnded
  <2>3. QED
    BY <1>11, <2>1, <2>2, UploadFrame DEF UploadAuditFails, UploadState, UploadBusy, UploadEnded, UploadLocals, Targeted, PastCreate, TypeInv
<1>12. QED
  BY <1>2, <1>3, <1>4, <1>5, <1>6, <1>7, <1>8, <1>9, <1>10, <1>11 DEF UploadStep

(* The steps of remove.                                                     *)
LEMMA TypeInvRemoval ==
    ASSUME TypeInv, NEW d \in Removals,
           \/ \E r \in Uploads : RemoveFind(d, r)
           \/ RemovalStep(d)
    PROVE  TypeInv'
<1> DEFINE st == removal'[d]
<1>1. removal[d] \in RemovalState /\ StoresOK /\ removal \in [Removals -> RemovalState] /\ RemovalLocals
  BY DEF TypeInv, TypeOK, RequestsOK
<1> USE <1>1, NullAssumption, AttemptsAssumption DEF RemovalGoto, OnlyRemoval, stores
<1>2. ASSUME NEW r \in Uploads, RemoveFind(d, r) PROVE TypeInv'
  <2>1. StoresOK'
    BY <1>2, PutType DEF RemoveFind, StoresOK
  <2>2. removal' = [removal EXCEPT ![d] = st] /\ st \in RemovalState
    BY <1>2 DEF RemoveFind, RemovalState, OtherBusy, OtherEnded
  <2>3. QED
    BY <1>2, <2>1, <2>2, RemovalFrame DEF RemoveFind, RemovalState, OtherBusy, OtherEnded, RemovalLocals, Targeted, PastCreate, TypeInv, UploadLocals
<1>3. CASE RemoveFile(d)
  <2>1. StoresOK'
    BY <1>3, PutType DEF RemoveFile, StoresOK
  <2>2. removal' = [removal EXCEPT ![d] = st] /\ st \in RemovalState
    BY <1>3 DEF RemoveFile, RemovalState, OtherBusy, OtherEnded
  <2>3. QED
    BY <1>3, <2>1, <2>2, RemovalFrame DEF RemoveFile, RemovalState, OtherBusy, OtherEnded, RemovalLocals, Targeted, PastCreate, TypeInv, UploadLocals
<1>4. CASE RemoveFileFails(d)
  <2>1. StoresOK'
    BY <1>4, PutType DEF RemoveFileFails, StoresOK
  <2>2. removal' = [removal EXCEPT ![d] = st] /\ st \in RemovalState
    BY <1>4 DEF RemoveFileFails, RemovalState, OtherBusy, OtherEnded
  <2>3. QED
    BY <1>4, <2>1, <2>2, RemovalFrame DEF RemoveFileFails, RemovalState, OtherBusy, OtherEnded, RemovalLocals, Targeted, PastCreate, TypeInv, UploadLocals
<1>5. CASE RemoveRow(d)
  <2>1. StoresOK'
    BY <1>5, PutType DEF RemoveRow, StoresOK, RemovalState
  <2>2. removal' = [removal EXCEPT ![d] = st] /\ st \in RemovalState
    BY <1>5 DEF RemoveRow, RemovalState, OtherBusy, OtherEnded
  <2>3. QED
    BY <1>5, <2>1, <2>2, RemovalFrame DEF RemoveRow, RemovalState, OtherBusy, OtherEnded, RemovalLocals, Targeted, PastCreate, TypeInv, UploadLocals
<1>6. CASE RemoveRowFails(d)
  <2>1. StoresOK'
    BY <1>6, PutType DEF RemoveRowFails, StoresOK
  <2>2. removal' = [removal EXCEPT ![d] = st] /\ st \in RemovalState
    BY <1>6 DEF RemoveRowFails, RemovalState, OtherBusy, OtherEnded
  <2>3. QED
    BY <1>6, <2>1, <2>2, RemovalFrame DEF RemoveRowFails, RemovalState, OtherBusy, OtherEnded, RemovalLocals, Targeted, PastCreate, TypeInv, UploadLocals
<1>7. CASE RemoveAudit(d)
  <2>1. StoresOK'
    BY <1>7, PutType DEF RemoveAudit, StoresOK, Entry, AuditEntry, RemovalState, OtherBusy, RemovalLocals
  <2>2. removal' = [removal EXCEPT ![d] = st] /\ st \in RemovalState
    BY <1>7 DEF RemoveAudit, RemovalState, OtherBusy, OtherEnded
  <2>3. QED
    BY <1>7, <2>1, <2>2, RemovalFrame DEF RemoveAudit, RemovalState, OtherBusy, OtherEnded, RemovalLocals, Targeted, PastCreate, TypeInv, UploadLocals
<1>8. QED
  BY <1>2, <1>3, <1>4, <1>5, <1>6, <1>7 DEF RemovalStep

(* The steps of markAsRead.                                                 *)
LEMMA TypeInvReading ==
    ASSUME TypeInv, NEW m \in Readings,
           \/ \E r \in Uploads, actor \in {"EMPLOYEE", "RH_ADMIN"} : ReadFind(m, r, actor)
           \/ ReadingStep(m)
    PROVE  TypeInv'
<1> DEFINE st == reading'[m]
<1>1. reading[m] \in ReadingState /\ StoresOK /\ reading \in [Readings -> ReadingState] /\ ReadingLocals
  BY DEF TypeInv, TypeOK, RequestsOK
<1> USE <1>1, NullAssumption, AttemptsAssumption DEF ReadingGoto, OnlyReading, stores
<1>2. ASSUME NEW r \in Uploads, NEW actor \in {"EMPLOYEE", "RH_ADMIN"}, ReadFind(m, r, actor) PROVE TypeInv'
  <2>1. StoresOK'
    BY <1>2, PutType DEF ReadFind, StoresOK
  <2>2. reading' = [reading EXCEPT ![m] = st] /\ st \in ReadingState
    BY <1>2 DEF ReadFind, ReadingState, OtherBusy, OtherEnded
  <2>3. QED
    BY <1>2, <2>1, <2>2, ReadingFrame DEF ReadFind, ReadingState, OtherBusy, OtherEnded, ReadingLocals, Targeted, PastCreate, TypeInv, UploadLocals
<1>3. CASE ReadUpdate(m)
  <2>1. StoresOK'
    BY <1>3, PutType DEF ReadUpdate, StoresOK
  <2>2. reading' = [reading EXCEPT ![m] = st] /\ st \in ReadingState
    BY <1>3 DEF ReadUpdate, ReadingState, OtherBusy, OtherEnded
  <2>3. QED
    BY <1>3, <2>1, <2>2, ReadingFrame DEF ReadUpdate, ReadingState, OtherBusy, OtherEnded, ReadingLocals, Targeted, PastCreate, TypeInv, UploadLocals
<1>4. CASE ReadUpdateFails(m)
  <2>1. StoresOK'
    BY <1>4, PutType DEF ReadUpdateFails, StoresOK
  <2>2. reading' = [reading EXCEPT ![m] = st] /\ st \in ReadingState
    BY <1>4 DEF ReadUpdateFails, ReadingState, OtherBusy, OtherEnded
  <2>3. QED
    BY <1>4, <2>1, <2>2, ReadingFrame DEF ReadUpdateFails, ReadingState, OtherBusy, OtherEnded, ReadingLocals, Targeted, PastCreate, TypeInv, UploadLocals
<1>5. CASE ReadAudit(m)
  <2>1. StoresOK'
    BY <1>5, PutType DEF ReadAudit, StoresOK, Entry, AuditEntry, ReadingState, OtherBusy, ReadingLocals
  <2>2. reading' = [reading EXCEPT ![m] = st] /\ st \in ReadingState
    BY <1>5 DEF ReadAudit, ReadingState, OtherBusy, OtherEnded
  <2>3. QED
    BY <1>5, <2>1, <2>2, ReadingFrame DEF ReadAudit, ReadingState, OtherBusy, OtherEnded, ReadingLocals, Targeted, PastCreate, TypeInv, UploadLocals
<1>6. QED
  BY <1>2, <1>3, <1>4, <1>5 DEF ReadingStep

(* The steps of signPayslip.                                                *)
LEMMA TypeInvSigning ==
    ASSUME TypeInv, NEW g \in Signings,
           \/ \E r \in Uploads : SignFind(g, r)
           \/ SigningStep(g)
    PROVE  TypeInv'
<1> DEFINE st == signing'[g]
<1>1. signing[g] \in SigningState /\ StoresOK /\ signing \in [Signings -> SigningState] /\ SigningLocals
  BY DEF TypeInv, TypeOK, RequestsOK
<1> USE <1>1, NullAssumption, AttemptsAssumption DEF SigningGoto, OnlySigning, stores
<1>2. ASSUME NEW r \in Uploads, SignFind(g, r) PROVE TypeInv'
  <2>1. StoresOK'
    BY <1>2, PutType DEF SignFind, StoresOK
  <2>2. signing' = [signing EXCEPT ![g] = st] /\ st \in SigningState
    BY <1>2 DEF SignFind, SigningState, OtherBusy, OtherEnded, StoresOK
  <2>3. /\ st.row # Null => upload[st.row].pc \in PastCreate
        /\ st.pc \in OtherBusy => st.row # Null
        /\ st.pc = "commit" => st.hash # Null
    BY <1>2 DEF SignFind, SigningState, OtherBusy, SigningLocals, Targeted, UploadLocals, TypeInv
  <2>4. QED
    BY <1>2, <2>1, <2>2, <2>3, SigningFrame DEF SignFind
<1>3. CASE SignFetch(g)
  <2>1. StoresOK'
    BY <1>3, PutType DEF SignFetch, StoresOK
  <2>2. signing' = [signing EXCEPT ![g] = st] /\ st \in SigningState
    BY <1>3, TargetFile DEF SignFetch, SigningState, OtherBusy, OtherEnded, SigningLocals, Targeted
  <2>3. /\ st.row # Null => upload[st.row].pc \in PastCreate
        /\ st.pc \in OtherBusy => st.row # Null
        /\ st.pc = "commit" => st.hash # Null
    BY <1>3 DEF SignFetch, SigningState, OtherBusy, SigningLocals, Targeted, UploadLocals, TypeInv
  <2>4. QED
    BY <1>3, <2>1, <2>2, <2>3, SigningFrame DEF SignFetch
<1>4. CASE SignFetchFails(g)
  <2>1. StoresOK'
    BY <1>4, PutType DEF SignFetchFails, StoresOK
  <2>2. signing' = [signing EXCEPT ![g] = st] /\ st \in SigningState
    BY <1>4 DEF SignFetchFails, SigningState, OtherBusy, OtherEnded
  <2>3. /\ st.row # Null => upload[st.row].pc \in PastCreate
        /\ st.pc \in OtherBusy => st.row # Null
        /\ st.pc = "commit" => st.hash # Null
    BY <1>4 DEF SignFetchFails, SigningState, OtherBusy, SigningLocals, Targeted, UploadLocals, TypeInv
  <2>4. QED
    BY <1>4, <2>1, <2>2, <2>3, SigningFrame DEF SignFetchFails
<1>5. CASE SignCommit(g)
  <2>1. StoresOK'
    BY <1>5, PutType DEF SignCommit, StoresOK, Entry, AuditEntry, SigningState
  <2>2. signing' = [signing EXCEPT ![g] = st] /\ st \in SigningState
    BY <1>5 DEF SignCommit, SigningState, OtherBusy, OtherEnded
  <2>3. /\ st.row # Null => upload[st.row].pc \in PastCreate
        /\ st.pc \in OtherBusy => st.row # Null
        /\ st.pc = "commit" => st.hash # Null
    BY <1>5 DEF SignCommit, SigningState, OtherBusy, SigningLocals, Targeted, UploadLocals, TypeInv
  <2>4. QED
    BY <1>5, <2>1, <2>2, <2>3, SigningFrame DEF SignCommit
<1>6. CASE SignAbort(g)
  <2>1. StoresOK'
    BY <1>6, PutType DEF SignAbort, StoresOK
  <2>2. signing' = [signing EXCEPT ![g] = st] /\ st \in SigningState
    BY <1>6 DEF SignAbort, SigningState, OtherBusy, OtherEnded
  <2>3. /\ st.row # Null => upload[st.row].pc \in PastCreate
        /\ st.pc \in OtherBusy => st.row # Null
        /\ st.pc = "commit" => st.hash # Null
    BY <1>6 DEF SignAbort, SigningState, OtherBusy, SigningLocals, Targeted, UploadLocals, TypeInv
  <2>4. QED
    BY <1>6, <2>1, <2>2, <2>3, SigningFrame DEF SignAbort
<1>7. QED
  BY <1>2, <1>3, <1>4, <1>5, <1>6 DEF SigningStep

(* A request that is cut off only moves to its last control point.         *)
LEMMA TypeInvCrash == ASSUME TypeInv, Crash PROVE TypeInv'
<1>1. StoresOK' /\ UNCHANGED rows
  BY DEF Crash, stores, TypeInv, TypeOK, StoresOK
<1>2. RequestsOK
  BY DEF TypeInv, TypeOK
<1>3. ASSUME NEW u \in Uploads, upload[u].pc \in UploadBusy, UploadGoto(u, "crashed"),
             UNCHANGED <<removal, reading, signing>>
      PROVE  TypeInv'
  <2> DEFINE st == [upload[u] EXCEPT !.pc = "crashed"]
  <2>1. upload' = [upload EXCEPT ![u] = st] /\ st \in UploadState
    BY <1>2, <1>3 DEF UploadGoto, RequestsOK, UploadState, UploadEnded
  <2>2. QED
    BY <1>1, <1>2, <1>3, <2>1, UploadFrame
       DEF TypeInv, UploadLocals, UploadBusy, PastCreate, UploadState, RequestsOK
<1>4. ASSUME NEW d \in Removals, removal[d].pc \in OtherBusy, RemovalGoto(d, "failed"),
             UNCHANGED <<upload, reading, signing>>
      PROVE  TypeInv'
  <2> DEFINE st == [removal[d] EXCEPT !.pc = "failed"]
  <2>1. removal' = [removal EXCEPT ![d] = st] /\ st \in RemovalState
    BY <1>2, <1>4 DEF RemovalGoto, RequestsOK, RemovalState, OtherEnded
  <2>2. QED
    BY <1>1, <1>2, <1>4, <2>1, RemovalFrame
       DEF TypeInv, RemovalLocals, Targeted, OtherBusy, RemovalState, RequestsOK
<1>5. ASSUME NEW m \in Readings, reading[m].pc \in OtherBusy, ReadingGoto(m, "failed"),
             UNCHANGED <<upload, removal, signing>>
      PROVE  TypeInv'
  <2> DEFINE st == [reading[m] EXCEPT !.pc = "failed"]
  <2>1. reading' = [reading EXCEPT ![m] = st] /\ st \in ReadingState
    BY <1>2, <1>5 DEF ReadingGoto, RequestsOK, ReadingState, OtherEnded
  <2>2. QED
    BY <1>1, <1>2, <1>5, <2>1, ReadingFrame
       DEF TypeInv, ReadingLocals, Targeted, OtherBusy, ReadingState, RequestsOK
<1>6. ASSUME NEW g \in Signings, signing[g].pc \in OtherBusy, SigningGoto(g, "failed"),
             UNCHANGED <<upload, removal, reading>>
      PROVE  TypeInv'
  <2> DEFINE st == [signing[g] EXCEPT !.pc = "failed"]
  <2>1. signing' = [signing EXCEPT ![g] = st] /\ st \in SigningState
    BY <1>2, <1>6 DEF SigningGoto, RequestsOK, SigningState, OtherEnded
  <2>2. QED
    BY <1>1, <1>2, <1>6, <2>1, SigningFrame
       DEF TypeInv, SigningLocals, Targeted, OtherBusy, SigningState, RequestsOK
<1>7. QED
  BY <1>3, <1>4, <1>5, <1>6 DEF Crash

LEMMA TypeInvStep == TypeInv /\ [Next]_vars => TypeInv'
<1>1. SUFFICES ASSUME TypeInv, [Next]_vars PROVE TypeInv'
  OBVIOUS
<1>2. CASE UNCHANGED vars
  BY <1>1, <1>2 DEF vars, stores, requests, TypeInv, TypeOK, StoresOK, RequestsOK, UploadLocals,
     RemovalLocals, ReadingLocals, SigningLocals, Targeted
<1>3. CASE Next
  BY <1>1, <1>3, TypeInvUpload, TypeInvRemoval, TypeInvReading, TypeInvSigning, TypeInvCrash
     DEF Next
<1>4. QED
  BY <1>1, <1>2, <1>3

(* Every reachable state is well typed: the stores hold what they should,  *)
(* no upload exceeds its attempts, every request is at a point of its      *)
(* handler.                                                                *)
THEOREM TypeCorrect == Spec => []TypeOK
<1>1. Spec => []TypeInv
  BY TypeInvInit, TypeInvStep, PTL DEF Spec
<1>2. TypeInv => TypeOK
  BY DEF TypeInv
<1>3. QED
  BY <1>1, <1>2, PTL
=============================================================================
