----------------------------- MODULE BulkUpload -----------------------------
(***************************************************************************)
(* Distribution of a batch of payslips by an HR administrator: the admin   *)
(* client's flow (drop files, review what was recognised, distribute, read *)
(* the report, retry the technical failures), the server's analyze-bulk    *)
(* and confirm-bulk, and the store that keeps the files in between in the  *)
(* memory of the server process for 30 minutes.                            *)
(*                                                                         *)
(* The client is one JavaScript thread; its requests are answered late or  *)
(* given up while the server goes on, so two confirmations of one batch    *)
(* may run together.  An upload is two steps: the reads, and the insert    *)
(* that the unique index decides (PayslipVault has the steps in between).  *)
(* Files of the batch are known by their position in the list sent; what   *)
(* is asked of a confirmation and what it reports are sets, in the order   *)
(* of these positions.                                                     *)
(* Colleagues who upload the same payslip, and departures, come at any     *)
(* time; payslips are not deleted while a batch is reviewed.               *)
(***************************************************************************)
EXTENDS Naturals, Sequences, Functions, FiniteSets

CONSTANTS
    Files,        \* payslip files
    Drops,        \* the lists of files the user may drop
    Info,         \* what the extractor and the file name say of each
    Employees, Periods, None,
    Batches,      \* bound: batches in the store at one time
    Confirms,     \* bound: confirmations that run together
    MaxEdits,     \* bound: changes by hand in one review
    Others        \* bound: payslips that colleagues create

ASSUME NoneAssumption ==
    None \notin Files \cup Employees \cup Periods \cup Batches \cup Confirms \cup Others
ASSUME FilesAssumption == IsFiniteSet(Files)
ASSUME OthersAssumption == Others \cap Confirms = {}
ASSUME MaxEditsAssumption == MaxEdits \in Nat
ASSUME DropsAssumption ==
    \A d \in Drops : d \in Seq(Files) /\ d # <<>> /\ IsInjective(d)
ASSUME InfoAssumption ==
    \A f \in Files :
       /\ Info[f].readable \in BOOLEAN
       /\ Info[f].matricule \in Employees \cup {None, "unknown"}
       /\ Info[f].names \in Seq(Employees)
       /\ Info[f].fileMatricule \in Employees \cup {None, "unknown"}
       /\ Info[f].period \in Periods \cup {None}
       /\ Info[f].filePeriod \in Periods \cup {None}

VARIABLES
    employed,     \* who may receive a payslip
    payslip,      \* the Payslip rows: who created the row of a slot, or None
    unheard,      \* history: the slots whose insert lost its answer
    store,        \* the files of each batch, or None
    confirm,      \* the confirmations in service
    step, analyzing, filesSent,  \* BulkUploadFlow
    batchId, rows, dbMap, check, edits, \* BulkReviewTable; check: a duplicate check is due
    submitting,   \* the confirmation the client waits for, or None
    report        \* the report shown, or None

server == <<employed, payslip, unheard, store, confirm>>
review == <<batchId, rows, dbMap, check, edits>>
client == <<step, analyzing, filesSent, review, submitting, report>>
vars   == <<server, client>>

Slots == Employees \X Periods
NoConfirm == [at |-> "idle", batch |-> None, todo |-> {}, lines |-> {}]
Positions == 1..Cardinality(Files)
Least(S) == CHOOSE n \in S : \A m \in S : n <= m

-----------------------------------------------------------------------------
(* Matching: matricule in the PDF, then the closest name, then the file    *)
(* name; an employee who left stops the search.                            *)

Or(a, b) == IF a # None THEN a ELSE b
Found(emp, period, method) == [emp |-> emp, period |-> period, method |-> method]

NameMatch(f) ==
    LET close == {n \in DOMAIN Info[f].names : Info[f].names[n] \in employed}
    IN  IF close = {} THEN None ELSE Info[f].names[Least(close)]

ByFilename(f) ==
    LET i == Info[f] IN
    IF i.fileMatricule \in employed /\ i.filePeriod # None
    THEN Found(i.fileMatricule, i.filePeriod, "filename")
    ELSE Found(None, IF i.fileMatricule \in Employees /\ i.filePeriod # None
                     THEN i.filePeriod ELSE Or(i.period, i.filePeriod), "unmatched")

Match(f) ==
    LET i == Info[f]
        period == Or(i.period, i.filePeriod)
    IN  IF i.matricule \in employed THEN Found(i.matricule, period, "matricule")
        ELSE IF i.matricule \in Employees THEN Found(None, period, "unmatched")
        ELSE IF NameMatch(f) # None THEN Found(NameMatch(f), period, "name")
        ELSE ByFilename(f)

(* The rows of an analysis, and the duplicates it marks: a slot that is    *)
(* twice in the batch counts as a duplicate of the batch even if it is in  *)
(* the database too.                                                       *)
SlotOf(r) == <<r.emp, r.period>>
Complete(r) == r.emp # None /\ r.period # None
Exists(slot) == slot \in Slots /\ payslip[slot] # None

Draft(f) ==
    IF Info[f].readable
    THEN [emp |-> Match(f).emp, period |-> Or(Match(f).period, Info[f].period),
          auto |-> Match(f).method = "matricule", blocked |-> FALSE]
    ELSE [emp |-> None, period |-> None, auto |-> FALSE, blocked |-> TRUE]

DuplicateIn(drafts, i) ==
    IF ~Complete(drafts[i]) THEN "none"
    ELSE IF \E j \in DOMAIN drafts : j # i /\ SlotOf(drafts[j]) = SlotOf(drafts[i]) THEN "batch"
    ELSE IF Exists(SlotOf(drafts[i])) THEN "database" ELSE "none"

Analysis(files) ==
    LET drafts == [i \in DOMAIN files |-> Draft(files[i])]
    IN  [i \in DOMAIN files |->
           [emp |-> drafts[i].emp, period |-> drafts[i].period, auto |-> drafts[i].auto,
            blocked |-> drafts[i].blocked, duplicate |-> DuplicateIn(drafts, i),
            initial |-> SlotOf(drafts[i])]]

-----------------------------------------------------------------------------
Rows == [emp: Employees \cup {None}, period: Periods \cup {None}, auto: BOOLEAN,
         blocked: BOOLEAN, duplicate: {"none", "batch", "database"},
         initial: (Employees \cup {None}) \X (Periods \cup {None})]
Assignments == [at: Positions, emp: Employees, period: Periods]
Lines == [at: Positions, slot: Slots, ok: BOOLEAN, retryable: BOOLEAN]
ConfirmRecords ==
    [at: {"idle", "sent", "read", "insert"}, batch: Batches \cup {None},
     todo: SUBSET Assignments, lines: SUBSET Lines]

ServerOK ==
    /\ employed \subseteq Employees
    /\ payslip \in [Slots -> Confirms \cup Others \cup {None}]
    /\ unheard \subseteq Slots
    /\ store \in [Batches -> {None} \cup Seq(Files)]
    /\ confirm \in [Confirms -> ConfirmRecords]
ClientOK ==
    /\ step \in 0..2 /\ analyzing \in BOOLEAN
    /\ filesSent \in Seq(Files)
    /\ batchId \in Batches \cup {None} /\ submitting \in Confirms \cup {None}
    /\ DOMAIN rows \subseteq DOMAIN filesSent /\ \A i \in DOMAIN rows : rows[i] \in Rows
    /\ dbMap \in [DOMAIN rows -> BOOLEAN] /\ check \subseteq DOMAIN rows /\ edits \in 0..MaxEdits
    /\ report \in {None} \cup SUBSET Lines
    (* A review never has a batch or a confirmation of another list.       *)
    /\ step # 1 => rows = <<>> /\ submitting = None
TypeOK == ServerOK /\ ClientOK

Init ==
    /\ employed = Employees
    /\ payslip = [s \in Slots |-> None] /\ unheard = {}
    /\ store = [b \in Batches |-> None]
    /\ confirm = [c \in Confirms |-> NoConfirm]
    /\ step = 0 /\ analyzing = FALSE /\ filesSent = <<>>
    /\ batchId = None /\ rows = <<>> /\ dbMap = <<>> /\ check = {} /\ edits = 0
    /\ submitting = None /\ report = None

-----------------------------------------------------------------------------
(* The store.                                                              *)

(* After 30 minutes a batch is not found any more: getSession and the      *)
(* sweep remove it.                                                        *)
Expire(b) ==
    /\ store[b] # None /\ store' = [store EXCEPT ![b] = None]
    /\ UNCHANGED <<employed, payslip, unheard, confirm, client>>

(* The process ends: batches are lost, and requests in service with them.  *)
Restart ==
    /\ \E b \in Batches : store[b] # None
    /\ store' = [b \in Batches |-> None]
    /\ confirm' = [c \in Confirms |-> NoConfirm] /\ submitting' = None
    /\ UNCHANGED <<employed, payslip, unheard, step, analyzing, filesSent, review, report>>

-----------------------------------------------------------------------------
(* Analysis.                                                               *)

Unused(b) == store[b] = None /\ batchId # b /\ \A c \in Confirms : confirm[c].batch # b

RunAnalyze(files) ==
    /\ filesSent' = files /\ analyzing' = TRUE
    /\ UNCHANGED <<step, review, submitting, server>>

Drop ==
    /\ step = 0 /\ ~analyzing
    /\ \E files \in Drops : RunAnalyze(files)
    /\ UNCHANGED report

(* What a row's duplicate check does when its slot changes: answered at    *)
(* once if the slot is incomplete or was a duplicate of the database when  *)
(* it was analysed; else a request goes out.                               *)
AtOnce(r) == ~Complete(r) \/ (SlotOf(r) = r.initial /\ r.duplicate = "database")
Resolved(rs, map, changed) ==
    /\ dbMap' = [i \in DOMAIN rs |-> IF i \in changed /\ AtOnce(rs[i]) /\ ~rs[i].blocked
                                     THEN Complete(rs[i]) ELSE map[i]]
    /\ check' = {i \in DOMAIN rs : /\ ~rs[i].blocked
                                   /\ IF i \in changed THEN ~AtOnce(rs[i]) ELSE i \in check}

(* The review is mounted on the answer.                                    *)
Analyzed(b) ==
    /\ batchId' = b /\ rows' = Analysis(filesSent)
    /\ Resolved(rows', [i \in DOMAIN rows' |-> rows'[i].duplicate = "database"], DOMAIN rows')
    /\ step' = 1 /\ edits' = 0

(* Mutant: only the readable files are kept.                               *)
KeptReadable(files) == SelectSeq(files, LAMBDA f : Info[f].readable)
Kept(files) == files

(* The answer may be lost, or late.                                        *)
AnalyzeBulk(b) ==
    /\ analyzing /\ Unused(b)
    /\ store' = [store EXCEPT ![b] = Kept(filesSent)]
    /\ Analyzed(b) \/ UNCHANGED <<step, review>>
    /\ analyzing' = FALSE
    /\ UNCHANGED <<employed, payslip, unheard, confirm, filesSent, submitting, report>>

AnalyzeFails ==
    /\ analyzing /\ analyzing' = FALSE
    /\ UNCHANGED <<server, step, filesSent, review, submitting, report>>

-----------------------------------------------------------------------------
(* Review.                                                                 *)

Edit(i, r) ==
    /\ step = 1 /\ ~rows[i].blocked
    /\ edits < MaxEdits /\ edits' = edits + 1
    /\ r # rows[i]
    /\ rows' = [rows EXCEPT ![i] = r]
    /\ Resolved(rows', dbMap, {i})
    /\ UNCHANGED <<server, step, analyzing, filesSent, batchId, submitting, report>>
Assign(i, e) == ~rows[i].auto /\ Edit(i, [rows[i] EXCEPT !.emp = e])
SetPeriod(i, p) == Edit(i, [rows[i] EXCEPT !.period = p])

ApplyToAll(p) ==
    /\ step = 1 /\ submitting = None
    /\ edits < MaxEdits /\ edits' = edits + 1
    /\ rows' = [i \in DOMAIN rows |-> [rows[i] EXCEPT !.period = p]]
    /\ rows' # rows
    /\ Resolved(rows', dbMap, {i \in DOMAIN rows : rows[i].period # p})
    /\ UNCHANGED <<server, step, analyzing, filesSent, batchId, submitting, report>>

CheckAnswers(i) ==
    /\ i \in check
    /\ dbMap' = [dbMap EXCEPT ![i] = Exists(SlotOf(rows[i]))]
    /\ check' = check \ {i}
    /\ UNCHANGED <<server, step, analyzing, filesSent, batchId, rows, edits, submitting, report>>

CheckFails(i) ==
    /\ i \in check /\ check' = check \ {i}
    /\ UNCHANGED <<server, step, analyzing, filesSent, batchId, rows, dbMap, edits, submitting, report>>

(* Removing a row marks again every row that the analysis found in the     *)
(* database, whatever became of its slot since.                            *)
RemoveRow(i) ==
    /\ step = 1 /\ i \in DOMAIN rows
    /\ rows' = [j \in DOMAIN rows \ {i} |-> rows[j]]
    /\ dbMap' = [j \in DOMAIN rows \ {i} |-> dbMap[j] \/ rows[j].duplicate = "database"]
    /\ check' = check \ {i}
    /\ UNCHANGED <<server, step, analyzing, filesSent, batchId, edits, submitting, report>>

(* Mutant: the known duplicates outlive the review.                        *)
EmptyKeepsMap == batchId' = None /\ rows' = <<>> /\ check' = {} /\ edits' = 0 /\ UNCHANGED dbMap
EmptyReview == batchId' = None /\ rows' = <<>> /\ dbMap' = <<>> /\ check' = {} /\ edits' = 0

Back ==
    /\ step = 1 /\ submitting = None
    /\ step' = 0 /\ EmptyReview
    /\ UNCHANGED <<server, analyzing, filesSent, submitting, report>>

-----------------------------------------------------------------------------
(* Confirmation.                                                           *)

TwiceInBatch(i) ==
    \E j \in DOMAIN rows : j # i /\ Complete(rows[j]) /\ SlotOf(rows[j]) = SlotOf(rows[i])
(* Mutant: the rows of the batch are not compared.                         *)
ReadyAlone(i) == ~rows[i].blocked /\ Complete(rows[i]) /\ ~dbMap[i]
Ready(i) == ~rows[i].blocked /\ Complete(rows[i]) /\ ~dbMap[i] /\ ~TwiceInBatch(i)

ReadyRows == {i \in DOMAIN rows : Ready(i)}
Asked(i) == [at |-> i, emp |-> rows[i].emp, period |-> rows[i].period]

Distribute(c) ==
    /\ step = 1 /\ submitting = None /\ confirm[c].at = "idle"
    /\ ReadyRows # {}
    /\ confirm' = [confirm EXCEPT ![c] =
          [at |-> "sent", batch |-> batchId, todo |-> {Asked(i) : i \in ReadyRows}, lines |-> {}]]
    /\ submitting' = c
    /\ UNCHANGED <<employed, payslip, unheard, store, step, analyzing, filesSent, review, report>>

(* An answer that the client does not wait for any more is not heard, and  *)
(* after an error, or 300 s, the review stays.                             *)
Refused(c) ==
    /\ confirm' = [confirm EXCEPT ![c] = NoConfirm]
    /\ submitting' = IF submitting = c THEN None ELSE submitting
    /\ UNCHANGED <<step, review, report>>

GiveUp ==
    /\ submitting # None /\ submitting' = None
    /\ UNCHANGED <<server, step, analyzing, filesSent, review, report>>

Distributed(c) ==
    /\ submitting = c
    /\ confirm' = [confirm EXCEPT ![c] = NoConfirm]
    /\ report' = confirm[c].lines
    /\ step' = 2 /\ submitting' = None /\ EmptyReview

ConfirmBulk(c) ==
    /\ confirm[c].at = "sent"
    /\ IF store[confirm[c].batch] # None
       THEN /\ confirm' = [confirm EXCEPT ![c] = [@ EXCEPT !.at = "read"]]
            /\ UNCHANGED <<step, review, submitting, report>>
       ELSE Refused(c)
    /\ UNCHANGED <<employed, payslip, unheard, store, analyzing, filesSent>>

Current(c) == CHOOSE a \in confirm[c].todo : \A b \in confirm[c].todo : a.at <= b.at
CurrentSlot(c) == <<Current(c).emp, Current(c).period>>
LineOf(c, ok, retryable) ==
    LET state == confirm[c]
        line  == [at |-> Current(c).at, slot |-> CurrentSlot(c),
                  ok |-> ok, retryable |-> retryable]
    IN  confirm' = [confirm EXCEPT ![c] =
          [state EXCEPT !.at = "read", !.todo = state.todo \ {Current(c)},
                        !.lines = state.lines \cup {line}]]
Serves(c, at) == confirm[c].at = at /\ confirm[c].todo # {}

(* uploadSingle: the checks, and the copy to the object storage.           *)
UploadRead(c) ==
    /\ Serves(c, "read")
    /\ \/ LineOf(c, FALSE, FALSE)   \* refused, or a read fails
       \/ /\ Current(c).emp \in employed /\ ~Exists(CurrentSlot(c))
          /\ \/ confirm' = [confirm EXCEPT ![c] = [@ EXCEPT !.at = "insert"]]
             \/ LineOf(c, FALSE, TRUE)   \* STORAGE_FAILED
    /\ UNCHANGED <<employed, payslip, unheard, store, client>>

(* The insert.  Mutant: a slot that is taken meanwhile is a success.       *)
InsertTolerant(c) ==
    /\ Serves(c, "insert")
    /\ payslip' = [payslip EXCEPT ![CurrentSlot(c)] = IF @ = None THEN c ELSE @]
    /\ LineOf(c, TRUE, FALSE)
    /\ UNCHANGED <<employed, unheard, store, client>>
Insert(c) ==
    /\ Serves(c, "insert")
    /\ \/ /\ ~Exists(CurrentSlot(c))
          /\ payslip' = [payslip EXCEPT ![CurrentSlot(c)] = c]
          /\ \/ LineOf(c, TRUE, FALSE) /\ UNCHANGED unheard
             \/ LineOf(c, FALSE, FALSE) /\ UNCHANGED unheard   \* the audit entry fails
             \/ /\ LineOf(c, FALSE, TRUE)   \* PERSIST_FAILED, for a lost answer
                /\ unheard' = unheard \cup {CurrentSlot(c)}
       \/ /\ UNCHANGED <<payslip, unheard>>
          /\ \/ Exists(CurrentSlot(c)) /\ LineOf(c, FALSE, FALSE)   \* P2002
             \/ LineOf(c, FALSE, TRUE)      \* PERSIST_FAILED
    /\ UNCHANGED <<employed, store, client>>

(* finally: the batch is deleted, whatever was retryable.                  *)
ConfirmEnds(c) ==
    /\ confirm[c].at = "read" /\ confirm[c].todo = {}
    /\ store' = [store EXCEPT ![confirm[c].batch] = None]
    /\ Distributed(c) \/ Refused(c)
    /\ UNCHANGED <<employed, payslip, unheard, analyzing, filesSent>>

(* The look-up of the addressee fails, outside the try of an assignment:   *)
(* what was done stays done, and is not reported.                          *)
ConfirmAborts(c) ==
    /\ Serves(c, "read")
    /\ store' = [store EXCEPT ![confirm[c].batch] = None]
    /\ Refused(c)
    /\ UNCHANGED <<employed, payslip, unheard, analyzing, filesSent>>

-----------------------------------------------------------------------------
(* Result.                                                                 *)

(* The files at some of the positions, in their order.                     *)
Rank(i, at) == Cardinality({j \in at : j <= i})
InOrder(at) == [n \in 1..Cardinality(at) |-> CHOOSE i \in at : Rank(i, at) = n]

(* The position to retry.  Mutant: that of the line in the report.         *)
RetryAtLine(line) == Rank(line.at, {l.at : l \in report})
RetryAt(line) == line.at
ToRetry == {RetryAt(line) : line \in {l \in report : l.retryable}}
FilesToRetry ==
    LET kept == InOrder(ToRetry \cap DOMAIN filesSent)
    IN  [n \in DOMAIN kept |-> filesSent[kept[n]]]

Retry ==
    /\ step = 2 /\ report # None /\ FilesToRetry # <<>>
    /\ report' = None
    /\ RunAnalyze(FilesToRetry)

NewDistribution ==
    /\ step = 2 /\ report # None
    /\ step' = 0 /\ EmptyReview /\ report' = None /\ filesSent' = <<>>
    /\ UNCHANGED <<server, analyzing, submitting>>

-----------------------------------------------------------------------------
(* Colleagues.                                                             *)

Leaves(e) ==
    /\ e \in employed /\ employed' = employed \ {e}
    /\ UNCHANGED <<payslip, unheard, store, confirm, client>>

OtherUpload(o, slot) ==
    /\ \A s \in Slots : payslip[s] # o
    /\ ~Exists(slot) /\ payslip' = [payslip EXCEPT ![slot] = o]
    /\ UNCHANGED <<employed, unheard, store, confirm, client>>

Next ==
    \/ \E b \in Batches : Expire(b) \/ AnalyzeBulk(b)
    \/ Restart \/ Drop \/ AnalyzeFails \/ Back
    \/ \E i \in DOMAIN rows :
          \/ \E e \in Employees : Assign(i, e)
          \/ \E p \in Periods \cup {None} : SetPeriod(i, p)
          \/ CheckAnswers(i) \/ CheckFails(i) \/ RemoveRow(i)
    \/ \E p \in Periods : ApplyToAll(p)
    \/ \E c \in Confirms :
          \/ Distribute(c) \/ ConfirmBulk(c) \/ UploadRead(c) \/ Insert(c)
          \/ ConfirmEnds(c) \/ ConfirmAborts(c)
    \/ GiveUp \/ Retry \/ NewDistribution
    \/ \E e \in Employees : Leaves(e)
    \/ \E o \in Others, slot \in Slots : OtherUpload(o, slot)

Spec == Init /\ [][Next]_vars

-----------------------------------------------------------------------------
(* A position names the same file in the client's list and in the batch    *)
(* that is confirmed, whatever the server thought of the files before it.  *)
PositionsAgree ==
    (step = 1 /\ store[batchId] # None) => store[batchId] = filesSent

(* The report tells the truth: a success is a payslip that this            *)
(* confirmation created, and a failure that may be tried again is one that *)
(* it did not create, even with a second confirmation of the batch or a    *)
(* colleague's upload running.  One case is excepted: an insert that was   *)
(* committed and whose answer was lost is reported as a technical failure. *)
LinesTrue(c) ==
    \A l \in confirm[c].lines :
       /\ l.ok => payslip[l.slot] = c
       /\ l.retryable => payslip[l.slot] # c \/ l.slot \in unheard
ReportTrue == \A c \in Confirms : LinesTrue(c)

(* A confirmation is never refused a row because of another row of its own.*)
NoSelfConflict ==
    \A c \in Confirms :
       \A a, b \in confirm[c].todo : a # b => SlotOf(a) # SlotOf(b)

(* A retry sends the files whose lines were technical failures, and no     *)
(* other file of the batch.                                                *)
RetrySendsFailures ==
    [][Retry => \A f \in Files :
          (\E n \in DOMAIN filesSent' : filesSent'[n] = f)
             <=> \E l \in report : l.retryable /\ filesSent[l.at] = f]_vars
=============================================================================
