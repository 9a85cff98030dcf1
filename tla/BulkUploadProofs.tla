-------------------------- MODULE BulkUploadProofs ---------------------------
(***************************************************************************)
(* Proofs about BulkUpload, for any files and any lists of them, any       *)
(* number of batches in the store and of confirmations that run together,  *)
(* of colleagues who upload and of employees who leave: positions keep     *)
(* their meaning from the analysis to the retry, and reports are true.     *)
(***************************************************************************)
EXTENDS BulkUpload, FiniteSetTheorems, WellFoundedInduction, NaturalsInduction, TLAPS

(* A list of different files.                                              *)
List(files) == files \in Seq(Files) /\ IsInjective(files)

(* The flow.  The list stays the one of the review from the analysis to    *)
(* the report: nothing is analysed while a review or a report is open.     *)
FlowInv ==
    /\ List(filesSent)
    /\ analyzing => step # 1 /\ report = None
    /\ step = 1 => batchId \in Batches /\ store[batchId] \in {None, filesSent}
    /\ submitting # None =>
          \A line \in confirm[submitting].todo \cup confirm[submitting].lines :
             line.at \in DOMAIN filesSent
    /\ report # None => step = 2 /\ \A line \in report : line.at \in DOMAIN filesSent

(* A confirmation: no slot is asked for twice, none is asked for again     *)
(* that has its line; an insert is due for a slot that this confirmation   *)
(* did not fill.                                                           *)
OneByOne(state) ==
    /\ \A a, b \in state.todo : a # b => SlotOf(a) # SlotOf(b)
    /\ \A a \in state.todo, line \in state.lines : SlotOf(a) # line.slot
Due(c) == confirm[c].at = "insert" =>
             confirm[c].todo # {} /\ payslip[CurrentSlot(c)] # c
ConfirmInv == \A c \in Confirms : OneByOne(confirm[c]) /\ Due(c) /\ LinesTrue(c)

BulkInv == TypeOK /\ FlowInv /\ ConfirmInv

-----------------------------------------------------------------------------
(* Positions.                                                              *)
LEMMA NatLess == \A i, j \in Nat : <<i, j>> \in OpToRel(<, Nat) <=> i < j
BY DEF OpToRel

LEMMA LeastIn ==
    ASSUME NEW S \in SUBSET Nat, S # {}
    PROVE  Least(S) \in S /\ \A m \in S : Least(S) <= m
<1>1. PICK n \in S : \A m \in S : <<m, n>> \notin OpToRel(<, Nat)
  BY WFMin, NatLessThanWellFounded
<1>2. \A m \in S : n <= m
  <2>1. \A m \in S : n \in Nat /\ m \in Nat /\ ~(m < n)
    BY <1>1, NatLess
  <2>2. QED
    BY <2>1
<1>3. QED
  BY <1>2 DEF Least

(* InOrder lists a finite set of positions, each once.                     *)
LEMMA Listed ==
    ASSUME NEW at \in SUBSET Nat, IsFiniteSet(at)
    PROVE  /\ Cardinality(at) \in Nat
           /\ InOrder(at) \in [1..Cardinality(at) -> at]
           /\ \A m, n \in 1..Cardinality(at) : InOrder(at)[m] = InOrder(at)[n] => m = n
           /\ \A i \in at : \E n \in 1..Cardinality(at) : InOrder(at)[n] = i
<1>1. Cardinality(at) \in Nat
  BY FS_CardinalityType
<1>2. \A i \in at : LET below == {j \in at : j <= i} IN
         IsFiniteSet(below) /\ Cardinality(below) \in Nat /\ Cardinality(below) <= Cardinality(at)
  BY FS_Subset, FS_CardinalityType
<1>3. \A i \in at : Rank(i, at) \in 1..Cardinality(at)
  <2> TAKE i \in at
  <2>1. PICK below : below = {j \in at : j <= i}
    OBVIOUS
  <2>2. i \in below
    BY <2>1
  <2>3. Cardinality(below) # 0
    BY <1>2, <2>1, <2>2, FS_EmptySet
  <2>4. QED
    BY <1>1, <1>2, <2>1, <2>3 DEF Rank
<1>4. \A i, k \in at : i < k => Rank(i, at) < Rank(k, at)
  <2> SUFFICES ASSUME NEW i \in at, NEW k \in at, i < k PROVE Rank(i, at) < Rank(k, at)
    OBVIOUS
  <2>1. PICK low, high : low = {j \in at : j <= i} /\ high = {j \in at : j <= k}
    OBVIOUS
  <2>2. low \in SUBSET high /\ k \in high /\ k \notin low
    <3>1. \A j \in at : j \in Nat /\ (j <= i => j <= k /\ j # k)
      OBVIOUS
    <3>2. k <= k
      OBVIOUS
    <3>3. QED
      BY <2>1, <3>1, <3>2
  <2>3. IsFiniteSet(high) /\ Cardinality(low) \in Nat /\ Cardinality(high) \in Nat
    BY <1>2, <2>1
  <2>4. Cardinality(low) <= Cardinality(high) /\ Cardinality(low) # Cardinality(high)
    BY <2>2, <2>3, FS_Subset
  <2>5. QED
    BY <2>1, <2>3, <2>4 DEF Rank
<1>5. \A i, k \in at : Rank(i, at) = Rank(k, at) => i = k
  <2> SUFFICES ASSUME NEW i \in at, NEW k \in at, i # k PROVE Rank(i, at) # Rank(k, at)
    OBVIOUS
  <2>1. i < k \/ k < i
    OBVIOUS
  <2>2. Rank(i, at) \in Nat /\ Rank(k, at) \in Nat
    BY <1>3
  <2>3. QED
    BY <1>4, <2>1, <2>2
<1> DEFINE rank == [i \in at |-> Rank(i, at)]
<1>6. \A n \in 1..Cardinality(at) : \E i \in at : Rank(i, at) = n
  <2>1. rank \in Injection(at, 1..Cardinality(at))
    BY <1>3, <1>5 DEF Injection, IsInjective
  <2>2. IsFiniteSet(1..Cardinality(at)) /\ Cardinality(1..Cardinality(at)) = Cardinality(at)
    BY <1>1, FS_Interval
  <2>3. rank \in Surjection(at, 1..Cardinality(at))
    BY <2>1, <2>2, FS_Injection
  <2>4. QED
    BY <2>3 DEF Surjection
<1>7. \A n \in 1..Cardinality(at) : InOrder(at)[n] \in at /\ Rank(InOrder(at)[n], at) = n
  BY <1>6 DEF InOrder
<1>8. InOrder(at) \in [1..Cardinality(at) -> at]
  BY <1>7 DEF InOrder
<1>9. \A i \in at : InOrder(at)[Rank(i, at)] = i
  BY <1>3, <1>5, <1>7
<1>10. QED
  BY <1>1, <1>3, <1>7, <1>8, <1>9

LEMMA ListFits ==
    ASSUME NEW files, List(files)
    PROVE  /\ DOMAIN files \subseteq Positions /\ DOMAIN files \subseteq Nat /\ IsFiniteSet(DOMAIN files)
           /\ \A i \in DOMAIN files : files[i] \in Files
           /\ \A i, j \in DOMAIN files : files[i] = files[j] => i = j
<1>1. /\ DOMAIN files = 1..Len(files) /\ Len(files) \in Nat /\ \A i \in 1..Len(files) : files[i] \in Files
      /\ files \in [1..Len(files) -> Files]
  BY DEF List
<1>2. files \in Injection(1..Len(files), Files)
  BY <1>1 DEF List, Injection
<1>3. /\ IsFiniteSet(1..Len(files)) /\ Cardinality(1..Len(files)) = Len(files)
      /\ Cardinality(Files) \in Nat
  <2>1. \A n \in Nat : IsFiniteSet(1..n) /\ Cardinality(1..n) = n
    BY FS_Interval
  <2>2. QED
    BY <1>1, <2>1, FilesAssumption, FS_CardinalityType
<1>4. Len(files) <= Cardinality(Files)
  BY <1>2, <1>3, FilesAssumption, FS_Injection
<1>5. QED
  BY <1>1, <1>3, <1>4 DEF Positions, List, IsInjective

(* A retry sends a list again, of the files at the positions to retry.     *)
LEMMA RetryList ==
    ASSUME List(filesSent)
    PROVE  /\ List(FilesToRetry)
           /\ \A f : (\E n \in DOMAIN FilesToRetry : FilesToRetry[n] = f)
                <=> \E i \in ToRetry \cap DOMAIN filesSent : filesSent[i] = f
<1>1. PICK at : at = ToRetry \cap DOMAIN filesSent
  OBVIOUS
<1>2. at \in SUBSET Nat /\ IsFiniteSet(at) /\ at \subseteq DOMAIN filesSent
  BY <1>1, ListFits, FS_Subset
<1>3. PICK k : k = Cardinality(at)
  OBVIOUS
<1>4. PICK kept : kept = InOrder(at)
  OBVIOUS
<1>5. /\ k \in Nat /\ kept \in [1..k -> at]
      /\ \A m, n \in 1..k : kept[m] = kept[n] => m = n
      /\ \A i \in at : \E n \in 1..k : kept[n] = i
  BY <1>2, <1>3, <1>4, Listed
<1>6. FilesToRetry = [n \in 1..k |-> filesSent[kept[n]]]
  BY <1>1, <1>4, <1>5 DEF FilesToRetry
<1>7. \A n \in 1..k : filesSent[kept[n]] \in Files
  BY <1>2, <1>5, ListFits
<1>8. FilesToRetry \in Seq(Files) /\ DOMAIN FilesToRetry = 1..k
  BY <1>5, <1>6, <1>7
<1>9. IsInjective(FilesToRetry)
  <2>1. \A i, j \in at : filesSent[i] = filesSent[j] => i = j
    BY <1>2, ListFits
  <2>2. \A m \in 1..k : kept[m] \in at
    BY <1>5
  <2>3. \A m, n \in 1..k : filesSent[kept[m]] = filesSent[kept[n]] => m = n
    BY <1>5, <2>1, <2>2
  <2>4. QED
    BY <1>6, <1>8, <2>3 DEF IsInjective
<1>10. \A f : (\E n \in 1..k : FilesToRetry[n] = f) <=> \E i \in at : filesSent[i] = f
  BY <1>5, <1>6
<1>11. QED
  BY <1>1, <1>8, <1>9, <1>10 DEF List

-----------------------------------------------------------------------------
(* The line of a confirmation in service.                                  *)
LEMMA Typed ==
    ASSUME TypeOK
    PROVE  /\ employed \subseteq Employees /\ payslip \in [Slots -> Confirms \cup Others \cup {None}]
           /\ store \in [Batches -> {None} \cup Seq(Files)] /\ confirm \in [Confirms -> ConfirmRecords]
           /\ \A c \in Confirms : /\ confirm[c] \in ConfirmRecords
                                  /\ confirm[c].todo \subseteq Assignments
                                  /\ confirm[c].lines \subseteq Lines
                                  /\ confirm[c].batch \in Batches \cup {None}
BY DEF TypeOK, ServerOK, ConfirmRecords

LEMMA CurrentIn ==
    ASSUME TypeOK, NEW c \in Confirms, confirm[c].todo # {}
    PROVE  /\ Current(c) \in confirm[c].todo /\ Current(c) \in Assignments
           /\ CurrentSlot(c) \in Slots /\ CurrentSlot(c) = SlotOf(Current(c))
<1>1. PICK todo : todo = confirm[c].todo
  OBVIOUS
<1>2. todo \subseteq Assignments /\ todo # {}
  BY <1>1, Typed
<1>3. PICK ats : ats = {a.at : a \in todo}
  OBVIOUS
<1>4. ats \in SUBSET Nat /\ ats # {}
  <2>1. \A a \in todo : a.at \in Nat
    <3>1. IsFiniteSet(Files) => Cardinality(Files) \in Nat
      BY FS_CardinalityType
    <3>2. Positions \subseteq Nat
      BY <3>1, FilesAssumption DEF Positions
    <3>3. QED
      BY <1>2, <3>2 DEF Assignments
  <2>2. QED
    BY <1>2, <1>3, <2>1
<1>5. \E a \in todo : \A b \in todo : a.at <= b.at
  <2>1. PICK n \in ats : \A m \in ats : n <= m
    BY <1>4, LeastIn
  <2>2. QED
    BY <1>3, <2>1
<1>6. Current(c) \in todo
  BY <1>1, <1>5 DEF Current
<1>7. QED
  BY <1>1, <1>2, <1>6 DEF CurrentSlot, SlotOf, Assignments, Slots

(* "next" is "state" with the assignment "a" answered by "line".           *)
Lined(next, state, a, line) ==
    /\ next \in ConfirmRecords /\ next.at = "read" /\ next.batch = state.batch
    /\ \A b : b \in next.todo <=> b \in state.todo /\ b # a
    /\ \A l : l \in next.lines <=> l \in state.lines \/ l = line
CurrentLine(c, ok, retryable) ==
    [at |-> Current(c).at, slot |-> CurrentSlot(c), ok |-> ok, retryable |-> retryable]

LEMMA LineAdded ==
    ASSUME TypeOK, NEW c \in Confirms, confirm[c].todo # {},
           NEW ok \in BOOLEAN, NEW retryable \in BOOLEAN, LineOf(c, ok, retryable)
    PROVE  \E next : /\ confirm' = [confirm EXCEPT ![c] = next]
                     /\ Lined(next, confirm[c], Current(c), CurrentLine(c, ok, retryable))
<1>1. PICK state, line : state = confirm[c] /\ line = CurrentLine(c, ok, retryable)
  OBVIOUS
<1>2. PICK a : a = Current(c)
  OBVIOUS
<1>3. state \in ConfirmRecords /\ state.todo \subseteq Assignments /\ state.lines \subseteq Lines
  BY <1>1, Typed
<1>4. line \in Lines
  BY <1>1, CurrentIn DEF CurrentLine, Lines, Assignments
<1> DEFINE next == [state EXCEPT !.at = "read", !.todo = state.todo \ {a},
                                 !.lines = state.lines \cup {line}]
<1>5. next \in ConfirmRecords
  <2>1. state.todo \ {a} \in SUBSET Assignments /\ state.lines \cup {line} \in SUBSET Lines
    BY <1>3, <1>4
  <2>2. QED
    BY <1>3, <2>1 DEF ConfirmRecords
<1>6. /\ next.at = "read" /\ next.todo = state.todo \ {a} /\ next.batch = state.batch
      /\ next.lines = state.lines \cup {line}
  BY <1>3 DEF ConfirmRecords
<1>7. confirm' = [confirm EXCEPT ![c] = next]
  BY <1>1, <1>2 DEF LineOf, CurrentLine
<1> HIDE DEF next
<1>8. Lined(next, state, a, line)
  BY <1>5, <1>6 DEF Lined
<1>9. QED
  BY <1>1, <1>2, <1>7, <1>8

(* What a step makes of the confirmation in service.                       *)
LEMMA NoConfirmTyped ==
    /\ NoConfirm \in ConfirmRecords /\ OneByOne(NoConfirm)
    /\ NoConfirm.at # "insert" /\ NoConfirm.lines = {} /\ NoConfirm.todo = {}
BY DEF NoConfirm, ConfirmRecords, OneByOne

LEMMA RefusedTyped ==
    ASSUME TypeOK, NEW c \in Confirms, Refused(c) \/ Distributed(c)
    PROVE  confirm' = [confirm EXCEPT ![c] = NoConfirm]
BY DEF Refused, Distributed

LEMMA ReadyFits ==
    ASSUME TypeOK, FlowInv, NEW i \in ReadyRows
    PROVE  Asked(i) \in Assignments /\ Asked(i).at \in DOMAIN filesSent
<1>1. /\ i \in DOMAIN rows /\ rows[i] \in Rows /\ i \in DOMAIN filesSent
      /\ rows[i].emp # None /\ rows[i].period # None
  BY DEF ReadyRows, Ready, Complete, TypeOK, ClientOK
<1>2. i \in Positions
  BY <1>1, ListFits DEF FlowInv
<1>3. QED
  BY <1>1, <1>2 DEF Asked, Assignments, Rows

-----------------------------------------------------------------------------
(* Confirmations.                                                          *)
LEMMA ConfirmStays ==
    ASSUME ConfirmInv, UNCHANGED <<payslip, unheard, confirm>>
    PROVE  ConfirmInv'
BY DEF ConfirmInv, OneByOne, Due, LinesTrue, Current, CurrentSlot

(* One confirmation changes, and creates at most the payslip of a slot     *)
(* that had none; an answer that was lost stays so.                        *)
LEMMA ConfirmOf ==
    ASSUME BulkInv, NEW c \in Confirms, NEW next, next \in ConfirmRecords,
           confirm' = [confirm EXCEPT ![c] = next], OneByOne(next), Due(c)', LinesTrue(c)',
           unheard \subseteq unheard',
           \/ UNCHANGED payslip
           \/ \E slot \in Slots : ~Exists(slot) /\ payslip' = [payslip EXCEPT ![slot] = c]
    PROVE  ConfirmInv' /\ payslip' \in [Slots -> Confirms \cup Others \cup {None}]
           /\ confirm' \in [Confirms -> ConfirmRecords]
<1>1. /\ confirm \in [Confirms -> ConfirmRecords] /\ TypeOK /\ ConfirmInv
      /\ payslip \in [Slots -> Confirms \cup Others \cup {None}]
  BY Typed DEF BulkInv
<1>2. \A b \in Confirms : confirm'[b] = IF b = c THEN next ELSE confirm[b]
  BY <1>1
<1>3. payslip' \in [Slots -> Confirms \cup Others \cup {None}]
  BY <1>1
<1>4. \A slot \in Slots, b \in Confirms \ {c} : payslip'[slot] = b <=> payslip[slot] = b
  BY <1>1, NoneAssumption DEF Exists
<1>5. ASSUME NEW b \in Confirms, b # c PROVE OneByOne(confirm'[b]) /\ Due(b)' /\ LinesTrue(b)'
  <2>1. confirm'[b] = confirm[b] /\ Current(b)' = Current(b) /\ CurrentSlot(b)' = CurrentSlot(b)
    BY <1>2, <1>5 DEF Current, CurrentSlot
  <2>2. OneByOne(confirm[b]) /\ Due(b) /\ LinesTrue(b)
    BY <1>1 DEF ConfirmInv
  <2>3. Due(b)'
    BY <1>1, <1>4, <1>5, <2>1, <2>2, CurrentIn DEF Due
  <2>4. \A l \in confirm[b].lines : l.slot \in Slots
    BY <1>1, Typed DEF Lines
  <2>5. LinesTrue(b)'
    BY <1>4, <1>5, <2>1, <2>2, <2>4 DEF LinesTrue
  <2>6. QED
    BY <2>1, <2>2, <2>3, <2>5
<1>6. OneByOne(confirm'[c])
  BY <1>2
<1>7. \A b \in Confirms : OneByOne(confirm[b])' /\ Due(b)' /\ LinesTrue(b)'
  <2> TAKE b \in Confirms
  <2>1. CASE b = c
    BY <1>6, <2>1 DEF OneByOne
  <2>2. CASE b # c
    BY <1>5, <2>2 DEF OneByOne
  <2>3. QED
    BY <2>1, <2>2
<1>8. ConfirmInv'
  BY <1>7 DEF ConfirmInv
<1>9. QED
  BY <1>1, <1>2, <1>3, <1>8

(* The current assignment gets its line.                                   *)
LEMMA LineTold ==
    ASSUME BulkInv, NEW c \in Confirms, confirm[c].todo # {},
           NEW ok \in BOOLEAN, NEW retryable \in BOOLEAN, LineOf(c, ok, retryable),
           unheard \subseteq unheard',
           \/ UNCHANGED payslip /\ ~ok /\ (retryable => payslip[CurrentSlot(c)] # c)
           \/ /\ ~Exists(CurrentSlot(c)) /\ payslip' = [payslip EXCEPT ![CurrentSlot(c)] = c]
              /\ retryable => CurrentSlot(c) \in unheard'
    PROVE  ConfirmInv' /\ payslip' \in [Slots -> Confirms \cup Others \cup {None}]
           /\ confirm' \in [Confirms -> ConfirmRecords]
<1>1. PICK state, a, line : /\ state = confirm[c] /\ a = Current(c)
                            /\ line = CurrentLine(c, ok, retryable)
  OBVIOUS
<1>2. PICK next : confirm' = [confirm EXCEPT ![c] = next] /\ Lined(next, state, a, line)
  BY <1>1, LineAdded DEF BulkInv
<1>3. /\ TypeOK /\ payslip \in [Slots -> Confirms \cup Others \cup {None}]
      /\ confirm \in [Confirms -> ConfirmRecords] /\ state.lines \subseteq Lines
      /\ OneByOne(state) /\ LinesTrue(c) /\ a \in state.todo
      /\ CurrentSlot(c) \in Slots /\ CurrentSlot(c) = SlotOf(a)
  BY <1>1, Typed, CurrentIn DEF BulkInv, ConfirmInv
<1>4. next \in ConfirmRecords /\ next.at = "read" /\ confirm'[c] = next
  BY <1>2, <1>3 DEF Lined
<1>5. line.slot = SlotOf(a) /\ line.ok = ok /\ line.retryable = retryable
  BY <1>1, <1>3 DEF CurrentLine
<1>6. OneByOne(next)
  BY <1>2, <1>3, <1>5 DEF Lined, OneByOne
<1>7. Due(c)'
  BY <1>4 DEF Due
<1>8. ASSUME NEW l \in next.lines
      PROVE  /\ l.ok => payslip'[l.slot] = c
             /\ l.retryable => payslip'[l.slot] # c \/ l.slot \in unheard'
  <2>1. CASE l = line
    BY <1>3, <1>5, <2>1
  <2>2. CASE l # line
    <3>1. l \in state.lines /\ l.slot # SlotOf(a) /\ l.slot \in Slots
      BY <1>2, <1>3, <1>8, <2>2 DEF Lined, OneByOne, Lines
    <3>2. /\ l.ok => payslip[l.slot] = c
          /\ l.retryable => payslip[l.slot] # c \/ l.slot \in unheard
      BY <1>1, <1>3, <3>1 DEF LinesTrue
    <3>3. payslip'[l.slot] = payslip[l.slot]
      BY <1>3, <3>1
    <3>4. QED
      BY <3>2, <3>3
  <2>3. QED
    BY <2>1, <2>2
<1>9. LinesTrue(c)'
  BY <1>4, <1>8 DEF LinesTrue
<1>10. \/ UNCHANGED payslip
       \/ \E slot \in Slots : ~Exists(slot) /\ payslip' = [payslip EXCEPT ![slot] = c]
  BY <1>3
<1>11. QED
  BY <1>2, <1>4, <1>6, <1>7, <1>9, <1>10, ConfirmOf

(* A confirmation that starts, or ends, has told nothing.                  *)
LEMMA Silent ==
    ASSUME BulkInv, NEW c \in Confirms, NEW next, next \in ConfirmRecords, next.at # "insert",
           confirm' = [confirm EXCEPT ![c] = next], OneByOne(next), UNCHANGED <<payslip, unheard>>,
           next.lines = {} \/ next.lines = confirm[c].lines
    PROVE  ConfirmInv' /\ payslip' \in [Slots -> Confirms \cup Others \cup {None}]
           /\ confirm' \in [Confirms -> ConfirmRecords]
<1>1. confirm'[c] = next
  BY Typed DEF BulkInv
<1>2. Due(c)' /\ LinesTrue(c)'
  BY <1>1 DEF Due, LinesTrue, BulkInv, ConfirmInv
<1>3. QED
  BY <1>2, ConfirmOf

ServerSide == /\ ConfirmInv /\ payslip \in [Slots -> Confirms \cup Others \cup {None}]
              /\ confirm \in [Confirms -> ConfirmRecords]

LEMMA UploadReadKeeps ==
    ASSUME BulkInv, NEW c \in Confirms, UploadRead(c)
    PROVE  ServerSide'
<1>1. /\ TypeOK /\ confirm[c].todo # {} /\ UNCHANGED <<payslip, unheard>>
      /\ confirm[c] \in ConfirmRecords /\ OneByOne(confirm[c]) /\ LinesTrue(c)
      /\ confirm \in [Confirms -> ConfirmRecords]
  BY Typed DEF BulkInv, ConfirmInv, UploadRead, Serves
<1>2. CASE LineOf(c, FALSE, FALSE)
  BY <1>1, <1>2, LineTold DEF ServerSide
<1>3. ASSUME ~Exists(CurrentSlot(c)) PROVE payslip[CurrentSlot(c)] # c
  BY <1>1, <1>3, CurrentIn, NoneAssumption DEF Exists
<1>4. CASE LineOf(c, FALSE, TRUE) /\ ~Exists(CurrentSlot(c))
  BY <1>1, <1>3, <1>4, LineTold DEF ServerSide
<1>5. CASE /\ confirm' = [confirm EXCEPT ![c] = [@ EXCEPT !.at = "insert"]]
           /\ ~Exists(CurrentSlot(c))
  <2> DEFINE next == [confirm[c] EXCEPT !.at = "insert"]
  <2>1. /\ next \in ConfirmRecords /\ next.todo = confirm[c].todo
        /\ next.lines = confirm[c].lines /\ confirm' = [confirm EXCEPT ![c] = next]
    BY <1>1, <1>5 DEF ConfirmRecords
  <2> HIDE DEF next
  <2>2. confirm'[c] = next
    BY <1>1, <2>1
  <2>3. OneByOne(next) /\ LinesTrue(c)'
    BY <1>1, <2>1, <2>2 DEF OneByOne, LinesTrue
  <2>4. CurrentSlot(c)' = CurrentSlot(c)
    BY <2>1, <2>2 DEF CurrentSlot, Current
  <2>5. Due(c)'
    BY <1>1, <1>3, <1>5, <2>1, <2>2, <2>4 DEF Due
  <2>6. QED
    BY <1>1, <2>1, <2>3, <2>5, ConfirmOf DEF ServerSide
<1>6. QED
  BY <1>2, <1>4, <1>5 DEF UploadRead

LEMMA InsertKeeps ==
    ASSUME BulkInv, NEW c \in Confirms, Insert(c)
    PROVE  ServerSide'
<1>1. confirm[c].todo # {} /\ confirm[c].at = "insert" /\ payslip[CurrentSlot(c)] # c
  BY DEF Insert, Serves, BulkInv, ConfirmInv, Due
<1>2. PICK ok, retryable \in BOOLEAN :
         /\ LineOf(c, ok, retryable) /\ unheard \subseteq unheard'
         /\ \/ UNCHANGED payslip /\ ~ok
            \/ /\ ~Exists(CurrentSlot(c)) /\ payslip' = [payslip EXCEPT ![CurrentSlot(c)] = c]
               /\ retryable => CurrentSlot(c) \in unheard'
  BY DEF Insert
<1>3. QED
  BY <1>1, <1>2, LineTold DEF ServerSide

LEMMA DistributeKeeps ==
    ASSUME BulkInv, NEW c \in Confirms, Distribute(c)
    PROVE  ServerSide'
<1>1. /\ TypeOK /\ FlowInv /\ step = 1 /\ batchId \in Batches /\ UNCHANGED <<payslip, unheard>>
  BY DEF BulkInv, FlowInv, Distribute
<1>2. PICK todo : todo = {Asked(i) : i \in ReadyRows}
  OBVIOUS
<1> DEFINE next == [at |-> "sent", batch |-> batchId, todo |-> todo, lines |-> {}]
<1>3. confirm' = [confirm EXCEPT ![c] = next]
  BY <1>2 DEF Distribute
<1>4. todo \in SUBSET Assignments
  BY <1>1, <1>2, ReadyFits
<1>5. next \in ConfirmRecords
  BY <1>1, <1>4 DEF ConfirmRecords
<1>6. next.at = "sent" /\ next.todo = todo /\ next.lines = {}
  OBVIOUS
<1> HIDE DEF next
<1>7. ASSUME NEW i \in ReadyRows, NEW j \in ReadyRows, Asked(i) # Asked(j)
      PROVE  SlotOf(Asked(i)) # SlotOf(Asked(j))
  <2>1. i # j /\ i \in DOMAIN rows /\ j \in DOMAIN rows
    BY <1>7 DEF ReadyRows
  <2>2. Complete(rows[j]) /\ ~TwiceInBatch(i)
    BY DEF ReadyRows, Ready
  <2>3. SlotOf(rows[i]) # SlotOf(rows[j])
    BY <2>1, <2>2 DEF TwiceInBatch
  <2>4. QED
    BY <2>3 DEF SlotOf, Asked
<1>8. OneByOne(next)
  BY <1>2, <1>6, <1>7 DEF OneByOne
<1>9. QED
  BY <1>1, <1>3, <1>5, <1>6, <1>8, Silent DEF ServerSide

LEMMA ConfirmBulkKeeps ==
    ASSUME BulkInv, NEW c \in Confirms, ConfirmBulk(c) \/ ConfirmEnds(c) \/ ConfirmAborts(c)
    PROVE  ServerSide'
<1>1. /\ TypeOK /\ UNCHANGED <<payslip, unheard>>
      /\ confirm[c] \in ConfirmRecords /\ OneByOne(confirm[c])
  BY Typed DEF BulkInv, ConfirmInv, ConfirmBulk, ConfirmEnds, ConfirmAborts
<1>2. CASE Refused(c) \/ Distributed(c)
  BY <1>1, <1>2, RefusedTyped, NoConfirmTyped, Silent DEF ServerSide
<1>3. CASE confirm' = [confirm EXCEPT ![c] = [@ EXCEPT !.at = "read"]]
  <2> DEFINE next == [confirm[c] EXCEPT !.at = "read"]
  <2>1. /\ next \in ConfirmRecords /\ next.todo = confirm[c].todo /\ next.at = "read"
        /\ next.lines = confirm[c].lines /\ confirm' = [confirm EXCEPT ![c] = next]
    BY <1>1, <1>3 DEF ConfirmRecords
  <2> HIDE DEF next
  <2>2. OneByOne(next)
    BY <1>1, <2>1 DEF OneByOne
  <2>3. QED
    BY <1>1, <2>1, <2>2, Silent DEF ServerSide
<1>4. QED
  BY <1>2, <1>3 DEF ConfirmBulk, ConfirmEnds, ConfirmAborts

LEMMA RestartKeeps ==
    ASSUME BulkInv, Restart
    PROVE  ServerSide'
<1>1. /\ \A c \in Confirms : confirm'[c] = NoConfirm
      /\ confirm' = [c \in Confirms |-> NoConfirm] /\ UNCHANGED <<payslip, unheard>>
  BY DEF Restart
<1>2. ConfirmInv'
  BY <1>1, NoConfirmTyped DEF ConfirmInv, OneByOne, Due, LinesTrue
<1>3. QED
  BY <1>1, <1>2, NoConfirmTyped, Typed DEF ServerSide, BulkInv

LEMMA OtherUploadKeeps ==
    ASSUME BulkInv, NEW o \in Others, NEW slot \in Slots, OtherUpload(o, slot)
    PROVE  ServerSide'
<1>1. /\ TypeOK /\ ConfirmInv /\ UNCHANGED <<unheard, confirm>>
      /\ payslip \in [Slots -> Confirms \cup Others \cup {None}]
      /\ confirm \in [Confirms -> ConfirmRecords]
      /\ ~Exists(slot) /\ payslip' = [payslip EXCEPT ![slot] = o]
  BY Typed DEF BulkInv, OtherUpload
<1>2. \A s \in Slots, c \in Confirms : payslip'[s] = c <=> payslip[s] = c
  BY <1>1, NoneAssumption, OthersAssumption DEF Exists
<1>3. ASSUME NEW c \in Confirms PROVE OneByOne(confirm[c])' /\ Due(c)' /\ LinesTrue(c)'
  <2>1. /\ CurrentSlot(c)' = CurrentSlot(c) /\ confirm'[c] = confirm[c]
        /\ \A l \in confirm[c].lines : l.slot \in Slots
    BY <1>1, Typed DEF CurrentSlot, Current, Lines
  <2>2. Due(c)'
    BY <1>1, <1>2, <2>1, CurrentIn DEF Due, ConfirmInv
  <2>3. LinesTrue(c)'
    BY <1>1, <1>2, <2>1 DEF LinesTrue, ConfirmInv
  <2>4. OneByOne(confirm[c])'
    BY <1>1, <2>1 DEF OneByOne, ConfirmInv
  <2>5. QED
    BY <2>2, <2>3, <2>4
<1>4. ConfirmInv'
  BY <1>3 DEF ConfirmInv
<1>5. QED
  BY <1>1, <1>4 DEF ServerSide

-----------------------------------------------------------------------------
(* The store, and the list of the flow.                                    *)
StoreOK == store \in [Batches -> {None} \cup Seq(Files)]

LEMMA StoreKeeps == BulkInv /\ [Next]_vars => StoreOK' /\ employed' \subseteq Employees
<1> SUFFICES ASSUME BulkInv, [Next]_vars PROVE StoreOK' /\ employed' \subseteq Employees
  OBVIOUS
<1>1. StoreOK /\ employed \subseteq Employees /\ filesSent \in Seq(Files)
  BY Typed DEF StoreOK, BulkInv, TypeOK, FlowInv, List
<1>2. CASE \E b \in Batches : AnalyzeBulk(b)
  BY <1>1, <1>2 DEF AnalyzeBulk, Kept, StoreOK
<1>3. CASE \E b \in Batches : Expire(b)
  BY <1>1, <1>3 DEF Expire, StoreOK
<1>4. CASE Restart
  BY <1>1, <1>4 DEF Restart, StoreOK
<1>5. CASE \E c \in Confirms : ConfirmEnds(c) \/ ConfirmAborts(c)
  BY <1>1, <1>5 DEF ConfirmEnds, ConfirmAborts, StoreOK
<1>6. CASE \E e \in Employees : Leaves(e)
  BY <1>1, <1>6 DEF Leaves, StoreOK
<1>7. CASE UNCHANGED <<store, employed>>
  BY <1>1, <1>7 DEF StoreOK
<1>8. QED
  BY <1>2, <1>3, <1>4, <1>5, <1>6, <1>7 DEF Next, vars, server, Drop, AnalyzeFails, Back,
     RunAnalyze, Assign, SetPeriod, Edit, CheckAnswers, CheckFails, RemoveRow, ApplyToAll,
     Distribute, ConfirmBulk, UploadRead, Insert, GiveUp, Retry, NewDistribution, OtherUpload

LEMMA UnheardKeeps == BulkInv /\ [Next]_vars => unheard' \subseteq Slots
<1> SUFFICES ASSUME BulkInv, [Next]_vars PROVE unheard' \subseteq Slots
  OBVIOUS
<1>1. unheard \subseteq Slots
  BY DEF BulkInv, TypeOK, ServerOK
<1>2. CASE UNCHANGED unheard
  BY <1>1, <1>2
<1>3. ASSUME NEW c \in Confirms, Insert(c) PROVE unheard' \subseteq Slots
  <2>1. CurrentSlot(c) \in Slots
    BY <1>3, CurrentIn DEF Insert, Serves, BulkInv
  <2>2. UNCHANGED unheard \/ unheard' = unheard \cup {CurrentSlot(c)}
    BY <1>3 DEF Insert
  <2>3. QED
    BY <1>1, <2>1, <2>2
<1>4. QED
  BY <1>2, <1>3 DEF Next, vars, server, Drop, AnalyzeFails, Back, Expire, AnalyzeBulk, Restart,
     RunAnalyze, Assign, SetPeriod, Edit, CheckAnswers, CheckFails, RemoveRow, ApplyToAll,
     Distribute, ConfirmBulk, ConfirmEnds, ConfirmAborts, UploadRead, GiveUp, Retry,
     NewDistribution, Leaves, OtherUpload

LEMMA ServerKeeps == BulkInv /\ [Next]_vars => ServerOK' /\ ConfirmInv'
<1> SUFFICES ASSUME BulkInv, [Next]_vars PROVE ServerSide'
  BY StoreKeeps, UnheardKeeps DEF ServerSide, ServerOK, StoreOK
<1>1. CASE UNCHANGED <<payslip, unheard, confirm>>
  BY <1>1, ConfirmStays, Typed DEF ServerSide, BulkInv
<1>2. QED
  BY <1>1, UploadReadKeeps, InsertKeeps, DistributeKeeps, ConfirmBulkKeeps, RestartKeeps,
     OtherUploadKeeps DEF Next, vars, server, Drop, AnalyzeFails, Back, Expire, AnalyzeBulk,
     RunAnalyze, Assign, SetPeriod, Edit, CheckAnswers, CheckFails, RemoveRow, ApplyToAll,
     GiveUp, Retry, NewDistribution, Leaves

-----------------------------------------------------------------------------
(* What the analysis makes of a file is a row.                             *)
Results == [emp: Employees \cup {None}, period: Periods \cup {None},
            method: {"matricule", "name", "filename", "unmatched"}]

LEMMA NameMatched ==
    ASSUME NEW f \in Files
    PROVE  NameMatch(f) \in Employees \cup {None}
<1>1. PICK close : close = {n \in DOMAIN Info[f].names : Info[f].names[n] \in employed}
  OBVIOUS
<1>2. close \in SUBSET Nat /\ \A n \in close : Info[f].names[n] \in Employees
  BY <1>1, InfoAssumption
<1>3. close # {} => Least(close) \in close
  BY <1>2, LeastIn
<1>4. NameMatch(f) = IF close = {} THEN None ELSE Info[f].names[Least(close)]
  BY <1>1 DEF NameMatch
<1>5. QED
  BY <1>2, <1>3, <1>4

LEMMA Matched ==
    ASSUME NEW f \in Files, employed \subseteq Employees
    PROVE  Match(f) \in Results
<1>1. /\ Info[f].period \in Periods \cup {None} /\ Info[f].filePeriod \in Periods \cup {None}
  BY InfoAssumption
<1>2. Or(Info[f].period, Info[f].filePeriod) \in Periods \cup {None}
  BY <1>1 DEF Or
<1>3. ByFilename(f) \in Results
  <2>1. \A emp \in Employees \cup {None}, period \in Periods \cup {None} :
           /\ Found(emp, period, "filename") \in Results
           /\ Found(emp, period, "unmatched") \in Results
    BY DEF Found, Results
  <2>2. QED
    BY <1>1, <1>2, <2>1 DEF ByFilename
<1>4. \A emp \in Employees \cup {None}, method \in {"matricule", "name", "unmatched"} :
         Found(emp, Or(Info[f].period, Info[f].filePeriod), method) \in Results
  BY <1>2 DEF Found, Results
<1>5. QED
  BY <1>3, <1>4, NameMatched DEF Match

LEMMA Analysed ==
    ASSUME NEW files, List(files), employed \subseteq Employees
    PROVE  /\ DOMAIN Analysis(files) = DOMAIN files
           /\ \A i \in DOMAIN files : Analysis(files)[i] \in Rows
<1>1. ASSUME NEW f \in Files
      PROVE  /\ Draft(f).emp \in Employees \cup {None} /\ Draft(f).period \in Periods \cup {None}
             /\ Draft(f).auto \in BOOLEAN /\ Draft(f).blocked \in BOOLEAN
  <2>1. Match(f).emp \in Employees \cup {None} /\ Match(f).period \in Periods \cup {None}
    BY Matched DEF Results
  <2>2. Or(Match(f).period, Info[f].period) \in Periods \cup {None}
    BY <2>1, InfoAssumption DEF Or
  <2>3. QED
    BY <2>1, <2>2 DEF Draft
<1> DEFINE drafts == [i \in DOMAIN files |-> Draft(files[i])]
<1>2. \A i \in DOMAIN files : /\ drafts[i].emp \in Employees \cup {None}
                              /\ drafts[i].period \in Periods \cup {None}
                              /\ drafts[i].auto \in BOOLEAN /\ drafts[i].blocked \in BOOLEAN
  BY <1>1, ListFits
<1>3. \A i : DuplicateIn(drafts, i) \in {"none", "batch", "database"}
  BY DEF DuplicateIn
<1>4. Analysis(files) = [i \in DOMAIN files |->
           [emp |-> drafts[i].emp, period |-> drafts[i].period, auto |-> drafts[i].auto,
            blocked |-> drafts[i].blocked, duplicate |-> DuplicateIn(drafts, i),
            initial |-> SlotOf(drafts[i])]]
  BY DEF Analysis
<1> HIDE DEF drafts
<1>5. \A i \in DOMAIN files :
         SlotOf(drafts[i]) \in (Employees \cup {None}) \X (Periods \cup {None})
  BY <1>2 DEF SlotOf
<1>6. QED
  BY <1>2, <1>3, <1>4, <1>5 DEF Rows

-----------------------------------------------------------------------------
(* The review.                                                             *)
ReviewOK ==
    /\ DOMAIN rows \subseteq DOMAIN filesSent /\ \A i \in DOMAIN rows : rows[i] \in Rows
    /\ dbMap \in [DOMAIN rows -> BOOLEAN] /\ check \subseteq DOMAIN rows /\ edits \in 0..MaxEdits

LEMMA ResolvedFits ==
    ASSUME NEW rs, NEW map, NEW changed, Resolved(rs, map, changed),
           \A i \in DOMAIN rs : map[i] \in BOOLEAN
    PROVE  dbMap' \in [DOMAIN rs -> BOOLEAN] /\ check' \subseteq DOMAIN rs
<1>1. \A i \in DOMAIN rs : Complete(rs[i]) \in BOOLEAN
  BY DEF Complete
<1>2. QED
  BY <1>1 DEF Resolved

LEMMA EmptyReviewFits == EmptyReview => ReviewOK' /\ batchId' = None /\ rows' = <<>>
<1> SUFFICES ASSUME EmptyReview PROVE ReviewOK' /\ batchId' = None /\ rows' = <<>>
  OBVIOUS
<1>1. /\ rows' = <<>> /\ dbMap' = <<>> /\ check' = {} /\ edits' = 0 /\ batchId' = None
  BY DEF EmptyReview
<1>2. DOMAIN rows' = {}
  BY <1>1
<1>3. dbMap' \in [{} -> BOOLEAN]
  BY <1>1
<1>4. 0 \in 0..MaxEdits
  BY MaxEditsAssumption
<1>5. QED
  BY <1>1, <1>2, <1>3, <1>4 DEF ReviewOK

LEMMA EditFits ==
    ASSUME ReviewOK, NEW i \in DOMAIN rows, NEW r \in Rows, Edit(i, r)
    PROVE  ReviewOK'
<1>1. rows' = [rows EXCEPT ![i] = r] /\ Resolved(rows', dbMap, {i}) /\ UNCHANGED filesSent
      /\ edits < MaxEdits /\ edits' = edits + 1
  BY DEF Edit
<1>2. DOMAIN rows' = DOMAIN rows /\ \A j \in DOMAIN rows' : rows'[j] \in Rows
  BY <1>1 DEF ReviewOK
<1>3. dbMap' \in [DOMAIN rows' -> BOOLEAN] /\ check' \subseteq DOMAIN rows'
  BY <1>1, <1>2, ResolvedFits DEF ReviewOK
<1>4. edits' \in 0..MaxEdits
  BY <1>1, MaxEditsAssumption DEF ReviewOK
<1>5. QED
  BY <1>1, <1>2, <1>3, <1>4 DEF ReviewOK

LEMMA AllEdited ==
    ASSUME ReviewOK, NEW p \in Periods, ApplyToAll(p)
    PROVE  ReviewOK'
<1>1. PICK changed : /\ rows' = [i \in DOMAIN rows |-> [rows[i] EXCEPT !.period = p]]
                     /\ Resolved(rows', dbMap, changed) /\ UNCHANGED filesSent
                     /\ edits < MaxEdits /\ edits' = edits + 1
  BY DEF ApplyToAll
<1>2. \A r \in Rows : [r EXCEPT !.period = p] \in Rows
  BY DEF Rows
<1>3. DOMAIN rows' = DOMAIN rows /\ \A j \in DOMAIN rows' : rows'[j] \in Rows
  BY <1>1, <1>2 DEF ReviewOK
<1>4. dbMap' \in [DOMAIN rows' -> BOOLEAN] /\ check' \subseteq DOMAIN rows'
  BY <1>1, <1>3, ResolvedFits DEF ReviewOK
<1>5. edits' \in 0..MaxEdits
  BY <1>1, MaxEditsAssumption DEF ReviewOK
<1>6. QED
  BY <1>1, <1>3, <1>4, <1>5 DEF ReviewOK

LEMMA RowRemoved ==
    ASSUME ReviewOK, NEW i, RemoveRow(i)
    PROVE  ReviewOK'
<1>1. /\ rows' = [j \in DOMAIN rows \ {i} |-> rows[j]] /\ UNCHANGED <<filesSent, edits>>
      /\ dbMap' = [j \in DOMAIN rows \ {i} |-> dbMap[j] \/ rows[j].duplicate = "database"]
      /\ check' = check \ {i}
  BY DEF RemoveRow
<1>2. \A j \in DOMAIN rows : (dbMap[j] \/ rows[j].duplicate = "database") \in BOOLEAN
  OBVIOUS
<1>3. DOMAIN rows' = DOMAIN rows \ {i}
  BY <1>1
<1>4. dbMap' \in [DOMAIN rows' -> BOOLEAN]
  BY <1>1, <1>2, <1>3
<1>5. QED
  BY <1>1, <1>3, <1>4 DEF ReviewOK

LEMMA CheckFits ==
    ASSUME ReviewOK, NEW i, CheckAnswers(i) \/ CheckFails(i)
    PROVE  ReviewOK'
<1>1. /\ UNCHANGED <<rows, filesSent, edits>> /\ check' = check \ {i}
      /\ dbMap' = dbMap \/ dbMap' = [dbMap EXCEPT ![i] = Exists(SlotOf(rows[i]))]
  BY DEF CheckAnswers, CheckFails
<1>2. Exists(SlotOf(rows[i])) \in BOOLEAN
  BY DEF Exists
<1>3. dbMap' \in [DOMAIN rows -> BOOLEAN]
  BY <1>1, <1>2 DEF ReviewOK
<1>4. QED
  BY <1>1, <1>3 DEF ReviewOK

LEMMA ReviewMounted ==
    ASSUME List(filesSent), employed \subseteq Employees, UNCHANGED filesSent,
           NEW b, Analyzed(b)
    PROVE  ReviewOK'
<1>1. /\ rows' = Analysis(filesSent) /\ edits' = 0
      /\ Resolved(rows', [i \in DOMAIN rows' |-> rows'[i].duplicate = "database"], DOMAIN rows')
  BY DEF Analyzed
<1>2. DOMAIN rows' = DOMAIN filesSent /\ \A i \in DOMAIN rows' : rows'[i] \in Rows
  BY <1>1, Analysed
<1>3. dbMap' \in [DOMAIN rows' -> BOOLEAN] /\ check' \subseteq DOMAIN rows'
  <2>1. PICK map : map = [i \in DOMAIN rows' |-> rows'[i].duplicate = "database"]
    OBVIOUS
  <2>2. \A i \in DOMAIN rows' : map[i] \in BOOLEAN
    BY <2>1
  <2>3. QED
    BY <1>1, <2>1, <2>2, ResolvedFits
<1>4. QED
  BY <1>1, <1>2, <1>3, MaxEditsAssumption DEF ReviewOK

-----------------------------------------------------------------------------
(* The flow.                                                               *)
ClientSide == ClientOK /\ FlowInv

LEMMA ClientParts ==
    ClientOK <=> /\ step \in 0..2 /\ analyzing \in BOOLEAN /\ filesSent \in Seq(Files)
                 /\ batchId \in Batches \cup {None} /\ submitting \in Confirms \cup {None}
                 /\ ReviewOK /\ report \in {None} \cup SUBSET Lines
                 /\ step # 1 => rows = <<>> /\ submitting = None
BY DEF ClientOK, ReviewOK

LEMMA BulkParts ==
    ASSUME BulkInv
    PROVE  /\ TypeOK /\ ClientOK /\ FlowInv /\ ReviewOK /\ List(filesSent) /\ ConfirmInv
           /\ employed \subseteq Employees /\ store \in [Batches -> {None} \cup Seq(Files)]
           /\ None \notin Batches /\ None \notin Confirms /\ ClientSide
BY ClientParts, Typed, NoneAssumption DEF BulkInv, TypeOK, FlowInv, ClientSide

(* A step of the review leaves the rest of the flow.                       *)
LEMMA ReviewStep ==
    ASSUME BulkInv, ReviewOK', step = 1 \/ rows' = <<>>,
           UNCHANGED <<server, step, analyzing, filesSent, batchId, submitting, report>>
    PROVE  ClientSide'
<1>1. ClientOK' 
  BY BulkParts, ClientParts DEF ClientOK, ReviewOK
<1>2. FlowInv'
  BY BulkParts DEF FlowInv, server, List
<1>3. QED
  BY <1>1, <1>2 DEF ClientSide

LEMMA ReviewKeeps ==
    ASSUME BulkInv, NEW i \in DOMAIN rows,
           \/ \E e \in Employees : Assign(i, e)
           \/ \E p \in Periods \cup {None} : SetPeriod(i, p)
           \/ CheckAnswers(i) \/ CheckFails(i) \/ RemoveRow(i)
    PROVE  ClientSide'
<1>1. step = 1
  <2>1. rows # <<>>
    OBVIOUS
  <2>2. QED
    BY <2>1, BulkParts DEF ClientOK
<1>2. rows[i] \in Rows
  BY BulkParts DEF ReviewOK
<1>3. ASSUME NEW r \in Rows, Edit(i, r) PROVE ClientSide'
  BY <1>1, <1>3, BulkParts, EditFits, ReviewStep DEF Edit
<1>4. CASE CheckAnswers(i) \/ CheckFails(i)
  BY <1>1, <1>4, BulkParts, CheckFits, ReviewStep DEF CheckAnswers, CheckFails
<1>5. CASE RemoveRow(i)
  BY <1>1, <1>5, BulkParts, RowRemoved, ReviewStep DEF RemoveRow
<1>6. CASE \E e \in Employees : Assign(i, e)
  <2>1. PICK e \in Employees : Edit(i, [rows[i] EXCEPT !.emp = e])
    BY <1>6 DEF Assign
  <2>2. PICK r : r = [rows[i] EXCEPT !.emp = e]
    OBVIOUS
  <2>3. r \in Rows /\ Edit(i, r)
    BY <1>2, <2>1, <2>2 DEF Rows
  <2>4. QED
    BY <1>3, <2>3
<1>7. CASE \E p \in Periods \cup {None} : SetPeriod(i, p)
  <2>1. PICK p \in Periods \cup {None} : Edit(i, [rows[i] EXCEPT !.period = p])
    BY <1>7 DEF SetPeriod
  <2>2. PICK r : r = [rows[i] EXCEPT !.period = p]
    OBVIOUS
  <2>3. r \in Rows /\ Edit(i, r)
    BY <1>2, <2>1, <2>2 DEF Rows
  <2>4. QED
    BY <1>3, <2>3
<1>8. QED
  BY <1>4, <1>5, <1>6, <1>7

LEMMA ApplyToAllKeeps ==
    ASSUME BulkInv, NEW p \in Periods, ApplyToAll(p)
    PROVE  ClientSide'
BY BulkParts, AllEdited, ReviewStep DEF ApplyToAll

(* Analysis.                                                               *)
LEMMA RunAnalyzeKeeps ==
    ASSUME BulkInv, NEW files, List(files), RunAnalyze(files), step # 1, report' = None
    PROVE  ClientSide'
<1>1. /\ step \in 0..2 /\ rows = <<>> /\ submitting = None
      /\ batchId \in Batches \cup {None} /\ ReviewOK
  BY BulkParts DEF ClientOK
<1>2. /\ filesSent' = files /\ analyzing' = TRUE
      /\ UNCHANGED <<step, batchId, rows, dbMap, check, edits, submitting>>
  BY DEF RunAnalyze, review
<1>3. DOMAIN rows = {}
  BY <1>1
<1>4. ReviewOK'
  BY <1>1, <1>2, <1>3 DEF ReviewOK
<1>5. ClientOK'
  BY <1>1, <1>2, <1>4 DEF ClientOK, ReviewOK, List
<1>6. FlowInv'
  BY <1>1, <1>2 DEF FlowInv, List
<1>7. QED
  BY <1>5, <1>6 DEF ClientSide

LEMMA DropKeeps ==
    ASSUME BulkInv, Drop \/ Retry
    PROVE  ClientSide'
<1>1. CASE Drop
  <2>1. PICK files \in Drops : RunAnalyze(files) /\ step = 0 /\ UNCHANGED report
    BY <1>1 DEF Drop
  <2>2. List(files) /\ report' = None
    BY <2>1, BulkParts, DropsAssumption DEF List, FlowInv
  <2>3. QED
    BY <2>1, <2>2, RunAnalyzeKeeps
<1>2. CASE Retry
  <2>1. RunAnalyze(FilesToRetry) /\ step = 2 /\ report' = None /\ List(FilesToRetry)
    BY <1>2, BulkParts, RetryList DEF Retry
  <2>2. QED
    BY <2>1, RunAnalyzeKeeps
<1>3. QED
  BY <1>1, <1>2

LEMMA AnalyzeBulkKeeps ==
    ASSUME BulkInv, NEW b \in Batches, AnalyzeBulk(b)
    PROVE  ClientSide'
<1>1. /\ step # 1 /\ report = None /\ rows = <<>> /\ submitting = None /\ List(filesSent)
      /\ employed \subseteq Employees /\ ReviewOK /\ batchId \in Batches \cup {None} /\ step \in 0..2
  BY BulkParts DEF AnalyzeBulk, FlowInv, ClientOK
<1>2. /\ analyzing' = FALSE /\ UNCHANGED <<filesSent, submitting, report, confirm>>
      /\ store' = [store EXCEPT ![b] = filesSent]
  BY DEF AnalyzeBulk, Kept
<1>3. CASE Analyzed(b)
  <2>1. ReviewOK' /\ step' = 1 /\ batchId' = b
    BY <1>1, <1>2, <1>3, ReviewMounted DEF Analyzed
  <2>2. store'[b] = filesSent
    BY <1>2, BulkParts
  <2>3. ClientOK'
    <3>1. /\ filesSent' \in Seq(Files) /\ step' = 1 /\ analyzing' = FALSE
          /\ submitting' = None /\ report' = None /\ batchId' \in Batches
      BY <1>1, <1>2, <2>1 DEF List
    <3>2. step' \in 0..2 /\ batchId' \in Batches \cup {None}
      BY <3>1
    <3>3. analyzing' \in BOOLEAN
      BY <3>1
    <3>4. submitting' \in Confirms \cup {None} /\ report' \in {None} \cup SUBSET Lines
      BY <3>1
    <3>5. QED
      BY <2>1, <3>1, <3>2, <3>3, <3>4 DEF ClientOK, ReviewOK
  <2>4. FlowInv'
    BY <1>1, <1>2, <2>1, <2>2 DEF FlowInv, List
  <2>5. QED
    BY <2>3, <2>4 DEF ClientSide
<1>4. CASE UNCHANGED <<step, review>>
  <2>1. UNCHANGED <<step, batchId, rows, dbMap, check, edits>>
    BY <1>4 DEF review
  <2>2. ClientOK'
    BY <1>1, <1>2, <2>1 DEF ClientOK, ReviewOK, List
  <2>3. FlowInv'
    BY <1>1, <1>2, <2>1 DEF FlowInv, List
  <2>4. QED
    BY <2>2, <2>3 DEF ClientSide
<1>5. QED
  BY <1>3, <1>4 DEF AnalyzeBulk

LEMMA AnalyzeFailsKeeps ==
    ASSUME BulkInv, AnalyzeFails
    PROVE  ClientSide'
<1>1. UNCHANGED <<store, confirm, step, filesSent, batchId, rows, dbMap, check, edits, submitting, report>>
      /\ analyzing' = FALSE
  BY DEF AnalyzeFails, server, review
<1>2. ClientOK'
  BY <1>1, BulkParts DEF ClientOK
<1>3. FlowInv'
  BY <1>1, BulkParts DEF FlowInv, List
<1>4. QED
  BY <1>2, <1>3 DEF ClientSide

(* Steps that empty the review, or leave it.                               *)
LEMMA LeftReview ==
    ASSUME BulkInv, EmptyReview, step' \in {0, 2}, submitting' = None, UNCHANGED analyzing,
           List(filesSent'), report' \in {None} \cup SUBSET Lines,
           report' # None => /\ step' = 2 /\ ~analyzing
                             /\ \A line \in report' : line.at \in DOMAIN filesSent'
    PROVE  ClientSide'
<1>1. ReviewOK' /\ batchId' = None /\ rows' = <<>> /\ analyzing \in BOOLEAN
  BY EmptyReviewFits, BulkParts DEF ClientOK
<1>2. step' \in 0..2 /\ step' # 1
  OBVIOUS
<1>3. submitting' \in Confirms \cup {None} /\ batchId' \in Batches \cup {None}
  BY <1>1
<1>4. ClientOK'
  BY <1>1, <1>2, <1>3 DEF ClientOK, ReviewOK, List
<1>5. FlowInv'
  BY <1>2 DEF FlowInv, List
<1>6. QED
  BY <1>4, <1>5 DEF ClientSide

LEMMA BackKeeps ==
    ASSUME BulkInv, Back \/ NewDistribution
    PROVE  ClientSide'
<1>1. CASE Back
  <2>1. report = None
    BY <1>1, BulkParts DEF Back, FlowInv
  <2>2. QED
    BY <1>1, <2>1, BulkParts, LeftReview DEF Back, List
<1>2. CASE NewDistribution
  <2>1. submitting = None /\ step = 2
    BY <1>2, BulkParts DEF NewDistribution, ClientOK
  <2>2. List(<<>>)
    BY DEF List, IsInjective
  <2>3. QED
    BY <1>2, <2>1, <2>2, LeftReview DEF NewDistribution
<1>3. QED
  BY <1>1, <1>2

(* Steps that leave the review and the report, and the awaited             *)
(* confirmation or its positions.                                          *)
Awaited == submitting # None =>
              \A line \in confirm[submitting].todo \cup confirm[submitting].lines :
                 line.at \in DOMAIN filesSent

LEMMA SameFlow ==
    ASSUME BulkInv, UNCHANGED <<step, analyzing, filesSent, review, report>>,
           submitting' \in Confirms \cup {None}, step # 1 => submitting' = None, Awaited',
           \A b \in Batches : store'[b] \in {None, store[b]}
    PROVE  ClientSide'
<1>1. UNCHANGED <<step, analyzing, filesSent, batchId, rows, dbMap, check, edits, report>>
  BY DEF review
<1>2. ClientOK'
  BY <1>1, BulkParts DEF ClientOK
<1>3. FlowInv'
  BY <1>1, BulkParts DEF FlowInv, List, Awaited
<1>4. QED
  BY <1>2, <1>3 DEF ClientSide

LEMMA StoreShrinks ==
    ASSUME BulkInv,
           \/ \E b : store' = [store EXCEPT ![b] = None]
           \/ store' = [b \in Batches |-> None] \/ UNCHANGED store
    PROVE  \A b \in Batches : store'[b] \in {None, store[b]}
BY BulkParts

LEMMA AwaitedStays ==
    ASSUME BulkInv, UNCHANGED filesSent, submitting' \in {submitting, None},
           UNCHANGED submitting /\ submitting # None => confirm'[submitting] = confirm[submitting]
    PROVE  Awaited'
BY BulkParts DEF FlowInv, Awaited

LEMMA QuietKeeps ==
    ASSUME BulkInv,
           \/ \E b \in Batches : Expire(b)
           \/ Restart \/ GiveUp
           \/ \E e \in Employees : Leaves(e)
           \/ \E o \in Others, slot \in Slots : OtherUpload(o, slot)
           \/ UNCHANGED vars
    PROVE  ClientSide'
<1>1. /\ UNCHANGED <<step, analyzing, filesSent, review, report>>
      /\ submitting' = None \/ UNCHANGED <<submitting, confirm>>
      /\ \A b \in Batches : store'[b] \in {None, store[b]}
  <2>1. \/ \E b : store' = [store EXCEPT ![b] = None]
        \/ store' = [b \in Batches |-> None] \/ UNCHANGED store
    BY DEF Expire, Restart, GiveUp, Leaves, OtherUpload, vars, server
  <2>2. UNCHANGED <<step, analyzing, filesSent, review, report>>
    BY DEF Expire, Restart, GiveUp, Leaves, OtherUpload, vars, client
  <2>3. submitting' = None \/ UNCHANGED <<submitting, confirm>>
    BY DEF Expire, Restart, GiveUp, Leaves, OtherUpload, vars, client, server
  <2>4. QED
    BY <2>1, <2>2, <2>3, StoreShrinks
<1>2. submitting' \in {submitting, None}
  BY <1>1
<1>3. /\ Awaited' /\ submitting' \in Confirms \cup {None} /\ (step # 1 => submitting' = None)
  BY <1>1, <1>2, AwaitedStays, BulkParts DEF ClientOK
<1>4. QED
  BY <1>1, <1>3, SameFlow

LEMMA DistributeFlow ==
    ASSUME BulkInv, NEW c \in Confirms, Distribute(c)
    PROVE  ClientSide'
<1>1. /\ submitting' = c /\ step = 1 /\ UNCHANGED <<store, step, analyzing, filesSent, review, report>>
      /\ confirm' = [confirm EXCEPT ![c] =
          [at |-> "sent", batch |-> batchId, todo |-> {Asked(i) : i \in ReadyRows}, lines |-> {}]]
  BY DEF Distribute
<1>2. confirm'[c].todo = {Asked(i) : i \in ReadyRows} /\ confirm'[c].lines = {}
  BY <1>1, Typed DEF BulkInv
<1>3. Awaited'
  BY <1>1, <1>2, BulkParts, ReadyFits DEF Awaited
<1>4. \A b \in Batches : store'[b] \in {None, store[b]}
  BY <1>1
<1>5. submitting' \in Confirms \cup {None}
  BY <1>1
<1>6. QED
  BY <1>1, <1>3, <1>4, <1>5, SameFlow

LEMMA ServedFlow ==
    ASSUME BulkInv, NEW c \in Confirms, UploadRead(c) \/ Insert(c)
    PROVE  ClientSide'
<1>1. /\ UNCHANGED client /\ UNCHANGED store /\ confirm[c].todo # {}
      /\ \/ \E ok, retryable \in BOOLEAN : LineOf(c, ok, retryable)
         \/ confirm' = [confirm EXCEPT ![c] = [@ EXCEPT !.at = "insert"]]
  BY DEF UploadRead, Insert, Serves
<1>2. /\ confirm \in [Confirms -> ConfirmRecords] /\ confirm[c] \in ConfirmRecords /\ TypeOK
  BY Typed DEF BulkInv
<1>3. PICK a : a = Current(c) /\ a \in confirm[c].todo
  BY <1>1, <1>2, CurrentIn
<1>4. PICK next : /\ confirm' = [confirm EXCEPT ![c] = next]
                  /\ \A b \in next.todo : b \in confirm[c].todo
                  /\ \A l \in next.lines : l \in confirm[c].lines \/ l.at = a.at
  <2>1. CASE \E ok, retryable \in BOOLEAN : LineOf(c, ok, retryable)
    <3>1. PICK ok, retryable \in BOOLEAN : LineOf(c, ok, retryable)
      BY <2>1
    <3>2. PICK next : /\ confirm' = [confirm EXCEPT ![c] = next]
                      /\ Lined(next, confirm[c], Current(c), CurrentLine(c, ok, retryable))
      BY <1>1, <1>2, <3>1, LineAdded
    <3>3. CurrentLine(c, ok, retryable).at = a.at
      BY <1>3 DEF CurrentLine
    <3>4. QED
      BY <3>2, <3>3 DEF Lined
  <2>2. CASE confirm' = [confirm EXCEPT ![c] = [@ EXCEPT !.at = "insert"]]
    <3>1. PICK next : next = [confirm[c] EXCEPT !.at = "insert"]
      OBVIOUS
    <3>2. next.todo = confirm[c].todo /\ next.lines = confirm[c].lines
      BY <1>2, <3>1 DEF ConfirmRecords
    <3>3. QED
      BY <2>2, <3>1, <3>2
  <2>3. QED
    BY <1>1, <2>1, <2>2
<1>5. UNCHANGED <<step, analyzing, filesSent, review, submitting, report>>
  BY <1>1 DEF client
<1>6. Awaited
  BY BulkParts DEF FlowInv, Awaited
<1>7. Awaited'
  <2> SUFFICES ASSUME submitting # None,
                      NEW line \in confirm'[submitting].todo \cup confirm'[submitting].lines
               PROVE  line.at \in DOMAIN filesSent
    BY <1>5 DEF Awaited
  <2>1. submitting \in Confirms
    BY BulkParts DEF ClientOK
  <2>2. CASE submitting # c
    BY <1>2, <1>4, <1>6, <2>1, <2>2 DEF Awaited
  <2>3. CASE submitting = c
    <3>1. confirm'[submitting] = next
      BY <1>2, <1>4, <2>1, <2>3
    <3>2. line \in confirm[submitting].todo \cup confirm[submitting].lines \/ line.at = a.at
      BY <1>4, <2>3, <3>1
    <3>3. QED
      BY <1>3, <1>6, <2>3, <3>2 DEF Awaited
  <2>4. QED
    BY <2>2, <2>3
<1>8. submitting' \in Confirms \cup {None} /\ (step # 1 => submitting' = None)
  BY <1>5, BulkParts DEF ClientOK
<1>9. \A b \in Batches : store'[b] \in {None, store[b]}
  BY <1>1
<1>10. QED
  BY <1>5, <1>7, <1>8, <1>9, SameFlow

LEMMA AnsweredFlow ==
    ASSUME BulkInv, NEW c \in Confirms, ConfirmBulk(c) \/ ConfirmEnds(c) \/ ConfirmAborts(c)
    PROVE  ClientSide'
<1>1. /\ UNCHANGED <<analyzing, filesSent>>
      /\ \A b \in Batches : store'[b] \in {None, store[b]}
  BY StoreShrinks DEF ConfirmBulk, ConfirmEnds, ConfirmAborts
<1>2. confirm \in [Confirms -> ConfirmRecords] /\ TypeOK
  BY Typed DEF BulkInv
<1>3. CASE Refused(c)
  <2>1. /\ UNCHANGED <<step, review, report>> /\ confirm' = [confirm EXCEPT ![c] = NoConfirm]
        /\ submitting' = IF submitting = c THEN None ELSE submitting
    BY <1>3 DEF Refused
  <2>2. submitting' \in {submitting, None}
    BY <2>1
  <2>3. UNCHANGED submitting /\ submitting # None => confirm'[submitting] = confirm[submitting]
    BY <1>2, <2>1, BulkParts DEF ClientOK
  <2>4. Awaited' /\ submitting' \in Confirms \cup {None} /\ (step # 1 => submitting' = None)
    BY <1>1, <2>2, <2>3, AwaitedStays, BulkParts DEF ClientOK
  <2>5. QED
    BY <1>1, <2>1, <2>4, SameFlow
<1>4. CASE confirm' = [confirm EXCEPT ![c] = [@ EXCEPT !.at = "read"]]
           /\ UNCHANGED <<step, review, submitting, report>>
  <2>1. confirm'[c].todo = confirm[c].todo /\ confirm'[c].lines = confirm[c].lines
        /\ \A b \in Confirms \ {c} : confirm'[b] = confirm[b]
    BY <1>2, <1>4 DEF ConfirmRecords
  <2>2. Awaited' /\ submitting' \in Confirms \cup {None} /\ (step # 1 => submitting' = None)
    BY <1>1, <1>4, <2>1, BulkParts DEF ClientOK, FlowInv, Awaited
  <2>3. QED
    BY <1>1, <1>4, <2>2, SameFlow
<1>5. CASE Distributed(c)
  <2>1. /\ submitting = c /\ report' = confirm[c].lines /\ step' = 2 /\ submitting' = None
        /\ EmptyReview
    BY <1>5 DEF Distributed
  <2>2. step = 1 /\ ~analyzing
    BY <2>1, BulkParts DEF ClientOK, FlowInv
  <2>3. report' \subseteq Lines /\ \A line \in report' : line.at \in DOMAIN filesSent
    BY <1>2, <2>1, BulkParts, Typed DEF FlowInv
  <2>4. List(filesSent')
    BY <1>1, BulkParts
  <2>5. report' \in {None} \cup SUBSET Lines
    BY <2>3
  <2>6. QED
    BY <1>1, <2>1, <2>2, <2>3, <2>4, <2>5, LeftReview
<1>6. QED
  BY <1>3, <1>4, <1>5 DEF ConfirmBulk, ConfirmEnds, ConfirmAborts

LEMMA BulkNextKeeps == BulkInv /\ [Next]_vars => BulkInv'
<1> SUFFICES ASSUME BulkInv, [Next]_vars PROVE ClientSide'
  BY ServerKeeps DEF BulkInv, TypeOK, ClientSide
<1>1. QED
  BY QuietKeeps, AnsweredFlow, ServedFlow, DistributeFlow, BackKeeps, AnalyzeFailsKeeps,
     AnalyzeBulkKeeps, DropKeeps, ApplyToAllKeeps, ReviewKeeps DEF Next

LEMMA BulkInit == Init => BulkInv
<1> SUFFICES ASSUME Init PROVE BulkInv
  OBVIOUS
<1>1. ServerOK /\ ConfirmInv
  BY NoConfirmTyped DEF Init, ServerOK, ConfirmInv, OneByOne, Due, LinesTrue
<1>2. List(<<>>)
  BY DEF List, IsInjective
<1>3. FlowInv
  BY <1>2 DEF Init, FlowInv
<1>4. DOMAIN rows = {} /\ 0 \in 0..MaxEdits /\ dbMap \in [{} -> BOOLEAN]
  BY MaxEditsAssumption DEF Init
<1>5. /\ analyzing \in BOOLEAN /\ filesSent \in Seq(Files) /\ check \subseteq DOMAIN rows
      /\ batchId \in Batches \cup {None} /\ submitting \in Confirms \cup {None}
  BY <1>2 DEF Init, List
<1>6. edits \in 0..MaxEdits /\ report \in {None} \cup SUBSET Lines /\ step \in 0..2
      /\ rows = <<>> /\ submitting = None
  BY <1>4 DEF Init
<1>7. ClientOK
  BY <1>4, <1>5, <1>6 DEF ClientOK
<1>8. QED
  BY <1>1, <1>3, <1>7 DEF BulkInv, TypeOK

LEMMA BulkHolds == Spec => []BulkInv
BY BulkInit, BulkNextKeeps, PTL DEF Spec

-----------------------------------------------------------------------------
(* The types of the flow and of the server's part.                         *)
THEOREM BulkTyped == Spec => []TypeOK
BY BulkHolds, PTL DEF BulkInv

(* A position names the same file for the client and in the batch it is    *)
(* reviewing, as long as the server has the batch.                         *)
THEOREM SamePositions == Spec => []PositionsAgree
<1>1. BulkInv => PositionsAgree
  BY DEF BulkInv, FlowInv, PositionsAgree
<1>2. QED
  BY <1>1, BulkHolds, PTL

(* What a confirmation reports it has done: a success is a payslip it      *)
(* created, what may be tried again it did not create unless its insert    *)
(* was committed and lost its answer, with any number of confirmations of  *)
(* one batch and of colleagues' uploads at work.                           *)
THEOREM LinesTellTruth == Spec => []ReportTrue
<1>1. BulkInv => ReportTrue
  BY DEF BulkInv, ConfirmInv, ReportTrue
<1>2. QED
  BY <1>1, BulkHolds, PTL

(* The rows of one confirmation are of different employees or periods.     *)
THEOREM NoRowAgainstAnother == Spec => []NoSelfConflict
<1>1. BulkInv => NoSelfConflict
  BY DEF BulkInv, ConfirmInv, OneByOne, NoSelfConflict
<1>2. QED
  BY <1>1, BulkHolds, PTL

(* The retry analyses the files of the technical failures, and no other.   *)
THEOREM RetryExact == Spec => RetrySendsFailures
<1>1. ASSUME BulkInv, Retry, NEW f \in Files
      PROVE  (\E n \in DOMAIN filesSent' : filesSent'[n] = f)
                <=> \E l \in report : l.retryable /\ filesSent[l.at] = f
  <2>1. List(filesSent) /\ report # None /\ \A l \in report : l.at \in DOMAIN filesSent
    BY <1>1 DEF BulkInv, FlowInv, Retry
  <2>2. filesSent' = FilesToRetry
    BY <1>1 DEF Retry, RunAnalyze
  <2>3. (\E n \in DOMAIN filesSent' : filesSent'[n] = f)
           <=> \E i \in ToRetry \cap DOMAIN filesSent : filesSent[i] = f
    BY <2>1, <2>2, RetryList
  <2>4. \A i : i \in ToRetry <=> \E l \in report : l.retryable /\ l.at = i
    BY DEF ToRetry, RetryAt
  <2>5. QED
    BY <2>1, <2>3, <2>4
<1>2. BulkInv => [Retry => \A f \in Files :
          (\E n \in DOMAIN filesSent' : filesSent'[n] = f)
             <=> \E l \in report : l.retryable /\ filesSent[l.at] = f]_vars
  BY <1>1
<1>3. QED
  BY <1>2, BulkHolds, PTL DEF RetrySendsFailures

=============================================================================
