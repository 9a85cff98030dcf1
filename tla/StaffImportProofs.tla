-------------------------- MODULE StaffImportProofs ---------------------------
(***************************************************************************)
(* Proofs about StaffImport, for any file, any company, any number of      *)
(* commits that the page sends or gives up, and any HR handlers between    *)
(* their steps: what an import leaves in the organisation keeps its keys,  *)
(* the report of a commit is true, no row is refused for another row of    *)
(* its batch, and a commit keeps what the dry run promised.                *)
(***************************************************************************)
EXTENDS StaffImport, OrganisationProofs, WellFoundedInduction, NaturalsInduction

(* What a commit has still to do, what it has answered, and what it made.  *)
Pending(state) == state.todo \cup state.buffer
Answered(state) == {i \in Lines : state.lines[i] # NoLine}
Made(c) == {m \in Staff : staff[m].by = c}
Apart(i, j) == File[i].mat # File[j].mat /\ File[i].email # File[j].email

(* ReportTrue for one commit, with what makes it inductive: a line that is *)
(* still to do names an account the commit did not make, unless the        *)
(* database failed after writing; and shares neither the matricule nor the *)
(* e-mail with any line of the commit, done or to do.                      *)
Faithful(state, made) ==
    /\ \A i \in Answered(state) :
          /\ state.lines[i].status = "created" => File[i].mat \in made
          /\ File[i].mat \in made /\ ~state.lost /\ state.lines[i].cause # "failed"
                => state.lines[i].status = "created"
    /\ \A i \in Pending(state) : File[i].mat \in made => state.lost
    /\ state.at \in {"idle", "sent", "placed"} => made = {} /\ state.buffer = {}
    /\ state.at \in {"idle", "sent"} => Answered(state) = {}
    /\ state.at \in {"flush", "fallback"} => state.buffer # {}
    /\ state.at \notin {"idle", "sent"} =>
          \A i \in Pending(state), j \in Pending(state) \cup Answered(state) :
             i # j => Apart(i, j)

(* A name the file does not have is mapped to nothing.                     *)
Mapped == /\ FileDepartment = None => mapped.department = None
          /\ FileService = None => mapped.service = None

ImportInv == /\ OrgInv /\ ImportOK /\ Mapped
             /\ \A c \in Commits : Faithful(commit[c], Made(c))

-----------------------------------------------------------------------------
(* Lines.                                                                  *)
LEMMA LinesNatural ==
    /\ Lines \subseteq Nat
    /\ IsFiniteSet(Lines)
    /\ \E n \in Nat : \A i \in Lines : i <= n
    /\ \A i \in Lines : File[i].mat \in Matricules /\ File[i].email \in Emails
<1>1. Lines = 1..Len(File) /\ Len(File) \in Nat
  BY FileAssumption DEF Lines
<1>2. IsFiniteSet(1..Len(File))
  BY <1>1, FS_Interval
<1> DEFINE rows == [mat: Matricules, email: Emails, dated: BOOLEAN]
<1>3. \A i \in Lines : File[i] \in rows
  <2>1. File \in Seq(rows)
    BY FileAssumption
  <2> HIDE DEF rows
  <2>2. QED
    BY <1>1, <2>1
<1>4. \A i \in Lines : File[i].mat \in Matricules /\ File[i].email \in Emails
  BY <1>3
<1> HIDE DEF rows
<1>5. Lines \subseteq Nat /\ \A i \in Lines : i <= Len(File)
  BY <1>1
<1>6. QED
  BY <1>1, <1>2, <1>4, <1>5

LEMMA NatLess == \A i, j \in Nat : <<i, j>> \in OpToRel(<, Nat) <=> i < j
BY DEF OpToRel

LEMMA FirstIn ==
    ASSUME NEW lines \in SUBSET Lines, lines # {}
    PROVE  First(lines) \in lines /\ \A j \in lines : First(lines) <= j
<1>1. lines \subseteq Nat
  BY LinesNatural
<1>2. PICK i \in lines : \A j \in lines : <<j, i>> \notin OpToRel(<, Nat)
  BY <1>1, WFMin, NatLessThanWellFounded
<1>3. \A j \in lines : i <= j
  <2>1. \A j \in lines : i \in Nat /\ j \in Nat /\ ~(j < i)
    BY <1>1, <1>2, NatLess
  <2>2. QED
    BY <2>1
<1>4. QED
  BY <1>3 DEF First

LEMMA LastIn ==
    ASSUME NEW lines \in SUBSET Lines, lines # {}
    PROVE  \E i \in lines : \A j \in lines : j <= i
<1>1. PICK n \in Nat : \A i \in Lines : i <= n
  BY LinesNatural
<1>2. lines \subseteq Nat
  BY LinesNatural
<1> DEFINE left == {n - i : i \in lines}
<1>3. left \subseteq Nat /\ left # {}
  <2>1. \A i \in lines : n - i \in Nat
    BY <1>1, <1>2
  <2>2. QED
    BY <2>1
<1>4. PICK k \in left : \A j \in left : <<j, k>> \notin OpToRel(<, Nat)
  <2> HIDE DEF left
  <2>1. QED
    BY <1>3, WFMin, NatLessThanWellFounded
<1>5. \A j \in left : k <= j
  <2> HIDE DEF left
  <2>1. \A j \in left : k \in Nat /\ j \in Nat /\ ~(j < k)
    BY <1>3, <1>4, NatLess
  <2>2. QED
    BY <2>1
<1>6. PICK i \in lines : k = n - i
  BY <1>4
<1>7. \A j \in lines : n - i <= n - j
  BY <1>5, <1>6
<1>8. QED
  BY <1>1, <1>2, <1>7

-----------------------------------------------------------------------------
(* What the operators of a commit do to its record.                        *)
LineRecords == [status: {"none", "created", "updated", "error"},
                cause: {"-", "row", "taken", "refused", "failed"}]

LEMMA RecordFields ==
    ASSUME NEW state \in CommitRecords
    PROVE  /\ state.at \in {"idle", "sent", "placed", "rows", "flush", "fallback", "done"}
           /\ state.todo \in SUBSET Lines /\ state.buffer \in SUBSET Lines
           /\ state.ours \in SUBSET Lines /\ state.taken \in SUBSET Lines
           /\ state.place \in Places \cup {Refused} /\ state.lost \in BOOLEAN
           /\ state.lines \in [Lines -> LineRecords]
           /\ Pending(state) \in SUBSET Lines /\ Answered(state) \in SUBSET Lines
BY DEF CommitRecords, LineRecords, Pending, Answered

(* "told" is "state" with "which" answered by "line".                      *)
AnsweredFrom(told, state, which, line) ==
    /\ told \in CommitRecords
    /\ told.at = state.at /\ told.todo = state.todo /\ told.buffer = state.buffer
    /\ told.ours = state.ours /\ told.taken = state.taken
    /\ told.place = state.place /\ told.lost = state.lost
    /\ \A i \in Lines : told.lines[i] = IF i \in which THEN line ELSE state.lines[i]
    /\ \A i : i \in Answered(told) <=> i \in Answered(state) \cup which

LEMMA AnswerRecord ==
    ASSUME NEW state, state \in CommitRecords, NEW which, which \subseteq Lines,
           NEW line, line \in LineRecords, line # NoLine
    PROVE  AnsweredFrom(Answer(state, which, line), state, which, line)
<1> DEFINE lines == [i \in Lines |-> IF i \in which THEN line ELSE state.lines[i]]
<1>1. lines \in [Lines -> LineRecords]
  BY RecordFields
<1>2. Answer(state, which, line) = [state EXCEPT !.lines = lines]
  BY DEF Answer
<1>3. \A i \in Lines : lines[i] = IF i \in which THEN line ELSE state.lines[i]
  OBVIOUS
<1> HIDE DEF lines
<1>4. /\ [state EXCEPT !.lines = lines] \in CommitRecords
      /\ [state EXCEPT !.lines = lines].lines = lines
      /\ [state EXCEPT !.lines = lines].at = state.at
      /\ [state EXCEPT !.lines = lines].todo = state.todo
      /\ [state EXCEPT !.lines = lines].buffer = state.buffer
      /\ [state EXCEPT !.lines = lines].ours = state.ours
      /\ [state EXCEPT !.lines = lines].taken = state.taken
      /\ [state EXCEPT !.lines = lines].place = state.place
      /\ [state EXCEPT !.lines = lines].lost = state.lost
  BY <1>1 DEF CommitRecords, LineRecords
<1>5. \A i : i \in Answered([state EXCEPT !.lines = lines]) <=> i \in Answered(state) \cup which
  BY <1>3, <1>4 DEF Answered
<1>6. QED
  BY <1>2, <1>3, <1>4, <1>5 DEF AnsweredFrom

(* The batch: no more creations than a batch may have.                     *)
LEMMA BatchFits ==
    ASSUME NEW state \in CommitRecords
    PROVE  /\ Batch(state) \subseteq state.todo
           /\ Cardinality(Batch(state)) <= CreateBatch
           /\ \A i \in Batch(state) : Creates(state, i)
           /\ Batch(state) = {} /\ state.todo # {} => ~Creates(state, First(state.todo))
<1>1. state.todo \in SUBSET Lines /\ Batch(state) \in SUBSET Lines
      /\ Batch(state) \subseteq state.todo
  BY RecordFields DEF Batch
<1>2. ASSUME NEW i \in Batch(state) PROVE Creates(state, i)
  <2>1. i \in state.todo /\ i \in Nat
    BY <1>1, LinesNatural
  <2>2. i \in UpTo(state.todo, i)
    BY <2>1 DEF UpTo
  <2>3. QED
    BY <2>2 DEF Batch
<1>3. Cardinality(Batch(state)) <= CreateBatch
  <2>1. CASE Batch(state) = {}
    BY <2>1, FS_EmptySet, CreateBatchAssumption
  <2>2. CASE Batch(state) # {}
    <3>1. PICK i \in Batch(state) : \A j \in Batch(state) : j <= i
      BY <1>1, <2>2, LastIn
    <3>2. Batch(state) \subseteq UpTo(state.todo, i) /\ UpTo(state.todo, i) \subseteq Lines
      BY <1>1, <3>1 DEF UpTo
    <3>3. IsFiniteSet(UpTo(state.todo, i)) /\ IsFiniteSet(Batch(state))
      BY <1>1, <3>2, LinesNatural, FS_Subset
    <3>4. Cardinality(Batch(state)) <= Cardinality(UpTo(state.todo, i))
      BY <3>2, <3>3, FS_Subset
    <3>5. Cardinality(UpTo(state.todo, i)) <= CreateBatch
      BY DEF Batch
    <3>6. Cardinality(Batch(state)) \in Nat /\ Cardinality(UpTo(state.todo, i)) \in Nat
      BY <3>3, FS_CardinalityType
    <3>7. QED
      BY <3>4, <3>5, <3>6, CreateBatchAssumption
  <2>3. QED
    BY <2>1, <2>2
<1>4. Batch(state) = {} /\ state.todo # {} => ~Creates(state, First(state.todo))
  <2> SUFFICES ASSUME state.todo # {}, Creates(state, First(state.todo))
               PROVE  Batch(state) # {}
    OBVIOUS
  <2>1. PICK i \in state.todo : i = First(state.todo) /\ \A j \in state.todo : i <= j
    BY <1>1, FirstIn
  <2>2. UpTo(state.todo, i) = {i}
    <3>1. \A j \in state.todo : j \in Nat /\ i <= j
      BY <1>1, <2>1, LinesNatural
    <3>2. \A j \in state.todo : j <= i <=> j = i
      BY <3>1
    <3>3. QED
      BY <3>2 DEF UpTo
  <2>3. Cardinality(UpTo(state.todo, i)) <= CreateBatch
    <3>1. Cardinality({i}) = 1
      BY FS_Singleton
    <3>2. CreateBatch \in Nat /\ 1 <= CreateBatch
      BY CreateBatchAssumption
    <3>3. QED
      BY <2>2, <3>1, <3>2
  <2>4. i \in Batch(state)
    BY <2>1, <2>2, <2>3 DEF Batch
  <2>5. QED
    BY <2>4
<1>5. QED
  BY <1>1, <1>2, <1>3, <1>4

(* "next" is "state" advanced to where the loop waits next.                *)
AdvancedFrom(next, state) ==
    /\ next \in CommitRecords
    /\ next.at \in {"rows", "flush"} /\ (next.at = "flush" => next.buffer # {})
    /\ \A i : i \in Pending(next) <=> i \in state.todo
    /\ \A i \in next.todo : i \in state.todo /\ i \notin next.buffer
    /\ Cardinality(next.buffer) <= CreateBatch
    /\ next.lines = state.lines /\ next.place = state.place /\ next.lost = state.lost
    /\ \A i : i \in Answered(next) <=> i \in Answered(state)
    /\ \A i \in next.todo : /\ i \in next.ours <=> i \in state.ours
                            /\ i \in next.taken <=> i \in state.taken
    /\ \A i \in next.buffer : i \notin state.ours \cup state.taken
    /\ next.at = "rows" =>
         next.buffer = {} /\ (next.todo # {} => ~Creates(next, First(next.todo)))

LEMMA AdvanceRecord ==
    ASSUME NEW state, state \in CommitRecords
    PROVE  AdvancedFrom(Advance(state), state)
<1> DEFINE batch == Batch(state)
           rest == state.todo \ batch
           at == IF batch = {} THEN "rows" ELSE "flush"
           next == [state EXCEPT !.at = at, !.buffer = batch, !.todo = rest,
                                 !.ours = state.ours \cap rest, !.taken = state.taken \cap rest]
<1>1. Advance(state) = next
  BY DEF Advance
<1>2. /\ batch \subseteq state.todo /\ Cardinality(batch) <= CreateBatch
      /\ \A i \in batch : i \notin state.ours \cup state.taken
      /\ batch = {} /\ state.todo # {} => ~Creates(state, First(state.todo))
  BY BatchFits DEF Creates
<1> HIDE DEF batch
<1>3. at \in {"rows", "flush"} /\ (at = "rows" <=> batch = {})
  OBVIOUS
<1>4. rest \in SUBSET Lines /\ batch \in SUBSET Lines
      /\ state.ours \cap rest \in SUBSET Lines /\ state.taken \cap rest \in SUBSET Lines
  BY <1>2, RecordFields
<1>5. rest \cup batch = state.todo /\ rest \cap batch = {}
  BY <1>2
<1> DEFINE ours == state.ours \cap rest
           taken == state.taken \cap rest
<1> HIDE DEF at, rest
<1>6. /\ next \in CommitRecords /\ next.at = at /\ next.buffer = batch /\ next.todo = rest
      /\ next.ours = state.ours \cap rest /\ next.taken = state.taken \cap rest
      /\ next.lines = state.lines /\ next.place = state.place /\ next.lost = state.lost
  BY <1>3, <1>4 DEF CommitRecords
<1> HIDE DEF next
<1>7. /\ \A i : i \in Pending(next) <=> i \in state.todo
      /\ \A i : i \in Answered(next) <=> i \in Answered(state)
  BY <1>5, <1>6 DEF Pending, Answered
<1>8. next.at = "rows" => next.buffer = {} /\ (next.todo # {} => ~Creates(next, First(next.todo)))
  <2> SUFFICES ASSUME next.at = "rows", next.todo # {}
               PROVE  ~Creates(next, First(next.todo))
    BY <1>3, <1>6
  <2>1. next.todo = state.todo
    BY <1>3, <1>5, <1>6
  <2>2. ~Creates(state, First(state.todo)) /\ First(state.todo) \in state.todo
    BY <1>2, <1>3, <1>6, <2>1, FirstIn, RecordFields
  <2>3. QED
    BY <1>6, <2>1, <2>2 DEF Creates
<1>9. QED
  BY <1>1, <1>2, <1>3, <1>5, <1>6, <1>7, <1>8 DEF AdvancedFrom

-----------------------------------------------------------------------------
(* The accounts: what a step of an import adds to the organisation.        *)

(* Accounts for rows that fit, of which no two are of one matricule or     *)
(* e-mail, keep the keys, and are made by this commit.                     *)
LEMMA CreatedKeeps ==
    ASSUME OrgInv, NEW c \in Commits, NEW rows \in SUBSET Lines,
           \A i \in rows : RowFits(c, i), \A i, j \in rows : i # j => Apart(i, j),
           Created(c, rows), UNCHANGED org
    PROVE  /\ OrgInv'
           /\ Made(c)' = Made(c) \cup {File[i].mat : i \in rows}
           /\ \A b \in Commits \ {c} : Made(b)' = Made(b)
           /\ Staff' = Staff \cup {File[i].mat : i \in rows}
           /\ \A m \in Staff : staff'[m] = staff[m]
           /\ \A i \in rows : staff'[File[i].mat].email = File[i].email
<1> DEFINE place == commit[c].place
           row(i) == Account(File[i].email, place.department, place.service, c)
<1>1. ASSUME NEW i \in rows
      PROVE  /\ row(i) \in AccountRows /\ row(i).email = File[i].email
             /\ row(i).department \in Live(department) \cup {None}
             /\ row(i).service \in Live(service) \cup {None} /\ row(i).by = c
             /\ File[i].mat \in Matricules /\ File[i].mat \notin Staff
             /\ ~EmailTaken(File[i].email)
  <2>1. RowFits(c, i) /\ File[i].email \in Emails /\ File[i].mat \in Matricules
    BY LinesNatural
  <2>2. place.department \in Live(department) \cup {None} /\ place.department \in Departments \cup {None}
    BY <2>1, LiveRows DEF RowFits, OrgInv
  <2>3. place.service \in Live(service) \cup {None} /\ place.service \in Services \cup {None}
    BY <2>1, LiveRows DEF RowFits, OrgInv
  <2>4. row(i) \in AccountRows
    BY <2>1, <2>2, <2>3, CommitsAssumption DEF AccountRows, Account
  <2>5. QED
    BY <2>1, <2>2, <2>3, <2>4 DEF Account, RowFits
<1>2. ASSUME NEW m \in Matricules
      PROVE  \/ \E i \in rows : File[i].mat = m /\ staff'[m] = row(i)
             \/ (\A i \in rows : File[i].mat # m) /\ staff'[m] = staff[m]
  <2>1. CASE \E i \in rows : File[i].mat = m
    <3>1. PICK i : i \in rows /\ File[i].mat = m /\ i = CHOOSE j \in rows : File[j].mat = m
      BY <2>1
    <3>2. staff'[m] = row(i)
      BY <2>1, <3>1 DEF Created
    <3>3. QED
      BY <3>1, <3>2
  <2>2. CASE \A i \in rows : File[i].mat # m
    BY <2>2 DEF Created
  <2>3. QED
    BY <2>1, <2>2
<1> HIDE DEF row
<1>3. \A i \in rows : staff'[File[i].mat] = row(i)
  BY <1>1, <1>2 DEF Apart
<1>4. \A m \in Staff : staff'[m] = staff[m] /\ m \in Matricules
  BY <1>1, <1>2 DEF Staff, StaffIn
<1>5. Staff' = Staff \cup {File[i].mat : i \in rows}
  <2>1. \A i \in rows : staff'[File[i].mat] # None /\ File[i].mat \in Matricules
    BY <1>1, <1>3, NoneAssumption
  <2>2. \A m \in Matricules : staff'[m] # None => m \in Staff \cup {File[i].mat : i \in rows}
    BY <1>2 DEF Staff, StaffIn
  <2>3. \A m \in Staff : staff'[m] # None
    BY <1>4 DEF Staff, StaffIn
  <2>4. QED
    BY <1>4, <2>1, <2>2, <2>3 DEF Staff, StaffIn
<1>6. OrgInv'
  <2>1. staff' \in [Matricules -> AccountRows \cup {None}]
    <3>1. \A m \in Matricules : staff'[m] \in AccountRows \cup {None}
      BY <1>1, <1>2 DEF OrgInv, StaffOK, StaffFits
    <3>2. staff' = [m \in Matricules |-> staff'[m]]
      BY DEF Created
    <3>3. QED
      BY <3>1, <3>2
  <2>2. UNCHANGED <<direction, department, service>>
    BY DEF org
  <2>3. \A m \in Staff' : \/ m \in Staff /\ staff'[m] = staff[m]
                          \/ \E i \in rows : m = File[i].mat /\ staff'[m] = row(i)
    BY <1>3, <1>4, <1>5
  <2>4. \A m \in Staff' : /\ staff'[m].email \notin ElsewhereEmails
                          /\ staff'[m].department \in Live(department) \cup {None}
                          /\ staff'[m].service \in Live(service) \cup {None}
    BY <1>1, <2>3 DEF OrgInv, StaffOK, StaffFits, Staff, EmailTaken
  <2>5. \A k, m \in Staff' : staff'[k].email = staff'[m].email => k = m
    BY <1>1, <2>3 DEF OrgInv, StaffOK, StaffFits, Staff, EmailTaken, Apart
  <2>6. QED
    BY <2>1, <2>2, <2>4, <2>5 DEF OrgInv, OrgOK, StaffOK, StaffFits, Staff
<1>7. Made(c)' = Made(c) \cup {File[i].mat : i \in rows}
  BY <1>1, <1>3, <1>4, <1>5 DEF Made
<1>8. \A b \in Commits \ {c} : Made(b)' = Made(b)
  BY <1>1, <1>3, <1>4, <1>5 DEF Made
<1>9. QED
  BY <1>1, <1>3, <1>4, <1>5, <1>6, <1>7, <1>8

LEMMA MadeStays ==
    ASSUME AccountsStay
    PROVE  \A c \in Commits : Made(c)' = Made(c)
BY CommitsAssumption DEF AccountsStay, Made

LEMMA SameAccounts ==
    ASSUME Staff' = Staff, \A k \in Staff : staff'[k].by = staff[k].by
    PROVE  \A c \in Commits : Made(c)' = Made(c)
BY DEF Made

-----------------------------------------------------------------------------
(* The report: lines that are answered.                                    *)
-----------------------------------------------------------------------------
(* What a step of one commit keeps.                                        *)
ClientOK ==
    /\ page \in {"mapping", "decided", "validating", "validated", "imported"}
    /\ mapped \in [department: Departments \cup {None}, service: Services \cup {None},
                   byName: BOOLEAN]
    /\ dry = <<>> \/ dry \in [Lines -> {"error", "fileError", "update", "ready"}]
    /\ quiet \in BOOLEAN /\ waiting \in Commits \cup {None}
WellKept(state) ==
    /\ state.todo \cap state.buffer = {}
    /\ Pending(state) \cap Answered(state) = {}
    /\ Cardinality(state.buffer) <= CreateBatch

LEMMA ImportParts ==
    ImportOK <=> /\ ClientOK /\ commit \in [Commits -> CommitRecords]
                 /\ \A c \in Commits : WellKept(commit[c])
BY DEF ImportOK, ClientOK, WellKept, Pending, Answered, Told

(* "next" comes after "state" with the lines "which" answered by "line",   *)
(* and the accounts the commit has made grow by those of these lines.      *)
AnswersOnly(next, state, which, line) ==
    /\ next \in CommitRecords
    /\ next.lost = state.lost
    /\ \A i \in Lines : next.lines[i] = IF i \in which THEN line ELSE state.lines[i]
    /\ \A i : i \in Answered(next) <=> i \in Answered(state) \cup which
Settles(next, state, which, line) ==
    /\ AnswersOnly(next, state, which, line)
    /\ next.at \in {"rows", "flush", "fallback"} /\ (next.at # "rows" => next.buffer # {})
    /\ \A i \in Pending(next) : i \in Pending(state) /\ i \notin which
    /\ WellKept(next)
Grows(new, made, which, line) ==
    /\ made \subseteq new
    /\ \A m \in new \ made : \E i \in which : m = File[i].mat
    /\ line.status = "created" => \A i \in which : File[i].mat \in new
    /\ line.status # "created" /\ line.cause # "failed" => new = made

LEMMA AnswerFaithful ==
    ASSUME NEW state, state \in CommitRecords, NEW next,
           NEW made, NEW new, NEW which, which \subseteq Pending(state), NEW line,
           Faithful(state, made), state.at \notin {"idle", "sent"},
           Settles(next, state, which, line), Grows(new, made, which, line)
    PROVE  Faithful(next, new)
<1> USE DEF Settles, AnswersOnly, Grows
<1>1. Pending(state) \subseteq Lines /\ Answered(state) \subseteq Lines
  BY RecordFields
<1>2. \A i \in Pending(state), j \in Pending(state) \cup Answered(state) : i # j => Apart(i, j)
  BY DEF Faithful
<1>3. ASSUME NEW i \in Answered(next)
      PROVE  /\ next.lines[i].status = "created" => File[i].mat \in new
             /\ File[i].mat \in new /\ ~next.lost /\ next.lines[i].cause # "failed"
                   => next.lines[i].status = "created"
  <2>1. CASE i \in which
    BY <1>1, <2>1 DEF Faithful
  <2>2. CASE i \notin which
    <3>1. i \in Answered(state) /\ next.lines[i] = state.lines[i]
      BY <1>1, <2>2
    <3>2. File[i].mat \in new => File[i].mat \in made
      BY <1>2, <2>2, <3>1 DEF Apart
    <3>3. QED
      BY <3>1, <3>2 DEF Faithful
  <2>3. QED
    BY <2>1, <2>2
<1>4. ASSUME NEW i \in Pending(next), File[i].mat \in new PROVE next.lost
  <2>1. File[i].mat \in made
    BY <1>2, <1>4 DEF Apart
  <2>2. QED
    BY <2>1 DEF Faithful
<1>5. \A i \in Pending(next), j \in Pending(next) \cup Answered(next) : i # j => Apart(i, j)
  BY <1>2
<1>6. QED
  BY <1>3, <1>4, <1>5 DEF Faithful

LEMMA CommitStep ==
    ASSUME ImportInv, NEW c \in Commits, NEW next \in CommitRecords,
           commit' = [commit EXCEPT ![c] = next], WellKept(next),
           OrgInv', ClientOK', UNCHANGED mapped,
           Faithful(next, Made(c)'), \A b \in Commits \ {c} : Made(b)' = Made(b)
    PROVE  ImportInv'
<1>1. commit \in [Commits -> CommitRecords] /\ \A b \in Commits : WellKept(commit[b])
  BY ImportParts DEF ImportInv
<1>2. /\ commit' \in [Commits -> CommitRecords]
      /\ \A b \in Commits : commit'[b] = IF b = c THEN next ELSE commit[b]
  BY <1>1
<1>3. \A b \in Commits : WellKept(commit'[b])
  BY <1>1, <1>2
<1>4. ImportOK'
  BY <1>2, <1>3 DEF ImportOK, ClientOK, WellKept, Pending, Answered, Told
<1>5. \A b \in Commits : Faithful(commit'[b], Made(b)')
  BY <1>2 DEF ImportInv
<1>6. Mapped'
  BY DEF ImportInv, Mapped
<1>7. QED
  BY <1>4, <1>5, <1>6 DEF ImportInv

(* Of the steps that leave the client alone, or end its wait.              *)
LEMMA ClientStays ==
    ASSUME ImportInv, UNCHANGED <<page, mapped, dry, waiting>>, quiet' \in BOOLEAN
    PROVE  ClientOK'
BY DEF ImportInv, ImportOK, ClientOK

LEMMA CommitTyped ==
    ASSUME ImportInv, NEW c \in Commits
    PROVE  /\ commit[c] \in CommitRecords /\ WellKept(commit[c]) /\ Faithful(commit[c], Made(c))
           /\ quiet \in BOOLEAN
BY ImportParts DEF ImportInv, ClientOK

LEMMA ReadsOrgKeeps ==
    ASSUME ImportInv, NEW c \in Commits, CommitReadsOrg(c)
    PROVE  ImportInv'
<1> DEFINE state == commit[c]
<1>1. state \in CommitRecords /\ WellKept(state) /\ Faithful(state, Made(c)) /\ quiet \in BOOLEAN
  BY CommitTyped
<1>2. PICK place \in Resolutions : commit' = [commit EXCEPT ![c] =
           [Answer(state, {i \in state.todo : place = Refused \/ TwiceInFile(state.todo, i)},
                   Error("row")) EXCEPT
              !.at = "placed", !.place = place,
              !.todo = state.todo \ {i \in state.todo : place = Refused \/ TwiceInFile(state.todo, i)}]]
  BY DEF CommitReadsOrg
<1>3. PICK bad : bad = {i \in state.todo : place = Refused \/ TwiceInFile(state.todo, i)}
  OBVIOUS
<1>4. state.at = "sent" /\ UNCHANGED <<client, orgVars>>
  BY DEF CommitReadsOrg
<1>5. bad \in SUBSET Lines /\ bad \subseteq state.todo /\ Error("row") \in LineRecords /\ Error("row") # NoLine
      /\ Error("row").status = "error"
  BY <1>1, <1>3, RecordFields DEF Error, Line, LineRecords, NoLine
<1> DEFINE told == Answer(state, bad, Error("row"))
           next == [told EXCEPT !.at = "placed", !.place = place, !.todo = state.todo \ bad]
<1>6. commit' = [commit EXCEPT ![c] = next]
  BY <1>2, <1>3
<1>7. /\ told \in CommitRecords /\ told.todo = state.todo /\ told.buffer = state.buffer
      /\ told.lost = state.lost
      /\ \A i : i \in Answered(told) <=> i \in Answered(state) \cup bad
      /\ \A i \in Lines : told.lines[i] = IF i \in bad THEN Error("row") ELSE state.lines[i]
  <2>1. AnsweredFrom(told, state, bad, Error("row"))
    BY <1>1, <1>5, AnswerRecord
  <2> HIDE DEF told
  <2>2. QED
    BY <2>1 DEF AnsweredFrom
<1>8. place \in Places \cup {Refused}
  <2>1. \A s \in Live(service) : service[s].department \in Departments \cup {None}
    BY LiveRows DEF ImportInv, OrgInv, ServiceRows
  <2>2. \A d, s : PlaceOf(d, s) \in Places \cup {Refused}
    BY <2>1, LiveRows DEF PlaceOf, Places, ImportInv, OrgInv
  <2>3. QED
    BY <2>2 DEF Resolutions
<1>9. state.todo \ bad \in SUBSET Lines /\ state.buffer = {} /\ Made(c) = {} /\ Answered(state) = {}
  BY <1>1, <1>4, RecordFields DEF Faithful
<1>10. \A i \in state.todo \ bad, j \in state.todo : i # j => Apart(i, j)
  BY <1>3 DEF TwiceInFile, Apart
<1> HIDE DEF state, told
<1>11. /\ next \in CommitRecords /\ next.at = "placed" /\ next.todo = state.todo \ bad
       /\ next.buffer = told.buffer /\ next.lines = told.lines /\ next.lost = told.lost
  BY <1>7, <1>8, <1>9 DEF CommitRecords
<1> HIDE DEF next
<1>12. Answered(next) = bad /\ Pending(next) = state.todo \ bad
  BY <1>7, <1>9, <1>11 DEF Answered, Pending
<1>13. WellKept(next)
  BY <1>1, <1>7, <1>9, <1>11, <1>12 DEF WellKept
<1>14. Made(c)' = Made(c) /\ \A b \in Commits \ {c} : Made(b)' = Made(b)
  BY <1>4 DEF orgVars, Made, Staff
<1>15. \A i \in bad : next.lines[i] = Error("row")
  BY <1>5, <1>7, <1>11
<1>16. Faithful(next, {})
  BY <1>5, <1>7, <1>9, <1>10, <1>11, <1>12, <1>15 DEF Faithful
<1>17. OrgInv'
  BY <1>4 DEF ImportInv, OrgInv, OrgOK, StaffOK, orgVars, org
<1>18. ClientOK'
  BY <1>4, ClientStays, <1>1 DEF client
<1>19. QED
  BY <1>4, <1>6, <1>9, <1>11, <1>13, <1>14, <1>16, <1>17, <1>18, CommitStep DEF client

(* The same before the loop goes on.                                       *)
Follows(mid, state, which, line) ==
    /\ AnswersOnly(mid, state, which, line)
    /\ mid.place = state.place /\ mid.todo = state.todo \ which
    /\ mid.ours = state.ours /\ mid.taken = state.taken

(* The loop goes on after lines are answered.                              *)
LEMMA AdvanceSettles ==
    ASSUME NEW state, NEW mid, NEW which, NEW line,
           AnswersOnly(mid, state, which, line), WellKept(state),
           \A i \in mid.todo : i \in Pending(state) /\ i \notin which
    PROVE  Settles(Advance(mid), state, which, line)
<1> DEFINE next == Advance(mid)
<1>1. AdvancedFrom(next, mid)
  BY AdvanceRecord DEF AnswersOnly
<1> HIDE DEF next
<1>2. AnswersOnly(next, state, which, line)
  BY <1>1 DEF AnswersOnly, AdvancedFrom
<1>3. \A i \in Pending(next) : i \in Pending(state) /\ i \notin which
  BY <1>1 DEF AdvancedFrom
<1>4. WellKept(next)
  <2>1. next.todo \cap next.buffer = {} /\ Cardinality(next.buffer) <= CreateBatch
    BY <1>1 DEF AdvancedFrom
  <2>2. Pending(next) \cap Answered(next) = {}
    BY <1>2, <1>3 DEF WellKept, AnswersOnly
  <2>3. QED
    BY <2>1, <2>2 DEF WellKept
<1>5. next.at \in {"rows", "flush"} /\ (next.at # "rows" => next.buffer # {})
  BY <1>1 DEF AdvancedFrom
<1>6. Settles(next, state, which, line)
  BY <1>2, <1>3, <1>4, <1>5 DEF Settles
<1>7. QED
  BY <1>6 DEF next

LEMMA SettleStep ==
    ASSUME ImportInv, NEW c \in Commits, NEW next,
           commit' = [commit EXCEPT ![c] = next], commit[c].at \notin {"idle", "sent"},
           NEW which, which \subseteq Pending(commit[c]), NEW line,
           Settles(next, commit[c], which, line),
           OrgInv', UNCHANGED <<page, mapped, dry, waiting>>, quiet' \in BOOLEAN,
           Grows(Made(c)', Made(c), which, line), \A b \in Commits \ {c} : Made(b)' = Made(b)
    PROVE  ImportInv'
<1>1. PICK state : state = commit[c]
  OBVIOUS
<1>2. state \in CommitRecords /\ Faithful(state, Made(c))
  BY <1>1, CommitTyped
<1>3. Faithful(next, Made(c)')
  BY <1>1, <1>2, AnswerFaithful
<1>4. next \in CommitRecords /\ WellKept(next)
  BY DEF Settles, AnswersOnly
<1>5. ClientOK'
  BY ClientStays
<1>6. QED
  BY <1>3, <1>4, <1>5, CommitStep

LEMMA OrgUnchanged ==
    ASSUME OrgInv, UNCHANGED <<org, staff>>
    PROVE  OrgInv' /\ \A c \in Commits : Made(c)' = Made(c)
BY DEF OrgInv, OrgOK, StaffOK, org, Made, Staff

(* The steps of the loop that answer the next line.                        *)
LEMMA NextLineSettles ==
    ASSUME ImportInv, NEW c \in Commits, HasLine(c), NEW line, line \in LineRecords,
           line # NoLine, AnswerNext(c, line)
    PROVE  /\ {NextLine(c)} \subseteq Pending(commit[c]) /\ NextLine(c) \in Lines
           /\ commit[c].at \notin {"idle", "sent"}
           /\ \E mid : /\ commit' = [commit EXCEPT ![c] = Advance(mid)]
                       /\ Follows(mid, commit[c], {NextLine(c)}, line)
                       /\ Settles(Advance(mid), commit[c], {NextLine(c)}, line)
<1>1. PICK state : state = commit[c]
  OBVIOUS
<1>2. state \in CommitRecords /\ WellKept(state) /\ state.todo # {} /\ state.at = "rows"
      /\ state.todo \in SUBSET Lines
  BY <1>1, CommitTyped, RecordFields DEF HasLine, Serves
<1>3. PICK i : i = NextLine(c)
  OBVIOUS
<1>4. i \in state.todo
  BY <1>1, <1>2, <1>3, FirstIn DEF NextLine
<1> DEFINE told == Answer(state, {i}, line)
           mid == [told EXCEPT !.todo = told.todo \ {i}]
<1>5. commit' = [commit EXCEPT ![c] = Advance(mid)]
  BY <1>1, <1>3 DEF AnswerNext
<1>6. AnsweredFrom(told, state, {i}, line)
  <2>1. {i} \subseteq Lines
    BY <1>2, <1>4
  <2>2. QED
    BY <1>2, <2>1, AnswerRecord
<1> HIDE DEF told
<1>7. /\ mid \in CommitRecords /\ mid.todo = told.todo \ {i} /\ mid.lost = told.lost
      /\ mid.lines = told.lines /\ mid.place = told.place /\ mid.ours = told.ours
      /\ mid.taken = told.taken
  BY <1>6 DEF AnsweredFrom, CommitRecords
<1> HIDE DEF mid
<1>8. AnswersOnly(mid, state, {i}, line) /\ Follows(mid, state, {i}, line)
  BY <1>6, <1>7 DEF Follows, AnswersOnly, AnsweredFrom, Answered
<1>9. \A j \in mid.todo : j \in Pending(state) /\ j \notin {i}
  BY <1>8 DEF Pending, Follows
<1>10. Settles(Advance(mid), state, {i}, line)
  BY <1>2, <1>8, <1>9, AdvanceSettles
<1>11. {i} \subseteq Pending(state) /\ i \in Lines
  BY <1>2, <1>4 DEF Pending
<1>12. QED
  BY <1>1, <1>2, <1>3, <1>5, <1>8, <1>10, <1>11

LEMMA LinesAnswered ==
    /\ \A cause \in {"row", "taken", "refused", "failed"} :
          /\ Error(cause) \in LineRecords /\ Error(cause) # NoLine
          /\ Error(cause).status = "error" /\ Error(cause).cause = cause
    /\ \A status \in {"created", "updated"} :
          /\ Line(status, "-") \in LineRecords /\ Line(status, "-") # NoLine
          /\ Line(status, "-").status = status /\ Line(status, "-").cause = "-"
BY DEF Error, Line, LineRecords, NoLine

LEMMA RefuseKeeps ==
    ASSUME ImportInv, NEW c \in Commits, RefuseRow(c)
    PROVE  ImportInv'
<1>1. HasLine(c) /\ AnswerNext(c, Error("taken")) /\ UNCHANGED <<client, orgVars>>
  BY DEF RefuseRow
<1>2. OrgInv' /\ \A b \in Commits : Made(b)' = Made(b)
  BY <1>1, OrgUnchanged DEF ImportInv, orgVars
<1>3. Grows(Made(c)', Made(c), {NextLine(c)}, Error("taken"))
  BY <1>2, LinesAnswered DEF Grows
<1>4. quiet' \in BOOLEAN /\ UNCHANGED <<page, mapped, dry, waiting>>
  BY <1>1, CommitTyped DEF client
<1>5. QED
  BY <1>1, <1>2, <1>3, <1>4, NextLineSettles, LinesAnswered, SettleStep

LEMMA UpdateRowKeeps ==
    ASSUME ImportInv, NEW c \in Commits, UpdateRow(c)
    PROVE  ImportInv'
<1>1. PICK m, e, p : m = File[NextLine(c)].mat /\ e = File[NextLine(c)].email /\ p = commit[c].place
  OBVIOUS
<1>2. PICK d, s : d = Given(p.department, staff[m].department) /\ s = Given(p.service, staff[m].service)
  OBVIOUS
<1>3. HasLine(c) /\ UNCHANGED <<org, page, mapped, dry, waiting>>
  BY DEF UpdateRow
<1>4. PICK line : /\ AnswerNext(c, line)
                  /\ line \in {Line("updated", "-"), Error("refused"), Error("failed")}
                  /\ quiet' \in BOOLEAN
                  /\ \/ UpdateFits(m, e, d, s, p # NoPlace) /\ Updated(m, e, d, s)
                     \/ UNCHANGED staff
  <2>1. quiet \in BOOLEAN
    BY CommitTyped
  <2>2. QED
    BY <1>1, <1>2, <2>1 DEF UpdateRow
<1>5. line \in LineRecords /\ line # NoLine /\ line.status # "created"
  BY <1>4, LinesAnswered
<1>6. NextLine(c) \in Lines
  BY <1>3, <1>4, <1>5, NextLineSettles
<1>7. OrgInv' /\ \A b \in Commits : Made(b)' = Made(b)
  <2>1. CASE UNCHANGED staff
    BY <1>3, <2>1, OrgUnchanged DEF ImportInv
  <2>2. CASE UpdateFits(m, e, d, s, p # NoPlace) /\ Updated(m, e, d, s)
    <3>1. m \in Staff /\ e \in Emails
      BY <1>1, <1>6, <2>2, LinesNatural DEF UpdateFits
    <3>2. ~(p # NoPlace) => d = staff[m].department /\ s = staff[m].service
      BY <1>2 DEF NoPlace, Given
    <3>3. staff[m].department \in Departments \cup {None} /\ staff[m].service \in Services \cup {None}
      BY <3>1, StaffRows DEF ImportInv, OrgInv, AccountRows
    <3>4. d \in Departments \cup {None} /\ s \in Services \cup {None}
      BY <2>2, <3>2, <3>3, LiveRows DEF UpdateFits, AssignmentFits, ImportInv, OrgInv
    <3>5. OrgInv' /\ Staff' = Staff /\ \A k \in Staff : staff'[k].by = staff[k].by
      <4>1. OrgInv /\ UNCHANGED org
        BY <1>3 DEF ImportInv
      <4> DEFINE asked == p # NoPlace
      <4>2. UpdateFits(m, e, d, s, asked)
        BY <2>2
      <4>3. ~asked => d = staff[m].department /\ s = staff[m].service
        BY <3>2
      <4> HIDE DEF asked
      <4>4. QED
        BY <2>2, <3>1, <3>4, <4>1, <4>2, <4>3, UpdateKeeps
    <3>6. QED
      BY <3>5, SameAccounts
  <2>3. QED
    BY <1>4, <2>1, <2>2
<1>8. Grows(Made(c)', Made(c), {NextLine(c)}, line)
  BY <1>5, <1>7 DEF Grows
<1>9. QED
  BY <1>3, <1>4, <1>5, <1>7, <1>8, NextLineSettles, SettleStep

LEMMA ReadsStaffKeeps ==
    ASSUME ImportInv, NEW c \in Commits, CommitReadsStaff(c)
    PROVE  ImportInv'
<1>1. PICK state : state = commit[c]
  OBVIOUS
<1>2. state \in CommitRecords /\ WellKept(state) /\ state.at = "placed"
  BY <1>1, CommitTyped DEF CommitReadsStaff
<1>3. PICK ours, taken : /\ ours = {i \in commit[c].todo : File[i].mat \in Staff}
                         /\ taken = {i \in commit[c].todo : EmailTaken(File[i].email) /\ ~OwnEmail(i)}
  OBVIOUS
<1>4. ours \in SUBSET Lines /\ taken \in SUBSET Lines
  BY <1>1, <1>2, <1>3, RecordFields
<1> DEFINE mid == [state EXCEPT !.ours = ours, !.taken = taken]
<1>5. commit' = [commit EXCEPT ![c] = Advance(mid)] /\ UNCHANGED <<client, orgVars>>
  BY <1>1, <1>3 DEF CommitReadsStaff
<1>6. /\ mid \in CommitRecords /\ mid.todo = state.todo /\ mid.lost = state.lost
      /\ mid.lines = state.lines
  BY <1>2, <1>4 DEF CommitRecords
<1> HIDE DEF mid
<1>7. AnswersOnly(mid, state, {}, NoLine)
  BY <1>6 DEF AnswersOnly, Answered
<1>8. \A i \in mid.todo : i \in Pending(state) /\ i \notin {}
  BY <1>6 DEF Pending
<1>9. Settles(Advance(mid), state, {}, NoLine)
  BY <1>2, <1>7, <1>8, AdvanceSettles
<1>10. OrgInv' /\ \A b \in Commits : Made(b)' = Made(b)
  BY <1>5, OrgUnchanged DEF ImportInv, orgVars
<1>11. Grows(Made(c)', Made(c), {}, NoLine)
  BY <1>10 DEF Grows
<1>12. quiet' \in BOOLEAN /\ UNCHANGED <<page, mapped, dry, waiting>>
  BY <1>5, CommitTyped DEF client
<1>13. QED
  BY <1>1, <1>2, <1>5, <1>9, <1>10, <1>11, <1>12, SettleStep

(* All of the buffer is created.                                           *)
LEMMA BufferFits ==
    ASSUME ImportInv, NEW c \in Commits, Serves(c, "flush")
    PROVE  /\ commit[c].buffer \in SUBSET Lines /\ commit[c].at \notin {"idle", "sent"}
           /\ commit[c].buffer \subseteq Pending(commit[c])
           /\ \A i, j \in commit[c].buffer : i # j => Apart(i, j)
BY CommitTyped, RecordFields DEF Faithful, Serves, Pending

LEMMA BufferSettles ==
    ASSUME ImportInv, NEW c \in Commits, Serves(c, "flush"), BulkDone(c)
    PROVE  \E mid : /\ commit' = [commit EXCEPT ![c] = Advance(mid)]
                    /\ Follows(mid, commit[c], commit[c].buffer, Line("created", "-"))
                    /\ Settles(Advance(mid), commit[c], commit[c].buffer, Line("created", "-"))
<1>1. PICK state, rows : state = commit[c] /\ rows = commit[c].buffer
  OBVIOUS
<1>2. rows \in SUBSET Lines /\ state \in CommitRecords /\ WellKept(state)
  BY <1>1, CommitTyped, BufferFits
<1> DEFINE told == Answer(state, rows, Line("created", "-"))
<1>3. commit' = [commit EXCEPT ![c] = Advance(told)]
  BY <1>1 DEF BulkDone
<1>4. AnsweredFrom(told, state, rows, Line("created", "-"))
  BY <1>2, AnswerRecord, LinesAnswered
<1> HIDE DEF told
<1>5. told.todo = state.todo \ rows
  BY <1>1, <1>2, <1>4 DEF WellKept, AnsweredFrom
<1>6. /\ AnswersOnly(told, state, rows, Line("created", "-"))
      /\ Follows(told, state, rows, Line("created", "-"))
  BY <1>4, <1>5 DEF Follows, AnswersOnly, AnsweredFrom
<1>7. \A i \in told.todo : i \in Pending(state) /\ i \notin rows
  BY <1>5 DEF Pending
<1>8. Settles(Advance(told), state, rows, Line("created", "-"))
  BY <1>2, <1>6, <1>7, AdvanceSettles
<1>9. QED
  BY <1>1, <1>3, <1>6, <1>8

LEMMA BulkCreatesKeeps ==
    ASSUME ImportInv, NEW c \in Commits, BulkCreates(c)
    PROVE  ImportInv'
<1>1. PICK rows : rows = commit[c].buffer
  OBVIOUS
<1>2. /\ Serves(c, "flush") /\ \A i \in rows : RowFits(c, i)
      /\ Created(c, rows) /\ BulkDone(c) /\ UNCHANGED <<org, changes, client>>
  BY <1>1 DEF BulkCreates
<1>3. /\ rows \in SUBSET Lines /\ commit[c].at \notin {"idle", "sent"}
      /\ rows \subseteq Pending(commit[c]) /\ \A i, j \in rows : i # j => Apart(i, j)
  BY <1>1, <1>2, BufferFits
<1>4. /\ OrgInv' /\ Made(c)' = Made(c) \cup {File[i].mat : i \in rows}
      /\ \A b \in Commits \ {c} : Made(b)' = Made(b)
  BY <1>2, <1>3, CreatedKeeps DEF ImportInv
<1>5. Grows(Made(c)', Made(c), rows, Line("created", "-"))
  <2>1. Line("created", "-").status = "created"
    BY LinesAnswered
  <2>2. QED
    BY <1>4, <2>1 DEF Grows
<1>6. quiet' \in BOOLEAN /\ UNCHANGED <<page, mapped, dry, waiting>>
  BY <1>2, CommitTyped DEF client
<1>7. QED
  BY <1>1, <1>2, <1>3, <1>4, <1>5, <1>6, BufferSettles, SettleStep

(* The batch is not made, and is tried row by row.                         *)
LEMMA ToFallback ==
    ASSUME ImportInv, NEW c \in Commits, Serves(c, "flush"), UNCHANGED <<org, staff>>,
           commit' = [commit EXCEPT ![c] = [@ EXCEPT !.at = "fallback"]],
           UNCHANGED <<page, mapped, dry, waiting>>, quiet' \in BOOLEAN
    PROVE  ImportInv'
<1>1. PICK state : state = commit[c]
  OBVIOUS
<1>2. state \in CommitRecords /\ WellKept(state) /\ state.at = "flush" /\ state.buffer # {}
  BY <1>1, CommitTyped DEF Serves, Faithful
<1> DEFINE next == [state EXCEPT !.at = "fallback"]
<1>3. commit' = [commit EXCEPT ![c] = next]
  BY <1>1
<1>4. /\ next \in CommitRecords /\ next.at = "fallback" /\ next.todo = state.todo
      /\ next.buffer = state.buffer /\ next.lost = state.lost /\ next.lines = state.lines
  BY <1>2 DEF CommitRecords
<1> HIDE DEF next
<1>5. Settles(next, state, {}, NoLine)
  BY <1>2, <1>4 DEF Settles, AnswersOnly, WellKept, Pending, Answered
<1>6. OrgInv' /\ \A b \in Commits : Made(b)' = Made(b)
  BY OrgUnchanged DEF ImportInv
<1>7. Grows(Made(c)', Made(c), {}, NoLine)
  BY <1>6 DEF Grows
<1>8. QED
  BY <1>1, <1>2, <1>3, <1>5, <1>6, <1>7, SettleStep

LEMMA BulkRefusedKeeps ==
    ASSUME ImportInv, NEW c \in Commits, BulkRefused(c)
    PROVE  ImportInv'
BY ToFallback, CommitTyped DEF BulkRefused, orgVars, client

LEMMA BulkFailsKeeps ==
    ASSUME ImportInv, NEW c \in Commits, BulkFails(c)
    PROVE  ImportInv'
<1>1. Serves(c, "flush") /\ quiet' = FALSE /\ UNCHANGED <<org, page, mapped, dry, waiting>>
  BY DEF BulkFails
<1>2. CASE commit' = [commit EXCEPT ![c] = [@ EXCEPT !.at = "fallback"]] /\ UNCHANGED staff
  BY <1>1, <1>2, ToFallback
<1>3. CASE /\ \A i \in commit[c].buffer : RowFits(c, i)
           /\ Created(c, commit[c].buffer)
           /\ commit' = [commit EXCEPT ![c] = [@ EXCEPT !.at = "fallback", !.lost = TRUE]]
  <2>1. PICK state, rows : state = commit[c] /\ rows = commit[c].buffer
    OBVIOUS
  <2>2. /\ rows \in SUBSET Lines /\ state.at \notin {"idle", "sent"} /\ rows \subseteq Pending(state)
        /\ \A i, j \in rows : i # j => Apart(i, j)
    BY <1>1, <2>1, BufferFits
  <2>3. state \in CommitRecords /\ WellKept(state) /\ Faithful(state, Made(c)) /\ state.at = "flush"
    BY <1>1, <2>1, CommitTyped DEF Serves
  <2>4. /\ OrgInv' /\ Made(c)' = Made(c) \cup {File[i].mat : i \in rows}
        /\ \A b \in Commits \ {c} : Made(b)' = Made(b)
    BY <1>1, <1>3, <2>1, <2>2, CreatedKeeps DEF ImportInv
  <2> DEFINE next == [state EXCEPT !.at = "fallback", !.lost = TRUE]
  <2>5. commit' = [commit EXCEPT ![c] = next]
    BY <1>3, <2>1
  <2>6. /\ next \in CommitRecords /\ next.at = "fallback" /\ next.todo = state.todo
        /\ next.buffer = state.buffer /\ next.lost = TRUE /\ next.lines = state.lines
    BY <2>3 DEF CommitRecords
  <2> HIDE DEF next
  <2>7. Pending(next) = Pending(state) /\ Answered(next) = Answered(state)
    BY <2>6 DEF Pending, Answered
  <2>8. WellKept(next)
    BY <2>3, <2>6, <2>7 DEF WellKept
  <2>9. Made(c) \subseteq Made(c)'
    BY <2>4
  <2>10. Faithful(next, Made(c)')
    BY <2>2, <2>3, <2>6, <2>7, <2>9 DEF Faithful
  <2>11. ClientOK'
    BY <1>1, ClientStays
  <2>12. QED
    BY <1>1, <2>4, <2>5, <2>6, <2>8, <2>10, <2>11, CommitStep
<1>4. QED
  BY <1>2, <1>3 DEF BulkFails

(* The rows one by one.                                                    *)
LEMMA InvitedSettles ==
    ASSUME ImportInv, NEW c \in Commits, Serves(c, "fallback"), NEW line, line \in LineRecords,
           line # NoLine, AnswerInvited(c, line)
    PROVE  LET i == First(commit[c].buffer) IN
           /\ i \in Lines /\ i \in commit[c].buffer /\ {i} \subseteq Pending(commit[c])
           /\ \E next : /\ commit' = [commit EXCEPT ![c] = next]
                        /\ Settles(next, commit[c], {i}, line)
<1>1. PICK state : state = commit[c]
  OBVIOUS
<1>2. /\ state \in CommitRecords /\ WellKept(state) /\ state.at = "fallback" /\ state.buffer # {}
      /\ state.buffer \in SUBSET Lines
  BY <1>1, CommitTyped, RecordFields DEF Serves, Faithful
<1>3. PICK i : i = First(commit[c].buffer)
  OBVIOUS
<1>4. i \in state.buffer /\ i \in Lines /\ {i} \subseteq Pending(state)
  BY <1>1, <1>2, <1>3, FirstIn DEF Pending
<1> DEFINE told == Answer(state, {i}, line)
           mid == [told EXCEPT !.buffer = told.buffer \ {i}]
<1>5. commit' = [commit EXCEPT ![c] = IF mid.buffer = {} THEN Advance(mid) ELSE mid]
  BY <1>1, <1>3 DEF AnswerInvited
<1>6. AnsweredFrom(told, state, {i}, line)
  <2>1. {i} \subseteq Lines
    BY <1>4
  <2>2. QED
    BY <1>2, <2>1, AnswerRecord
<1> HIDE DEF told
<1>7. /\ mid \in CommitRecords /\ mid.buffer = state.buffer \ {i} /\ mid.todo = state.todo
      /\ mid.lost = told.lost /\ mid.lines = told.lines /\ mid.at = "fallback"
  BY <1>2, <1>6 DEF AnsweredFrom, CommitRecords
<1> HIDE DEF mid
<1>8. AnswersOnly(mid, state, {i}, line)
  BY <1>6, <1>7 DEF AnswersOnly, AnsweredFrom, Answered
<1>9. CASE mid.buffer = {}
  <2>1. \A j \in mid.todo : j \in Pending(state) /\ j \notin {i}
    BY <1>2, <1>4, <1>7 DEF Pending, WellKept
  <2>2. Settles(Advance(mid), state, {i}, line)
    BY <1>2, <1>8, <2>1, AdvanceSettles
  <2>3. commit' = [commit EXCEPT ![c] = Advance(mid)]
    BY <1>5, <1>9
  <2>4. QED
    BY <1>1, <1>3, <1>4, <2>2, <2>3
<1>10. CASE mid.buffer # {}
  <2>1. \A j \in Pending(mid) : j \in Pending(state) /\ j \notin {i}
    BY <1>2, <1>4, <1>7 DEF Pending, WellKept
  <2>2. Cardinality(mid.buffer) <= CreateBatch
    <3>1. IsFiniteSet(state.buffer)
      BY <1>2, LinesNatural, FS_Subset
    <3>2. /\ Cardinality(mid.buffer) <= Cardinality(state.buffer) /\ IsFiniteSet(mid.buffer)
      BY <1>7, <3>1, FS_Subset
    <3>3. Cardinality(mid.buffer) \in Nat /\ Cardinality(state.buffer) \in Nat
      BY <3>1, <3>2, FS_CardinalityType
    <3>4. QED
      BY <1>2, <3>2, <3>3, CreateBatchAssumption DEF WellKept
  <2>3. WellKept(mid)
    BY <1>2, <1>7, <1>8, <2>1, <2>2 DEF WellKept, AnswersOnly
  <2>4. Settles(mid, state, {i}, line)
    BY <1>7, <1>8, <1>10, <2>1, <2>3 DEF Settles
  <2>5. commit' = [commit EXCEPT ![c] = mid]
    BY <1>5, <1>10
  <2>6. QED
    BY <1>1, <1>3, <1>4, <2>4, <2>5
<1>11. QED
  BY <1>9, <1>10

(* An invitation that is accepted is of a row that fits.                   *)
LEMMA InvitedFits ==
    ASSUME NEW c \in Commits, NEW i \in Lines,
           InviteFits(File[i].mat, File[i].email, commit[c].place.department, commit[c].place.service)
    PROVE  RowFits(c, i)
BY DEF InviteFits, RowFits, AssignmentFits

LEMMA FallbackKeeps ==
    ASSUME ImportInv, NEW c \in Commits, FallbackRow(c)
    PROVE  ImportInv'
<1>1. PICK i : i = First(commit[c].buffer)
  OBVIOUS
<1>2. Serves(c, "fallback") /\ UNCHANGED <<org, page, mapped, dry, waiting>>
  BY DEF FallbackRow
<1> DEFINE fits == InviteFits(File[i].mat, File[i].email,
                              commit[c].place.department, commit[c].place.service)
<1>3. PICK line :
         /\ AnswerInvited(c, line) /\ line \in LineRecords /\ line # NoLine
         /\ quiet' \in BOOLEAN
         /\ \/ fits /\ Created(c, {i}) /\ line = Line("created", "-")
            \/ UNCHANGED staff /\ line.status # "created"
            \/ fits /\ Created(c, {i}) /\ line = Error("failed")
  <2>1. quiet \in BOOLEAN
    BY CommitTyped
  <2>2. QED
    BY <1>1, <2>1, LinesAnswered DEF FallbackRow
<1>4. i \in Lines /\ {i} \subseteq Pending(commit[c])
  BY <1>1, <1>2, <1>3, InvitedSettles
<1>5. CASE UNCHANGED staff /\ line.status # "created"
  <2>1. OrgInv' /\ \A b \in Commits : Made(b)' = Made(b)
    BY <1>2, <1>5, OrgUnchanged DEF ImportInv
  <2>2. Grows(Made(c)', Made(c), {i}, line)
    BY <1>5, <2>1 DEF Grows
  <2>3. QED
    BY <1>1, <1>2, <1>3, <2>1, <2>2, InvitedSettles, SettleStep DEF Serves
<1>6. CASE fits /\ Created(c, {i}) /\ line \in {Line("created", "-"), Error("failed")}
  <2>1. {i} \in SUBSET Lines /\ \A j \in {i} : RowFits(c, j)
    BY <1>4, <1>6, InvitedFits
  <2>2. \A j, k \in {i} : j # k => Apart(j, k)
    OBVIOUS
  <2>3. /\ OrgInv' /\ Made(c)' = Made(c) \cup {File[j].mat : j \in {i}}
        /\ \A b \in Commits \ {c} : Made(b)' = Made(b)
    BY <1>2, <1>6, <2>1, <2>2, CreatedKeeps DEF ImportInv
  <2>4. Grows(Made(c)', Made(c), {i}, line)
    <3>1. line.status = "created" \/ line.cause = "failed"
      BY <1>6, LinesAnswered
    <3>2. QED
      BY <2>3, <3>1 DEF Grows
  <2>5. QED
    BY <1>1, <1>2, <1>3, <2>3, <2>4, InvitedSettles, SettleStep DEF Serves
<1>7. QED
  BY <1>3, <1>5, <1>6

LEMMA AnswersKeeps ==
    ASSUME ImportInv, NEW c \in Commits, CommitAnswers(c)
    PROVE  ImportInv'
<1> DEFINE next == [IdleCommit EXCEPT !.at = "done"]
<1>1. commit' = [commit EXCEPT ![c] = next] /\ UNCHANGED <<mapped, dry, quiet, orgVars>>
      /\ page' \in {page, "imported"} /\ waiting' \in {waiting, None}
  BY DEF CommitAnswers
<1>2. [i \in Lines |-> NoLine] \in [Lines -> LineRecords]
  BY DEF NoLine, Line, LineRecords
<1>3. IdleCommit \in CommitRecords
  <2>1. NoPlace \in Places \cup {Refused}
    BY DEF NoPlace, Places
  <2>2. QED
    BY <1>2, <2>1 DEF IdleCommit, CommitRecords, LineRecords
<1>4. /\ next \in CommitRecords /\ next.at = "done" /\ next.todo = {} /\ next.buffer = {}
      /\ \A i \in Lines : next.lines[i] = NoLine
  BY <1>3 DEF IdleCommit, CommitRecords
<1> HIDE DEF next
<1>5. Pending(next) = {} /\ Answered(next) = {}
  BY <1>4 DEF Pending, Answered
<1>6. WellKept(next) /\ Faithful(next, Made(c)')
  BY <1>4, <1>5, FS_EmptySet, CreateBatchAssumption DEF WellKept, Faithful
<1>7. OrgInv' /\ \A b \in Commits : Made(b)' = Made(b)
  BY <1>1, OrgUnchanged DEF ImportInv, orgVars
<1>8. ClientOK'
  BY <1>1, ImportParts DEF ImportInv, ClientOK
<1>9. QED
  BY <1>1, <1>4, <1>6, <1>7, <1>8, CommitStep

-----------------------------------------------------------------------------
(* The page.                                                               *)
LEMMA PageStep ==
    ASSUME ImportInv, UNCHANGED commit, OrgInv', ClientOK', Mapped',
           \A c \in Commits : Made(c)' = Made(c)
    PROVE  ImportInv'
<1>1. commit \in [Commits -> CommitRecords] /\ \A b \in Commits : WellKept(commit[b])
  BY ImportParts DEF ImportInv
<1>2. ImportOK'
  BY <1>1 DEF ImportOK, ClientOK, WellKept, Pending, Answered, Told
<1>3. \A c \in Commits : Faithful(commit[c], Made(c))'
  BY DEF ImportInv
<1>4. QED
  BY <1>2, <1>3 DEF ImportInv

LEMMA PlainPageSteps ==
    ASSUME ImportInv, SkipResolution \/ Resolve \/ ValidateImportRows \/ GiveUp
    PROVE  ImportInv'
<1>1. UNCHANGED <<commit, orgVars>>
  BY DEF SkipResolution, Resolve, ValidateImportRows, GiveUp
<1>2. OrgInv' /\ \A c \in Commits : Made(c)' = Made(c)
  BY <1>1, OrgUnchanged DEF ImportInv, orgVars
<1>3. ClientOK /\ Mapped
  BY ImportParts DEF ImportInv
<1>4. ClientOK' /\ Mapped'
  <2>1. CASE SkipResolution
    BY <1>3, <2>1 DEF SkipResolution, ClientOK, Mapped
  <2>2. CASE Resolve
    <3>1. PICK d, s : /\ d \in MayMapTo(department, FileDepartment)
                      /\ s \in MayMapTo(service, FileService)
                      /\ mapped' = [department |-> d, service |-> s, byName |-> FALSE]
      BY <2>2 DEF Resolve
    <3>2. d \in Departments \cup {None} /\ s \in Services \cup {None}
      BY <3>1 DEF MayMapTo, Similar, Named, Live, Drawable, ImportInv, OrgInv, OrgOK, OrgFits
    <3>3. (FileDepartment = None => d = None) /\ (FileService = None => s = None)
      BY <3>1 DEF MayMapTo
    <3>4. ClientOK'
      BY <1>3, <2>2, <3>1, <3>2 DEF Resolve, ClientOK
    <3>5. Mapped'
      BY <3>1, <3>3 DEF Mapped
    <3>6. QED
      BY <3>4, <3>5
  <2>3. CASE ValidateImportRows
    <3>1. PICK place : dry' = [i \in Lines |-> Status(i, place)]
      BY <2>3 DEF ValidateImportRows
    <3>2. \A i \in Lines : Status(i, place) \in {"error", "fileError", "update", "ready"}
      BY DEF Status
    <3>3. dry' \in [Lines -> {"error", "fileError", "update", "ready"}]
      BY <3>1, <3>2
    <3>4. quiet' \in BOOLEAN
      BY <2>3 DEF ValidateImportRows
    <3>5. QED
      BY <1>3, <2>3, <3>3, <3>4 DEF ValidateImportRows, ClientOK, Mapped
  <2>4. CASE GiveUp
    BY <1>3, <2>4 DEF GiveUp, ClientOK, Mapped
  <2>5. QED
    BY <2>1, <2>2, <2>3, <2>4
<1>5. QED
  BY <1>1, <1>2, <1>4, PageStep

(* A row with a new name keeps the keys; a service may have any name.      *)
LEMMA DepartmentAdded ==
    ASSUME NEW D, NEW P, NEW S, OrgFits(D, P, S), NEW d \in Departments,
           NEW row \in DepartmentRows, row.direction \in Live(D) \cup {None},
           \A e \in Live(P) : P[e].name # row.name
    PROVE  OrgFits(D, [P EXCEPT ![d] = row], S) /\ Live(P) \subseteq Live([P EXCEPT ![d] = row])
<1>1. PICK Q : Q = [P EXCEPT ![d] = row]
  OBVIOUS
<1>2. Q \in [Departments -> DepartmentRows \cup {None, Gone}]
  BY <1>1 DEF OrgFits
<1>3. \A e \in Departments : Q[e] = IF e = d THEN row ELSE P[e]
  BY <1>1 DEF OrgFits
<1>4. \A e : e \in Live(Q) <=> e \in Live(P) \cup {d}
  BY <1>1, <1>2, <1>3, NoneAssumption DEF OrgFits, Live
<1>5. \A e \in Live(P) : e \in Departments /\ P[e].name # row.name
  BY DEF Live, OrgFits
<1>6. \A e \in Live(Q) : Q[e].direction \in Live(D) \cup {None}
  BY <1>3, <1>4, <1>5 DEF OrgFits
<1>7. \A a, e \in Live(Q) : Q[a].name = Q[e].name => a = e
  BY <1>3, <1>4, <1>5 DEF OrgFits
<1>8. QED
  BY <1>1, <1>2, <1>4, <1>6, <1>7 DEF OrgFits

LEMMA ServiceAdded ==
    ASSUME NEW D, NEW P, NEW S, OrgFits(D, P, S), NEW s \in Services,
           NEW row \in ServiceRows, row.department \in Live(P) \cup {None}
    PROVE  OrgFits(D, P, [S EXCEPT ![s] = row]) /\ Live(S) \subseteq Live([S EXCEPT ![s] = row])
<1>1. PICK Q : Q = [S EXCEPT ![s] = row]
  OBVIOUS
<1>2. Q \in [Services -> ServiceRows \cup {None, Gone}]
  BY <1>1 DEF OrgFits
<1>3. \A e \in Services : Q[e] = IF e = s THEN row ELSE S[e]
  BY <1>1 DEF OrgFits
<1>4. \A e : e \in Live(Q) <=> e \in Live(S) \cup {s}
  BY <1>1, <1>2, <1>3, NoneAssumption DEF OrgFits, Live
<1>5. \A e \in Live(S) : e \in Services
  BY DEF Live, OrgFits
<1>6. \A e \in Live(Q) : Q[e].department \in Live(P) \cup {None}
  BY <1>3, <1>4, <1>5 DEF OrgFits
<1>7. QED
  BY <1>1, <1>2, <1>4, <1>6 DEF OrgFits

LEMMA BulkCreateOrgKeeps ==
    ASSUME ImportInv, NEW r, NEW parent, BulkCreateOrg(r, parent)
    PROVE  ImportInv'
<1>1. /\ r \in Live(direction) \cup {None}
      /\ UNCHANGED <<direction, staff, changes, mapped, dry, quiet, waiting, commit>>
      /\ page' \in {"validating", "decided"} /\ department' = Departments2(r)
  BY DEF BulkCreateOrg
<1>2. PICK home : home \in Live(department)' \cup {None} /\ service' = Services2(home)
  BY DEF BulkCreateOrg
<1>3. /\ mapped.department \in Departments \cup {None} /\ mapped.service \in Services \cup {None}
      /\ FileDepartment \in Names \cup {None} /\ FileService \in Names \cup {None}
      /\ ClientOK /\ Mapped /\ OrgInv
  BY ImportParts, FileAssumption DEF ImportInv, ClientOK
<1>4. OrgFits(direction, department', service) /\ Live(department) \subseteq Live(department)'
  <2>1. CASE Orders(department, mapped.department, FileDepartment)
    <3> DEFINE row == [name |-> FileDepartment, direction |-> r]
    <3>1. /\ mapped.department \in Departments /\ FileDepartment \in Names
          /\ \A e \in Live(department) : department[e].name # FileDepartment
      BY <1>3, <2>1, NoneAssumption DEF Orders, Mapped, Similar, Named
    <3>2. row \in DepartmentRows /\ row.direction = r /\ row.name = FileDepartment
      BY <1>1, <1>3, <3>1, LiveRows DEF DepartmentRows, OrgInv
    <3>3. department' = [department EXCEPT ![mapped.department] = row]
      BY <1>1, <2>1 DEF Departments2
    <3> HIDE DEF row
    <3>4. OrgFits(direction, department, service)
      BY <1>3 DEF OrgInv, OrgOK
    <3>5. PICK d \in Departments : d = mapped.department
      BY <3>1
    <3>6. OrgFits(direction, [department EXCEPT ![d] = row], service)
          /\ Live(department) \subseteq Live([department EXCEPT ![d] = row])
      BY <1>1, <3>1, <3>2, <3>4, DepartmentAdded
    <3>7. QED
      BY <3>3, <3>5, <3>6
  <2>2. CASE ~Orders(department, mapped.department, FileDepartment)
    BY <1>1, <1>3, <2>2 DEF Departments2, OrgInv, OrgOK
  <2>3. QED
    BY <2>1, <2>2
<1>5. OrgFits(direction, department', service') /\ Live(service) \subseteq Live(service)'
  <2>1. CASE Orders(service, mapped.service, FileService)
    <3> DEFINE row == [name |-> FileService, department |-> home]
    <3>1. mapped.service \in Services /\ FileService \in Names
      BY <1>3, <2>1 DEF Orders, Mapped
    <3>2. Live(department)' \subseteq Departments
      BY <1>4 DEF OrgFits, Live
    <3>3. row \in ServiceRows /\ row.department = home
      BY <1>2, <3>1, <3>2 DEF ServiceRows
    <3>4. service' = [service EXCEPT ![mapped.service] = row]
      BY <1>2, <2>1 DEF Services2
    <3> HIDE DEF row
    <3>5. PICK s \in Services : s = mapped.service
      BY <3>1
    <3>6. OrgFits(direction, department', [service EXCEPT ![s] = row])
          /\ Live(service) \subseteq Live([service EXCEPT ![s] = row])
      BY <1>2, <1>4, <3>3, ServiceAdded
    <3>7. QED
      BY <3>4, <3>5, <3>6
  <2>2. CASE ~Orders(service, mapped.service, FileService)
    BY <1>2, <1>4, <2>2 DEF Services2
  <2>3. QED
    BY <2>1, <2>2
<1>6. OrgInv'
  <2>1. OrgOK'
    BY <1>1, <1>5 DEF OrgOK
  <2>2. StaffOK'
    BY <1>1, <1>3, <1>4, <1>5 DEF OrgInv, StaffOK, StaffFits
  <2>3. QED
    BY <2>1, <2>2 DEF OrgInv
<1>7. ClientOK' /\ Mapped'
  BY <1>1, <1>3 DEF ClientOK, Mapped
<1>8. \A c \in Commits : Made(c)' = Made(c)
  BY <1>1 DEF Made, Staff
<1>9. QED
  BY <1>1, <1>6, <1>7, <1>8, PageStep

LEMMA CommitImportKeeps ==
    ASSUME ImportInv, NEW c \in Commits, CommitImport(c)
    PROVE  ImportInv'
<1>1. PICK chosen \in SUBSET Lines :
         commit' = [commit EXCEPT ![c] = [@ EXCEPT !.at = "sent", !.todo = chosen]]
  BY DEF CommitImport
<1>2. /\ commit[c] = IdleCommit /\ waiting' = c
      /\ UNCHANGED <<page, mapped, dry, quiet, orgVars>>
  BY DEF CommitImport
<1>3. PICK state : state = commit[c]
  OBVIOUS
<1>4. /\ state \in CommitRecords /\ WellKept(state) /\ Faithful(state, Made(c))
      /\ state.at = "idle" /\ state.buffer = {}
  BY <1>2, <1>3, CommitTyped DEF IdleCommit
<1> DEFINE next == [state EXCEPT !.at = "sent", !.todo = chosen]
<1>5. commit' = [commit EXCEPT ![c] = next]
  BY <1>1, <1>3
<1>6. /\ next \in CommitRecords /\ next.at = "sent" /\ next.todo = chosen /\ next.buffer = {}
      /\ next.lines = state.lines
  BY <1>4 DEF CommitRecords
<1> HIDE DEF next
<1>7. Answered(next) = {} /\ Made(c) = {} /\ Pending(next) = chosen
  BY <1>4, <1>6 DEF Answered, Faithful, Pending
<1>8. WellKept(next) /\ Faithful(next, Made(c))
  BY <1>4, <1>6, <1>7 DEF WellKept, Faithful
<1>9. OrgInv' /\ \A b \in Commits : Made(b)' = Made(b)
  BY <1>2, OrgUnchanged DEF ImportInv, orgVars
<1>10. ClientOK'
  BY <1>2, ImportParts DEF ImportInv, ClientOK
<1>11. QED
  BY <1>2, <1>5, <1>6, <1>8, <1>9, <1>10, CommitStep

LEMMA HrChangesKeeps ==
    ASSUME ImportInv, HrChanges
    PROVE  ImportInv'
<1>1. HrNext /\ quiet' = FALSE /\ UNCHANGED <<page, mapped, dry, waiting, commit>>
  BY DEF HrChanges
<1>2. OrgInv' /\ AccountsStay
  BY <1>1, HrStep DEF ImportInv
<1>3. ClientOK'
  BY <1>1, ClientStays
<1>4. Mapped'
  BY <1>1 DEF ImportInv, Mapped
<1>5. QED
  BY <1>1, <1>2, <1>3, <1>4, MadeStays, PageStep

LEMMA ImportInit_ImportInv == ImportInit => ImportInv
<1> SUFFICES ASSUME ImportInit PROVE ImportInv
  OBVIOUS
<1>1. OrgInv
  BY OrgInit DEF ImportInit
<1>2. [i \in Lines |-> NoLine] \in [Lines -> LineRecords]
  BY DEF NoLine, Line, LineRecords
<1>3. /\ IdleCommit \in CommitRecords /\ IdleCommit.at = "idle"
      /\ IdleCommit.todo = {} /\ IdleCommit.buffer = {}
      /\ \A i \in Lines : IdleCommit.lines[i] = NoLine
  <2>1. NoPlace \in Places \cup {Refused}
    BY DEF NoPlace, Places
  <2>2. QED
    BY <1>2, <2>1 DEF IdleCommit, CommitRecords, LineRecords
<1>4. Pending(IdleCommit) = {} /\ Answered(IdleCommit) = {}
  BY <1>3 DEF Pending, Answered
<1>5. \A c \in Commits : Made(c) = {}
  BY CommitsAssumption DEF ImportInit, Init, Made, Staff, StaffIn
<1>6. Faithful(IdleCommit, {}) /\ WellKept(IdleCommit)
  BY <1>3, <1>4, FS_EmptySet, CreateBatchAssumption DEF Faithful, WellKept
<1>7. commit = [c \in Commits |-> IdleCommit] /\ \A c \in Commits : commit[c] = IdleCommit
  BY DEF ImportInit
<1>8. ClientOK /\ Mapped
  BY DEF ImportInit, ClientOK, Mapped
<1>9. commit \in [Commits -> CommitRecords]
  BY <1>3, <1>7
<1>10. QED
  BY <1>1, <1>5, <1>6, <1>7, <1>8, <1>9, ImportParts DEF ImportInv

LEMMA StutterKeeps ==
    ASSUME ImportInv, UNCHANGED vars
    PROVE  ImportInv'
<1>1. OrgInv' /\ \A c \in Commits : Made(c)' = Made(c)
  BY OrgUnchanged DEF ImportInv, vars, orgVars
<1>2. UNCHANGED <<page, mapped, dry, quiet, waiting, commit>> /\ ClientOK /\ Mapped
  BY ImportParts DEF ImportInv, vars, client
<1>3. ClientOK' /\ Mapped'
  BY <1>2 DEF ClientOK, Mapped
<1>4. QED
  BY <1>1, <1>2, <1>3, PageStep

LEMMA ImportNextKeeps == ImportInv /\ [ImportNext]_vars => ImportInv'
<1> SUFFICES ASSUME ImportInv, [ImportNext]_vars PROVE ImportInv'
  OBVIOUS
<1>1. CASE HrChanges
  BY <1>1, HrChangesKeeps
<1>2. CASE ClientNext
  BY <1>2, PlainPageSteps, BulkCreateOrgKeeps, CommitImportKeeps DEF ClientNext
<1>3. ASSUME NEW c \in Commits, CommitNext(c) PROVE ImportInv'
  BY <1>3, ReadsOrgKeeps, ReadsStaffKeeps, RefuseKeeps, UpdateRowKeeps, BulkCreatesKeeps,
     BulkRefusedKeeps, BulkFailsKeeps, FallbackKeeps, AnswersKeeps DEF CommitNext
<1>4. CASE UNCHANGED vars
  BY <1>4, StutterKeeps
<1>5. QED
  BY <1>1, <1>2, <1>3, <1>4 DEF ImportNext

LEMMA ImportHolds == ImportSpec => []ImportInv
BY ImportInit_ImportInv, ImportNextKeeps, PTL DEF ImportSpec

-----------------------------------------------------------------------------
(* What an import and HR leave has the keys of the schema and is in order: *)
(* every line of a commit waits, is in the batch, or is answered, and no   *)
(* batch has more rows than a batch may have.                              *)
THEOREM ImportTyped == ImportSpec => []TypeOK
<1>1. ImportInv => TypeOK
  BY DEF ImportInv, OrgInv, TypeOK
<1>2. QED
  BY <1>1, ImportHolds, PTL

(* Whatever HR and the imports change, and in whatever order their steps   *)
(* come, getOrgChart draws every employee of a department once and agrees  *)
(* with getOrgTree.                                                        *)
THEOREM ChartStaysComplete == ImportSpec => []ChartComplete
<1>1. ImportInv => ChartComplete
  BY ChartFollows DEF ImportInv
<1>2. QED
  BY <1>1, ImportHolds, PTL

(* A line of the report says "created" exactly for the accounts that the   *)
(* commit itself created.                                                  *)
THEOREM ReportTellsTruth == ImportSpec => []ReportTrue
<1>1. ASSUME ImportInv, NEW c \in Commits, NEW i \in Told(c)
      PROVE  LET mine == File[i].mat \in Staff /\ staff[File[i].mat].by = c
                 line == commit[c].lines[i]
             IN  /\ line.status = "created" => mine
                 /\ mine /\ ~commit[c].lost /\ line.cause # "failed" => line.status = "created"
  BY <1>1 DEF ImportInv, Faithful, Told, Answered, Made
<1>2. ImportInv => ReportTrue
  BY <1>1 DEF ReportTrue
<1>3. QED
  BY <1>2, ImportHolds, PTL

-----------------------------------------------------------------------------
(* What a step answers a line of a batch with.                             *)
LEMMA NothingTold ==
    ASSUME ImportInv, NEW c \in Commits, NEW i \in commit[c].buffer
    PROVE  /\ i \in Lines /\ i \notin commit[c].todo /\ commit[c].lines[i] = NoLine
           /\ commit[c].at \notin {"idle", "sent", "placed"} /\ NoLine.cause # "taken"
<1>1. PICK state : state = commit[c]
  OBVIOUS
<1>2. state \in CommitRecords /\ WellKept(state) /\ Faithful(state, Made(c)) /\ i \in state.buffer
      /\ state.buffer \in SUBSET Lines
  BY <1>1, CommitTyped, RecordFields
<1>3. state.lines[i] = NoLine /\ i \notin state.todo
  BY <1>2 DEF WellKept, Pending, Answered
<1>4. QED
  BY <1>1, <1>2, <1>3 DEF Faithful, NoLine, Line

LEMMA CollateralCommit ==
    ASSUME ImportInv, NEW b \in Commits, CommitNext(b),
           NEW c \in Commits, NEW i \in commit[c].buffer, commit'[c].lines[i].cause = "taken"
    PROVE  File[i].mat \in Staff \/ EmailTaken(File[i].email)
<1>1. /\ i \in Lines /\ i \notin commit[c].todo /\ commit[c].lines[i] = NoLine
      /\ commit[c].at \notin {"idle", "sent", "placed"} /\ NoLine.cause # "taken"
  BY NothingTold
<1>2. commit \in [Commits -> CommitRecords]
  BY ImportParts DEF ImportInv
<1>3. b = c
  <2> SUFFICES ASSUME b # c PROVE commit'[c] = commit[c]
    BY <1>1
  <2> USE <1>2
  <2>1. CASE CommitReadsOrg(b)
    BY <2>1 DEF CommitReadsOrg
  <2>2. CASE CommitReadsStaff(b)
    BY <2>2 DEF CommitReadsStaff
  <2>3. CASE RefuseRow(b) \/ UpdateRow(b)
    BY <2>3 DEF RefuseRow, UpdateRow, AnswerNext
  <2>4. CASE BulkCreates(b)
    BY <2>4 DEF BulkCreates, BulkDone
  <2>5. CASE BulkRefused(b) \/ BulkFails(b)
    BY <2>5 DEF BulkRefused, BulkFails
  <2>6. CASE FallbackRow(b)
    BY <2>6 DEF FallbackRow, AnswerInvited
  <2>7. CASE CommitAnswers(b)
    BY <2>7 DEF CommitAnswers
  <2>8. QED
    BY <2>1, <2>2, <2>3, <2>4, <2>5, <2>6, <2>7 DEF CommitNext
<1>4. CASE CommitReadsOrg(c) \/ CommitReadsStaff(c)
  BY <1>1, <1>4 DEF CommitReadsOrg, CommitReadsStaff
<1>5. ASSUME HasLine(c), NEW line, line \in LineRecords, line # NoLine, AnswerNext(c, line)
      PROVE  FALSE
  <2>1. PICK next : commit' = [commit EXCEPT ![c] = next]
                    /\ AnswersOnly(next, commit[c], {NextLine(c)}, line)
    BY <1>5, NextLineSettles DEF Settles
  <2>2. NextLine(c) \in commit[c].todo
    <3>1. commit[c].todo \in SUBSET Lines /\ commit[c].todo # {}
      BY <1>5, CommitTyped, RecordFields DEF HasLine
    <3>2. QED
      BY <3>1, FirstIn DEF NextLine
  <2>3. commit'[c] = next
    BY <1>2, <2>1
  <2>4. next.lines[i] = NoLine
    BY <1>1, <2>1, <2>2 DEF AnswersOnly
  <2>5. QED
    BY <1>1, <2>3, <2>4
<1>6. CASE RefuseRow(c) \/ UpdateRow(c)
  <2>1. HasLine(c) /\ \E line \in {Line("updated", "-"), Error("taken"), Error("refused"), Error("failed")} :
                         AnswerNext(c, line)
    BY <1>6 DEF RefuseRow, UpdateRow
  <2>2. QED
    BY <1>5, <2>1, LinesAnswered
<1>7. CASE BulkCreates(c)
  <2>1. Serves(c, "flush") /\ BulkDone(c)
    BY <1>7 DEF BulkCreates
  <2>2. PICK next : commit' = [commit EXCEPT ![c] = next]
                    /\ AnswersOnly(next, commit[c], commit[c].buffer, Line("created", "-"))
    BY <2>1, BufferSettles DEF Settles
  <2>3. commit'[c] = next /\ next.lines[i] = Line("created", "-")
    BY <1>1, <1>2, <2>2 DEF AnswersOnly
  <2>4. QED
    BY <2>3, LinesAnswered
<1>8. CASE BulkRefused(c) \/ BulkFails(c)
  <2>1. \/ commit' = [commit EXCEPT ![c] = [@ EXCEPT !.at = "fallback"]]
        \/ commit' = [commit EXCEPT ![c] = [@ EXCEPT !.at = "fallback", !.lost = TRUE]]
    BY <1>8 DEF BulkRefused, BulkFails
  <2>2. \A state \in CommitRecords :
           /\ [state EXCEPT !.at = "fallback"].lines = state.lines
           /\ [state EXCEPT !.at = "fallback", !.lost = TRUE].lines = state.lines
    BY DEF CommitRecords
  <2>3. commit'[c].lines = commit[c].lines
    BY <1>2, <2>1, <2>2
  <2>4. QED
    BY <1>1, <2>3
<1>9. CASE FallbackRow(c)
  <2>1. PICK k : k = First(commit[c].buffer)
    OBVIOUS
  <2>2. Serves(c, "fallback")
    BY <1>9 DEF FallbackRow
  <2>3. PICK line :
           /\ AnswerInvited(c, line) /\ line \in LineRecords /\ line # NoLine
           /\ line.cause = "taken" => EmailTaken(File[k].email) \/ File[k].mat \in Staff
    <3>1. /\ Line("created", "-").cause # "taken" /\ Error("failed").cause # "taken"
          /\ Error("refused").cause # "taken"
      BY LinesAnswered
    <3>2. QED
      BY <1>9, <2>1, <3>1, LinesAnswered DEF FallbackRow, InviteFits
  <2>4. PICK next : commit' = [commit EXCEPT ![c] = next]
                    /\ AnswersOnly(next, commit[c], {k}, line)
    BY <2>1, <2>2, <2>3, InvitedSettles DEF Settles
  <2>5. commit'[c] = next /\ next.lines[i] = IF i = k THEN line ELSE NoLine
    BY <1>1, <1>2, <2>4 DEF AnswersOnly
  <2>6. i = k /\ line.cause = "taken"
    BY <1>1, <2>5
  <2>7. QED
    BY <2>3, <2>6
<1>10. CASE CommitAnswers(c)
  <2>1. commit'[c].lines = [j \in Lines |-> NoLine]
    BY <1>2, <1>10 DEF CommitAnswers, IdleCommit
  <2>2. commit'[c].lines[i] = NoLine
    BY <1>1, <2>1
  <2>3. QED
    BY <1>1, <2>2
<1>11. QED
  BY <1>3, <1>4, <1>6, <1>7, <1>8, <1>9, <1>10 DEF CommitNext

(* A row of a batch is answered "taken" only when its own matricule or     *)
(* e-mail is taken, whatever made the batch fail.                          *)
THEOREM RefusedForItself == ImportSpec => NoCollateral
<1>1. ASSUME ImportInv, [ImportNext]_vars, NEW c \in Commits, NEW i \in commit[c].buffer,
             commit'[c].lines[i].cause = "taken"
      PROVE  File[i].mat \in Staff \/ EmailTaken(File[i].email)
  <2>1. commit[c].lines[i].cause # "taken"
    BY <1>1, NothingTold
  <2>2. CASE UNCHANGED commit
    BY <1>1, <2>1, <2>2
  <2>3. CASE \E b \in Commits : CommitImport(b)
    <3>1. PICK b \in Commits : CommitImport(b)
      BY <2>3
    <3>2. commit \in [Commits -> CommitRecords] /\ b # c
      BY <1>1, <3>1, NothingTold, ImportParts DEF ImportInv, IdleCommit, CommitImport
    <3>3. commit'[c] = commit[c]
      BY <3>1, <3>2 DEF CommitImport
    <3>4. QED
      BY <1>1, <2>1, <3>3
  <2>4. CASE \E b \in Commits : CommitNext(b)
    BY <1>1, <2>4, CollateralCommit
  <2>5. QED
    BY <1>1, <2>2, <2>3, <2>4 DEF ImportNext, ClientNext, HrChanges, SkipResolution, Resolve,
       ValidateImportRows, GiveUp, BulkCreateOrg, vars
<1>2. ImportInv /\ [ImportNext]_vars =>
         [\A c \in Commits : \A i \in commit[c].buffer :
             commit'[c].lines[i].cause = "taken"
             => File[i].mat \in Staff \/ EmailTaken(File[i].email)]_vars
  BY <1>1
<1>3. QED
  BY <1>2, ImportHolds, PTL DEF ImportSpec, NoCollateral

-----------------------------------------------------------------------------
(* The dry run.  What it said ("said"), the accounts and the places are    *)
(* parameters, so that what is proved of them can be used before and after *)
(* a step.                                                                 *)
OnePlace == \A p, q \in Resolutions : p = q
AsValidated == \E place \in Resolutions : dry = [i \in Lines |-> Status(i, place)]

TakenIn(accounts, e) == e \in ElsewhereEmails \/ \E m \in StaffIn(accounts) : accounts[m].email = e
OwnIn(accounts, i) == /\ File[i].mat \in StaffIn(accounts)
                      /\ accounts[File[i].mat].email = File[i].email
FreeFor(accounts, i) == ~TakenIn(accounts, File[i].email) \/ OwnIn(accounts, i)

Promised(said, i, line) ==
    LET written == line.status \in {"created", "updated"} \/ line.cause = "refused" IN
    /\ said[i] = "ready" => line.status = "created"
    /\ said[i] = "update" => line.status = "updated" \/ line.cause = "refused"
    /\ said[i] = "error" => line.status = "error"
    /\ said[i] = "fileError" => written \/ (line.cause = "row" /\ TwiceInFile(Lines, i))

(* A line still to do: what the commit read of the accounts is what the    *)
(* dry run saw, and nobody has taken the e-mail of a row that was free.    *)
Foretold(state, i, said, accounts) ==
    /\ i \in state.ours <=> File[i].mat \in StaffIn(accounts)
    /\ said[i] = "ready" => i \notin state.ours /\ i \notin state.taken
    /\ said[i] = "update" => i \in state.ours /\ i \notin state.taken
    /\ said[i] = "error" <=> i \in state.taken
    /\ i \notin state.taken => FreeFor(accounts, i)
(* A line of the batch.                                                    *)
Fresh(i, said, accounts) ==
    /\ File[i].mat \notin StaffIn(accounts) /\ ~TakenIn(accounts, File[i].email)
    /\ said[i] \notin {"update", "error"}

(* The commit the client waits for keeps the promise so far, and will.     *)
OnCourse(state, said, accounts, places) ==
    /\ \A i \in Answered(state) : Promised(said, i, state.lines[i])
    /\ state.at # "fallback"
    /\ state.at \notin {"idle", "sent", "done"} =>
          state.place \in places /\ (state.place = Refused => Pending(state) = {})
    /\ state.at \in {"rows", "flush"} =>
          /\ \A i \in state.todo : Foretold(state, i, said, accounts)
          /\ \A i \in state.buffer : Fresh(i, said, accounts)
    /\ state.at = "rows" =>
          state.buffer = {} /\ (state.todo # {} => ~Creates(state, First(state.todo)))

(* Nothing changed and nothing failed since the dry run.                   *)
QuietInv ==
    quiet =>
      /\ page \in {"validated", "imported"} /\ (waiting # None => page = "validated")
      /\ dry \in [Lines -> {"error", "fileError", "update", "ready"}]
      /\ \A b \in Commits : commit[b].at \in {"idle", "done"} \/ b = waiting
      /\ /\ page = "validated"
         /\ \A b \in Commits : commit[b].at \in {"idle", "done", "sent", "placed"}
         => AsValidated
      /\ waiting # None /\ OnePlace => OnCourse(commit[waiting], dry, staff, Resolutions)

LEMMA PlaceThere ==
    ASSUME OrgInv, NEW place \in Resolutions, place # Refused
    PROVE  /\ place.department \in Live(department) \cup {None}
           /\ place.service \in Live(service) \cup {None}
<1>1. PICK d, s : place = PlaceOf(d, s)
  BY DEF Resolutions
<1>2. d \in Live(department) \cup {None} /\ s \in Live(service) \cup {None}
  BY <1>1 DEF PlaceOf
<1>3. s \in Live(service) => service[s].department \in Live(department) \cup {None}
  BY DEF OrgInv, OrgOK, OrgFits
<1>4. QED
  BY <1>1, <1>2, <1>3 DEF PlaceOf

(* The loop goes on: the batch it takes is of creations that are free.     *)
LEMMA CourseAdvances ==
    ASSUME NEW mid, mid \in CommitRecords, NEW said, NEW accounts, NEW places,
           \A i \in Answered(mid) : Promised(said, i, mid.lines[i]),
           mid.place \in places, mid.place = Refused => mid.todo = {},
           \A i \in mid.todo : Foretold(mid, i, said, accounts)
    PROVE  OnCourse(Advance(mid), said, accounts, places)
<1> DEFINE next == Advance(mid)
<1>1. AdvancedFrom(next, mid)
  BY AdvanceRecord
<1> HIDE DEF next
<1>2. \A i \in Answered(next) : Promised(said, i, next.lines[i])
  BY <1>1 DEF AdvancedFrom
<1>3. next.at \in {"rows", "flush"}
  BY <1>1 DEF AdvancedFrom
<1>4. next.place \in places /\ (next.place = Refused => Pending(next) = {})
  BY <1>1 DEF AdvancedFrom
<1>5. ASSUME NEW i \in next.todo PROVE Foretold(next, i, said, accounts)
  <2>1. i \in mid.todo /\ (i \in next.ours <=> i \in mid.ours) /\ (i \in next.taken <=> i \in mid.taken)
    BY <1>1 DEF AdvancedFrom
  <2>2. QED
    BY <2>1 DEF Foretold
<1>6. ASSUME NEW i \in next.buffer PROVE Fresh(i, said, accounts)
  <2>1. i \in mid.todo /\ i \notin mid.ours /\ i \notin mid.taken
    BY <1>1 DEF AdvancedFrom, Pending
  <2>2. QED
    BY <2>1 DEF Foretold, Fresh, FreeFor, OwnIn
<1>7. next.at = "rows" =>
        next.buffer = {} /\ (next.todo # {} => ~Creates(next, First(next.todo)))
  BY <1>1 DEF AdvancedFrom
<1>8. OnCourse(next, said, accounts, places)
  BY <1>2, <1>3, <1>4, <1>5, <1>6, <1>7 DEF OnCourse
<1>9. QED
  BY <1>8 DEF next

(* A line is not disturbed by what another line does.                      *)
Undisturbed(i, accounts, new) ==
    /\ File[i].mat \in StaffIn(new) <=> File[i].mat \in StaffIn(accounts)
    /\ FreeFor(accounts, i) => FreeFor(new, i)

LEMMA CourseGoesOn ==
    ASSUME NEW state, NEW mid, NEW which, NEW line, NEW said, NEW accounts, NEW new, NEW places,
           state.at \in {"rows", "flush"}, OnCourse(state, said, accounts, places),
           Follows(mid, state, which, line), which \subseteq Lines,
           Answered(state) \subseteq Lines, Answered(state) \cap which = {},
           \A i \in which : Promised(said, i, line),
           \A i \in state.todo \ which : Undisturbed(i, accounts, new)
    PROVE  OnCourse(Advance(mid), said, new, places)
<1>1. mid \in CommitRecords
  BY DEF Follows, AnswersOnly
<1>2. \A i \in Answered(mid) : Promised(said, i, mid.lines[i])
  <2>1. \A i \in Answered(state) : Promised(said, i, state.lines[i])
    BY DEF OnCourse
  <2>2. QED
    BY <2>1 DEF Follows, AnswersOnly
<1>3. mid.place \in places /\ (mid.place = Refused => mid.todo = {})
  BY DEF Follows, OnCourse, Pending
<1>4. ASSUME NEW i \in mid.todo PROVE Foretold(mid, i, said, new)
  <2>1. i \in state.todo \ which /\ mid.ours = state.ours /\ mid.taken = state.taken
    BY DEF Follows
  <2>2. Foretold(state, i, said, accounts) /\ Undisturbed(i, accounts, new)
    BY <2>1 DEF OnCourse
  <2>3. QED
    BY <2>1, <2>2 DEF Foretold, Undisturbed
<1>5. QED
  BY <1>1, <1>2, <1>3, <1>4, CourseAdvances

(* Steps of the commit the client waits for, while all is quiet.           *)
LEMMA PlacesStay ==
    ASSUME UNCHANGED <<mapped, org>>
    PROVE  Resolutions' = Resolutions /\ (OnePlace' <=> OnePlace)
BY DEF org, Resolutions, ServicesGiven, DepartmentsGiven, Labelled, Named, PlaceOf, OnePlace

(* The step makes the record of c this one, and it is on course after it.  *)
StaysOnCourse(c, next) ==
    /\ commit' = [commit EXCEPT ![c] = next] /\ next.at \in {"rows", "flush", "fallback"}
    /\ OnePlace => OnCourse(next, dry, staff', Resolutions)

LEMMA CourseStep ==
    ASSUME ImportInv, QuietInv, quiet, NEW c \in Commits, waiting = c, UNCHANGED <<client, org>>,
           NEW next, StaysOnCourse(c, next)
    PROVE  QuietInv'
<1>1. commit \in [Commits -> CommitRecords]
  BY ImportParts DEF ImportInv
<1>2. /\ \A b \in Commits : commit'[b] = IF b = c THEN next ELSE commit[b]
      /\ next.at \in {"rows", "flush", "fallback"}
  BY <1>1 DEF StaysOnCourse
<1>3. UNCHANGED <<page, mapped, dry, quiet, waiting>>
  BY DEF client
<1>4. Resolutions' = Resolutions /\ (OnePlace' <=> OnePlace)
  BY <1>3, PlacesStay
<1>5. OnePlace' => OnCourse(commit'[waiting'], dry', staff', Resolutions')
  BY <1>2, <1>3, <1>4 DEF StaysOnCourse
<1>6. \A b \in Commits : commit'[b].at \in {"idle", "done"} \/ b = waiting'
  BY <1>2, <1>3 DEF QuietInv
<1>7. ~ \A b \in Commits : commit'[b].at \in {"idle", "done", "sent", "placed"}
  BY <1>2
<1>8. QED
  BY <1>3, <1>5, <1>6, <1>7 DEF QuietInv

LEMMA AtWork ==
    ASSUME ImportInv, QuietInv, quiet, NEW c \in Commits, commit[c].at \notin {"idle", "done"}
    PROVE  /\ waiting = c /\ waiting # None
           /\ OnePlace => OnCourse(commit[c], dry, staff, Resolutions)
           /\ commit[c] \in CommitRecords /\ WellKept(commit[c]) /\ Faithful(commit[c], Made(c))
BY CommitTyped, CommitsAssumption DEF QuietInv

(* The steps that take the answered lines from the loop.                   *)
LEMMA CourseFollows ==
    ASSUME ImportInv, QuietInv, quiet, NEW c \in Commits, commit[c].at \in {"rows", "flush"},
           UNCHANGED <<client, org>>, NEW mid, NEW which, NEW line,
           commit' = [commit EXCEPT ![c] = Advance(mid)],
           Follows(mid, commit[c], which, line), which \subseteq Pending(commit[c]),
           OnePlace => \A i \in which : Promised(dry, i, line),
           \A i \in commit[c].todo \ which : Undisturbed(i, staff, staff')
    PROVE  QuietInv'
<1>1. PICK state : state = commit[c]
  OBVIOUS
<1>2. /\ waiting = c /\ (OnePlace => OnCourse(state, dry, staff, Resolutions))
      /\ state \in CommitRecords /\ WellKept(state)
  BY <1>1, AtWork
<1>3. which \subseteq Lines /\ Answered(state) \subseteq Lines /\ Answered(state) \cap which = {}
  BY <1>1, <1>2, RecordFields DEF WellKept
<1>4. OnePlace => OnCourse(Advance(mid), dry, staff', Resolutions)
  BY <1>1, <1>2, <1>3, CourseGoesOn
<1>5. Advance(mid).at \in {"rows", "flush"}
  BY AdvanceRecord DEF Follows, AnswersOnly, AdvancedFrom
<1>6. StaysOnCourse(c, Advance(mid))
  BY <1>4, <1>5 DEF StaysOnCourse
<1>7. QED
  BY <1>2, <1>6, CourseStep

LEMMA QuietRefuse ==
    ASSUME ImportInv, QuietInv, quiet, NEW c \in Commits, RefuseRow(c)
    PROVE  QuietInv'
<1>1. HasLine(c) /\ AnswerNext(c, Error("taken")) /\ UNCHANGED <<client, orgVars>>
      /\ NextLine(c) \in commit[c].taken /\ commit[c].at = "rows"
  BY DEF RefuseRow, HasLine, Serves
<1>2. PICK mid : /\ commit' = [commit EXCEPT ![c] = Advance(mid)]
                 /\ Follows(mid, commit[c], {NextLine(c)}, Error("taken"))
  BY <1>1, NextLineSettles, LinesAnswered
<1>3. {NextLine(c)} \subseteq Pending(commit[c])
  BY <1>1, NextLineSettles, LinesAnswered
<1>4. NextLine(c) \in commit[c].todo
  <2>1. commit[c].todo \in SUBSET Lines /\ commit[c].todo # {}
    BY <1>1, CommitTyped, RecordFields DEF HasLine
  <2>2. QED
    BY <2>1, FirstIn DEF NextLine
<1>5. OnePlace => Promised(dry, NextLine(c), Error("taken"))
  <2> SUFFICES ASSUME OnePlace PROVE Promised(dry, NextLine(c), Error("taken"))
    OBVIOUS
  <2>1. Foretold(commit[c], NextLine(c), dry, staff)
    BY <1>1, <1>4, AtWork DEF OnCourse
  <2>2. QED
    BY <1>1, <2>1, LinesAnswered DEF Foretold, Promised
<1>6. UNCHANGED <<org, staff>>
  BY <1>1 DEF orgVars
<1>7. \A i \in commit[c].todo : Undisturbed(i, staff, staff')
  BY <1>6 DEF Undisturbed
<1>8. PICK which, line : which = {NextLine(c)} /\ line = Error("taken")
  OBVIOUS
<1>9. /\ Follows(mid, commit[c], which, line) /\ which \subseteq Pending(commit[c])
      /\ OnePlace => \A i \in which : Promised(dry, i, line)
  BY <1>2, <1>3, <1>5, <1>8
<1>10. QED
  BY <1>1, <1>2, <1>6, <1>7, <1>9, CourseFollows

(* An update changes one row of the company, and frees an e-mail at most.  *)
LEMMA UpdateUndisturbed ==
    ASSUME ImportInv, NEW m \in Staff, NEW e, NEW d, NEW s, Updated(m, e, d, s),
           Staff' = Staff, NEW i \in Lines, File[i].mat # m, File[i].email # e
    PROVE  Undisturbed(i, staff, staff')
<1> DEFINE row == [staff[m] EXCEPT !.email = e, !.department = d, !.service = s]
<1>1. m \in Matricules /\ staff[m] \in AccountRows /\ staff \in [Matricules -> AccountRows \cup {None}]
  BY StaffRows DEF ImportInv, OrgInv, StaffOK, StaffFits
<1>2. row.email = e /\ staff' = [staff EXCEPT ![m] = row]
  BY <1>1 DEF AccountRows, Updated
<1> HIDE DEF row
<1>3. staff'[m].email = e /\ \A k \in Staff \ {m} : staff'[k] = staff[k]
  BY <1>1, <1>2 DEF Staff, StaffIn
<1>4. StaffIn(staff') = StaffIn(staff) /\ StaffIn(staff) = Staff
  BY DEF Staff
<1> HIDE DEF Staff
<1>5. ~TakenIn(staff, File[i].email) => ~TakenIn(staff', File[i].email)
  BY <1>3, <1>4 DEF TakenIn
<1>6. OwnIn(staff, i) => OwnIn(staff', i)
  BY <1>3, <1>4 DEF OwnIn
<1>7. QED
  BY <1>4, <1>5, <1>6 DEF Undisturbed, FreeFor

LEMMA QuietUpdate ==
    ASSUME ImportInv, QuietInv, quiet, NEW c \in Commits, UpdateRow(c), quiet'
    PROVE  QuietInv'
<1>1. PICK m, e, p : m = File[NextLine(c)].mat /\ e = File[NextLine(c)].email /\ p = commit[c].place
  OBVIOUS
<1>2. PICK d, s : d = Given(p.department, staff[m].department) /\ s = Given(p.service, staff[m].service)
  OBVIOUS
<1>3. /\ HasLine(c) /\ NextLine(c) \notin commit[c].taken /\ commit[c].at = "rows"
      /\ UNCHANGED <<org, page, mapped, dry, waiting>>
  BY DEF UpdateRow, HasLine, Serves
<1>4. PICK line : /\ AnswerNext(c, line) /\ line \in {Line("updated", "-"), Error("refused")}
                  /\ UNCHANGED quiet
                  /\ \/ UpdateFits(m, e, d, s, p # NoPlace) /\ Updated(m, e, d, s)
                     \/ UNCHANGED staff
  BY <1>1, <1>2 DEF UpdateRow
<1>5. line \in LineRecords /\ line # NoLine /\ (line.status = "updated" \/ line.cause = "refused")
  BY <1>4, LinesAnswered
<1>6. PICK mid : /\ commit' = [commit EXCEPT ![c] = Advance(mid)]
                 /\ Follows(mid, commit[c], {NextLine(c)}, line)
  BY <1>3, <1>4, <1>5, NextLineSettles
<1>7. {NextLine(c)} \subseteq Pending(commit[c]) /\ NextLine(c) \in Lines
  BY <1>3, <1>4, <1>5, NextLineSettles
<1>8. /\ commit[c] \in CommitRecords /\ commit[c].todo \in SUBSET Lines /\ commit[c].todo # {}
      /\ Faithful(commit[c], Made(c)) /\ NextLine(c) \in commit[c].todo
  <2>1. commit[c] \in CommitRecords /\ commit[c].todo \in SUBSET Lines /\ commit[c].todo # {}
        /\ Faithful(commit[c], Made(c))
    BY <1>3, CommitTyped, RecordFields DEF HasLine
  <2>2. QED
    BY <2>1, FirstIn DEF NextLine
<1>9. OnePlace => Promised(dry, NextLine(c), line)
  <2> SUFFICES ASSUME OnePlace PROVE Promised(dry, NextLine(c), line)
    OBVIOUS
  <2>1. OnCourse(commit[c], dry, staff, Resolutions)
    BY <1>3, AtWork
  <2>2. Foretold(commit[c], NextLine(c), dry, staff) /\ ~Creates(commit[c], NextLine(c))
    BY <1>3, <1>8, <2>1 DEF OnCourse, NextLine
  <2>3. QED
    BY <1>3, <1>5, <2>2 DEF Foretold, Promised, Creates
<1>10. ASSUME NEW i \in commit[c].todo \ {NextLine(c)} PROVE Undisturbed(i, staff, staff')
  <2>1. i \in Lines /\ File[i].mat # m /\ File[i].email # e
    <3>1. Apart(i, NextLine(c))
      BY <1>3, <1>8 DEF Faithful, Pending
    <3>2. QED
      BY <1>1, <1>8, <3>1 DEF Apart
  <2>2. CASE UNCHANGED staff
    BY <2>2 DEF Undisturbed
  <2>3. CASE UpdateFits(m, e, d, s, p # NoPlace) /\ Updated(m, e, d, s)
    <3>1. m \in Staff /\ m \in Matricules /\ staff[m] \in AccountRows
      BY <2>3, StaffRows DEF UpdateFits, ImportInv, OrgInv
    <3>2. [staff[m] EXCEPT !.email = e, !.department = d, !.service = s] # None
          /\ staff \in [Matricules -> AccountRows \cup {None}]
      <4>1. d \in Departments \cup {None} /\ s \in Services \cup {None} /\ e \in Emails
        <5>1. staff[m].department \in Departments \cup {None} /\ staff[m].service \in Services \cup {None}
          BY <3>1 DEF AccountRows
        <5>2. ~(p # NoPlace) => d = staff[m].department /\ s = staff[m].service
          BY <1>2 DEF NoPlace, Given
        <5>3. QED
          BY <1>1, <1>7, <2>3, <5>1, <5>2, LinesNatural, LiveRows
             DEF UpdateFits, AssignmentFits, ImportInv, OrgInv
      <4>2. [staff[m] EXCEPT !.email = e, !.department = d, !.service = s] \in AccountRows
        BY <3>1, <4>1 DEF AccountRows
      <4>3. QED
        BY <4>2, NoneAssumption DEF ImportInv, OrgInv, StaffOK, StaffFits
    <3>3. Staff' = Staff
      BY <2>3, <3>1, <3>2 DEF Updated, Staff, StaffIn
    <3>4. QED
      BY <2>1, <2>3, <3>1, <3>3, UpdateUndisturbed
  <2>4. QED
    BY <1>4, <2>2, <2>3
<1>11. UNCHANGED <<client, org>>
  BY <1>3, <1>4 DEF client
<1>12. PICK which : which = {NextLine(c)}
  OBVIOUS
<1>13. /\ Follows(mid, commit[c], which, line) /\ which \subseteq Pending(commit[c])
       /\ OnePlace => \A i \in which : Promised(dry, i, line)
       /\ \A i \in commit[c].todo \ which : Undisturbed(i, staff, staff')
  BY <1>6, <1>7, <1>9, <1>10, <1>12
<1>14. QED
  BY <1>3, <1>6, <1>11, <1>13, CourseFollows

LEMMA QuietBulk ==
    ASSUME ImportInv, QuietInv, quiet, NEW c \in Commits, BulkCreates(c)
    PROVE  QuietInv'
<1>1. PICK rows, line : rows = commit[c].buffer /\ line = Line("created", "-")
  OBVIOUS
<1>2. /\ Serves(c, "flush") /\ commit[c].at = "flush" /\ \A i \in rows : RowFits(c, i)
      /\ Created(c, rows) /\ BulkDone(c) /\ UNCHANGED <<org, client>>
  BY <1>1 DEF BulkCreates, Serves
<1>3. /\ rows \in SUBSET Lines /\ rows \subseteq Pending(commit[c])
      /\ \A i, j \in rows : i # j => Apart(i, j)
  BY <1>1, <1>2, BufferFits
<1>4. /\ Staff' = Staff \cup {File[i].mat : i \in rows}
      /\ \A m \in Staff : staff'[m] = staff[m]
      /\ \A i \in rows : staff'[File[i].mat].email = File[i].email
  BY <1>2, <1>3, CreatedKeeps DEF ImportInv
<1>5. PICK mid : /\ commit' = [commit EXCEPT ![c] = Advance(mid)]
                 /\ Follows(mid, commit[c], rows, line)
  BY <1>1, <1>2, BufferSettles
<1>6. OnePlace => \A i \in rows : Promised(dry, i, line)
  <2> SUFFICES ASSUME OnePlace, NEW i \in rows PROVE Promised(dry, i, line)
    OBVIOUS
  <2>1. OnCourse(commit[c], dry, staff, Resolutions)
    BY <1>2, AtWork
  <2>2. Fresh(i, dry, staff)
    BY <1>1, <1>2, <2>1 DEF OnCourse
  <2>3. QED
    BY <1>1, <2>2, LinesAnswered DEF Fresh, Promised
<1>7. ASSUME NEW i \in commit[c].todo \ rows PROVE Undisturbed(i, staff, staff')
  <2>1. \A j \in rows : File[j].mat # File[i].mat /\ File[j].email # File[i].email
    <3>1. Faithful(commit[c], Made(c))
      BY CommitTyped
    <3>2. QED
      BY <1>1, <1>2, <3>1 DEF Faithful, Pending, Apart
  <2>2. StaffIn(staff') = StaffIn(staff) \cup {File[j].mat : j \in rows} /\ StaffIn(staff) = Staff
    BY <1>4 DEF Staff
  <2> HIDE DEF Staff
  <2>3. File[i].mat \in StaffIn(staff') <=> File[i].mat \in StaffIn(staff)
    BY <2>1, <2>2
  <2>4. ~TakenIn(staff, File[i].email) => ~TakenIn(staff', File[i].email)
    BY <1>4, <2>1, <2>2 DEF TakenIn
  <2>5. OwnIn(staff, i) => OwnIn(staff', i)
    BY <1>4, <2>2 DEF OwnIn
  <2>6. QED
    BY <2>3, <2>4, <2>5 DEF Undisturbed, FreeFor
<1>8. QED
  BY <1>2, <1>3, <1>5, <1>6, <1>7, CourseFollows

(* While all is quiet, and the place is not in doubt, no batch is refused. *)
LEMMA QuietNotRefused ==
    ASSUME ImportInv, QuietInv, quiet, NEW c \in Commits, BulkRefused(c), OnePlace
    PROVE  FALSE
<1>1. Serves(c, "flush") /\ commit[c].at = "flush" /\ ~\A i \in commit[c].buffer : RowFits(c, i)
  BY DEF BulkRefused, Serves
<1>2. PICK state : state = commit[c]
  OBVIOUS
<1>3. OnCourse(state, dry, staff, Resolutions)
  BY <1>1, <1>2, AtWork
<1>4. PICK i \in state.buffer : ~RowFits(c, i)
  BY <1>1, <1>2
<1>5. state.place \in Resolutions /\ state.place # Refused
  BY <1>1, <1>2, <1>3, <1>4 DEF OnCourse, Pending
<1>6. Fresh(i, dry, staff)
  BY <1>1, <1>2, <1>3, <1>4 DEF OnCourse
<1>7. File[i].mat \notin Staff /\ ~EmailTaken(File[i].email)
  BY <1>6 DEF Fresh, TakenIn, EmailTaken, Staff
<1>8. RowFits(c, i)
  BY <1>2, <1>5, <1>7, PlaceThere DEF RowFits, ImportInv
<1>9. QED
  BY <1>4, <1>8

LEMMA QuietFallback ==
    ASSUME ImportInv, QuietInv, quiet, NEW c \in Commits, BulkRefused(c) \/ FallbackRow(c), quiet'
    PROVE  QuietInv'
<1>1. ASSUME OnePlace PROVE FALSE
  <2>1. CASE BulkRefused(c)
    BY <1>1, <2>1, QuietNotRefused
  <2>2. CASE FallbackRow(c)
    <3>1. commit[c].at = "fallback"
      BY <2>2 DEF FallbackRow, Serves
    <3>2. QED
      BY <1>1, <3>1, AtWork DEF OnCourse
  <2>3. QED
    BY <2>1, <2>2
<1>2. commit[c].at \notin {"idle", "done"} /\ commit[c] \in CommitRecords
  BY CommitTyped DEF BulkRefused, FallbackRow, Serves
<1>3. UNCHANGED <<client, org>>
  BY DEF BulkRefused, FallbackRow, client, orgVars
<1>4. PICK next : commit' = [commit EXCEPT ![c] = next] /\ next.at \in {"rows", "flush", "fallback"}
  <2>1. CASE BulkRefused(c)
    <3>1. [commit[c] EXCEPT !.at = "fallback"].at = "fallback"
      BY <1>2 DEF CommitRecords
    <3>2. QED
      BY <2>1, <3>1 DEF BulkRefused
  <2>2. CASE FallbackRow(c)
    <3>1. \E line : AnswerInvited(c, line) /\ line \in LineRecords /\ line # NoLine
      BY <2>2, LinesAnswered DEF FallbackRow
    <3>2. Serves(c, "fallback")
      BY <2>2 DEF FallbackRow
    <3>3. QED
      BY <3>1, <3>2, InvitedSettles DEF Settles
  <2>3. QED
    BY <2>1, <2>2
<1>5. StaysOnCourse(c, next)
  BY <1>1, <1>4 DEF StaysOnCourse
<1>6. QED
  BY <1>2, <1>3, <1>5, AtWork, CourseStep

(* What the dry run saw is what the commit reads.                          *)
LEMMA StatusStays ==
    ASSUME UNCHANGED <<mapped, org, staff>>
    PROVE  \A i, place : Status(i, place)' = Status(i, place)
BY DEF org, Status, Flaw, EmailTaken, OwnEmail, Staff

LEMMA StatusSays ==
    ASSUME NEW i, NEW place
    PROVE  LET wrong == place = Refused \/ (EmailTaken(File[i].email) /\ ~OwnEmail(i))
           IN  /\ wrong <=> Status(i, place) = "error"
               /\ ~wrong /\ Flaw(i) <=> Status(i, place) = "fileError"
               /\ Status(i, place) = "update" => File[i].mat \in Staff
               /\ Status(i, place) = "ready" => File[i].mat \notin Staff
BY DEF Status

LEMMA QuietReadsStaff ==
    ASSUME ImportInv, QuietInv, quiet, NEW c \in Commits, CommitReadsStaff(c)
    PROVE  QuietInv'
<1>1. PICK state : state = commit[c]
  OBVIOUS
<1>2. /\ state.at = "placed" /\ UNCHANGED <<client, orgVars>>
      /\ state \in CommitRecords /\ state.todo \in SUBSET Lines
  BY <1>1, CommitTyped, RecordFields DEF CommitReadsStaff
<1>3. PICK ours, taken : /\ ours = {i \in commit[c].todo : File[i].mat \in Staff}
                         /\ taken = {i \in commit[c].todo : EmailTaken(File[i].email) /\ ~OwnEmail(i)}
  OBVIOUS
<1> DEFINE mid == [state EXCEPT !.ours = ours, !.taken = taken]
<1>4. commit' = [commit EXCEPT ![c] = Advance(mid)]
  BY <1>1, <1>3 DEF CommitReadsStaff
<1>5. ours \in SUBSET Lines /\ taken \in SUBSET Lines
  BY <1>1, <1>2, <1>3
<1>6. /\ mid \in CommitRecords /\ mid.todo = state.todo /\ mid.place = state.place
      /\ mid.lines = state.lines /\ mid.ours = ours /\ mid.taken = taken
  BY <1>2, <1>5 DEF CommitRecords
<1> HIDE DEF mid
<1>7. waiting = c /\ (OnePlace => OnCourse(state, dry, staff, Resolutions))
  BY <1>1, <1>2, AtWork
<1>8. ASSUME OnePlace PROVE OnCourse(Advance(mid), dry, staff, Resolutions)
  <2>1. OnCourse(state, dry, staff, Resolutions)
    BY <1>7, <1>8
  <2>2. \A i \in Answered(mid) : Promised(dry, i, mid.lines[i])
    BY <1>6, <2>1 DEF OnCourse, Answered
  <2>3. mid.place \in Resolutions /\ (mid.place = Refused => mid.todo = {})
    BY <1>2, <1>6, <2>1 DEF OnCourse, Pending
  <2>4. page = "validated"
    BY <1>1, <1>2, AtWork DEF QuietInv
  <2>5. AsValidated
    BY <1>1, <1>2, <1>7, <2>4 DEF QuietInv
  <2>6. PICK place \in Resolutions : dry = [i \in Lines |-> Status(i, place)]
    BY <2>5 DEF AsValidated
  <2>7. place = mid.place
    BY <1>8, <2>3 DEF OnePlace
  <2>8. ASSUME NEW i \in mid.todo PROVE Foretold(mid, i, dry, staff)
    <3>1. i \in Lines /\ dry[i] = Status(i, place) /\ place # Refused
      BY <1>2, <1>6, <2>3, <2>6, <2>7, <2>8
    <3>2. (i \in mid.ours <=> File[i].mat \in Staff)
          /\ (i \in mid.taken <=> EmailTaken(File[i].email) /\ ~OwnEmail(i))
      BY <1>1, <1>3, <1>6, <2>8
    <3>3. /\ EmailTaken(File[i].email) <=> TakenIn(staff, File[i].email)
          /\ OwnEmail(i) <=> OwnIn(staff, i)
          /\ Staff = StaffIn(staff)
      BY DEF EmailTaken, TakenIn, OwnEmail, OwnIn, Staff
    <3>4. /\ dry[i] = "error" <=> i \in mid.taken
          /\ dry[i] = "update" => i \in mid.ours
          /\ dry[i] = "ready" => i \notin mid.ours
      BY <3>1, <3>2, StatusSays
    <3>5. QED
      BY <3>2, <3>3, <3>4 DEF Foretold, FreeFor
  <2>9. QED
    BY <1>6, <2>2, <2>3, <2>8, CourseAdvances
<1>9. Advance(mid).at \in {"rows", "flush", "fallback"}
  BY <1>6, AdvanceRecord DEF AdvancedFrom
<1>10. UNCHANGED <<client, org, staff>>
  BY <1>2 DEF orgVars
<1>11. StaysOnCourse(c, Advance(mid))
  BY <1>4, <1>8, <1>9, <1>10 DEF StaysOnCourse
<1>12. QED
  BY <1>7, <1>10, <1>11, CourseStep

LEMMA QuietReadsOrg ==
    ASSUME ImportInv, QuietInv, quiet, NEW c \in Commits, CommitReadsOrg(c)
    PROVE  QuietInv'
<1>1. PICK state : state = commit[c]
  OBVIOUS
<1>2. /\ state.at = "sent" /\ UNCHANGED <<client, orgVars>> /\ waiting = c
      /\ state \in CommitRecords /\ state.todo \in SUBSET Lines
      /\ state.buffer = {} /\ Answered(state) = {}
      /\ OnePlace => OnCourse(state, dry, staff, Resolutions)
  BY <1>1, AtWork, CommitTyped, RecordFields DEF CommitReadsOrg, Faithful
<1>3. PICK place \in Resolutions : commit' = [commit EXCEPT ![c] =
           [Answer(state, {i \in state.todo : place = Refused \/ TwiceInFile(state.todo, i)},
                   Error("row")) EXCEPT
              !.at = "placed", !.place = place,
              !.todo = state.todo \ {i \in state.todo : place = Refused \/ TwiceInFile(state.todo, i)}]]
  BY <1>1 DEF CommitReadsOrg
<1>4. PICK bad : bad = {i \in state.todo : place = Refused \/ TwiceInFile(state.todo, i)}
  OBVIOUS
<1> DEFINE told == Answer(state, bad, Error("row"))
           next == [told EXCEPT !.at = "placed", !.place = place, !.todo = state.todo \ bad]
<1>5. commit' = [commit EXCEPT ![c] = next]
  BY <1>3, <1>4
<1>6. AnsweredFrom(told, state, bad, Error("row"))
  <2>1. bad \subseteq Lines
    BY <1>2, <1>4
  <2>2. QED
    BY <1>2, <2>1, AnswerRecord, LinesAnswered
<1> HIDE DEF told
<1>7. /\ next.at = "placed" /\ next.place = place /\ next.todo = state.todo \ bad
      /\ next.buffer = {} /\ next.lines = told.lines
  BY <1>2, <1>6 DEF AnsweredFrom, CommitRecords
<1> HIDE DEF next
<1>8. page = "validated" /\ AsValidated
  <2>1. page = "validated"
    BY <1>1, <1>2, AtWork DEF QuietInv
  <2>2. QED
    BY <1>1, <1>2, <2>1 DEF QuietInv
<1>9. ASSUME OnePlace PROVE OnCourse(next, dry, staff, Resolutions)
  <2>1. PICK seen \in Resolutions : dry = [i \in Lines |-> Status(i, seen)]
    BY <1>8 DEF AsValidated
  <2>2. seen = place
    BY <1>9 DEF OnePlace
  <2>3. ASSUME NEW i \in Answered(next) PROVE Promised(dry, i, next.lines[i])
    <3>1. i \in bad /\ i \in Lines /\ next.lines[i] = Error("row")
      BY <1>2, <1>4, <1>6, <1>7 DEF Answered, AnsweredFrom
    <3>2. place = Refused \/ TwiceInFile(Lines, i)
      BY <1>2, <1>4, <3>1 DEF TwiceInFile
    <3>3. dry[i] = Status(i, place)
      BY <2>1, <2>2, <3>1
    <3>4. dry[i] = "error" \/ (dry[i] = "fileError" /\ TwiceInFile(Lines, i))
      BY <3>2, <3>3 DEF Status, Flaw
    <3>5. QED
      BY <3>1, <3>4, LinesAnswered DEF Promised
  <2>4. place = Refused => Pending(next) = {}
    BY <1>4, <1>7 DEF Pending
  <2>5. QED
    BY <1>7, <2>3, <2>4 DEF OnCourse
<1>10. UNCHANGED <<page, mapped, dry, quiet, waiting, org, staff>>
  BY <1>2 DEF client, orgVars
<1>11. commit \in [Commits -> CommitRecords]
  BY ImportParts DEF ImportInv
<1>12. \A b \in Commits : commit'[b] = IF b = c THEN next ELSE commit[b]
  BY <1>5, <1>11
<1>13. Resolutions' = Resolutions /\ (OnePlace' <=> OnePlace)
  BY <1>10, PlacesStay
<1>14. AsValidated'
  BY <1>8, <1>10, <1>13, StatusStays DEF AsValidated
<1>15. OnePlace' => OnCourse(commit'[waiting'], dry', staff', Resolutions')
  BY <1>2, <1>9, <1>10, <1>12, <1>13
<1>16. \A b \in Commits : commit'[b].at \in {"idle", "done"} \/ b = waiting'
  BY <1>2, <1>10, <1>12 DEF QuietInv
<1>17. QED
  BY <1>10, <1>14, <1>15, <1>16 DEF QuietInv

LEMMA QuietAnswers ==
    ASSUME ImportInv, QuietInv, quiet, NEW c \in Commits, CommitAnswers(c)
    PROVE  QuietInv'
<1>1. commit[c].at = "rows" /\ waiting = c /\ waiting # None
  <2>1. commit[c].at = "rows"
    BY DEF CommitAnswers, Serves
  <2>2. QED
    BY <2>1, AtWork
<1>2. page' = "imported" /\ waiting' = None /\ UNCHANGED <<dry, quiet>>
  BY <1>1 DEF CommitAnswers
<1> DEFINE next == [IdleCommit EXCEPT !.at = "done"]
<1>3. commit' = [commit EXCEPT ![c] = next] /\ next.at = "done"
  BY DEF CommitAnswers, IdleCommit
<1> HIDE DEF next
<1>4. commit \in [Commits -> CommitRecords]
  BY ImportParts DEF ImportInv
<1>5. \A b \in Commits : commit'[b].at \in {"idle", "done"} \/ b = waiting'
  BY <1>1, <1>3, <1>4 DEF QuietInv
<1>6. QED
  BY <1>2, <1>5 DEF QuietInv

LEMMA QuietCommitNext ==
    ASSUME ImportInv, QuietInv, NEW c \in Commits, CommitNext(c)
    PROVE  QuietInv'
<1>1. CASE ~quiet'
  BY <1>1 DEF QuietInv
<1>2. CASE quiet'
  <2>1. quiet
    BY <1>2, CommitTyped DEF CommitNext, CommitReadsOrg, CommitReadsStaff, RefuseRow, UpdateRow,
       BulkCreates, BulkRefused, BulkFails, FallbackRow, CommitAnswers, client
  <2>2. ~BulkFails(c)
    BY <1>2 DEF BulkFails
  <2>3. QED
    BY <1>2, <2>1, <2>2, QuietReadsOrg, QuietReadsStaff, QuietRefuse, QuietUpdate, QuietBulk,
       QuietFallback, QuietAnswers DEF CommitNext
<1>3. QED
  BY <1>1, <1>2

(* The dry run, and the commit that is sent after it.                      *)
LEMMA QuietValidates ==
    ASSUME ImportInv, ValidateImportRows
    PROVE  QuietInv'
<1>1. /\ page' = "validated" /\ waiting' = None /\ UNCHANGED <<mapped, commit, org, staff>>
      /\ quiet' => \A b \in Commits : commit[b].at \in {"idle", "done"}
  BY DEF ValidateImportRows, orgVars
<1>2. PICK place \in Resolutions : dry' = [i \in Lines |-> Status(i, place)]
  BY DEF ValidateImportRows
<1>3. Resolutions' = Resolutions
  BY <1>1, PlacesStay
<1>4. AsValidated'
  BY <1>1, <1>2, <1>3, StatusStays DEF AsValidated
<1>5. \A i \in Lines : Status(i, place) \in {"error", "fileError", "update", "ready"}
  BY DEF Status
<1>6. dry' \in [Lines -> {"error", "fileError", "update", "ready"}]
  BY <1>2, <1>5
<1>7. QED
  BY <1>1, <1>4, <1>6 DEF QuietInv

LEMMA QuietSends ==
    ASSUME ImportInv, QuietInv, NEW c \in Commits, CommitImport(c)
    PROVE  QuietInv'
<1> SUFFICES ASSUME quiet' PROVE QuietInv'
  BY DEF QuietInv
<1>1. /\ quiet /\ page = "validated" /\ waiting = None /\ waiting' = c
      /\ UNCHANGED <<page, mapped, dry, quiet, org, staff>>
  BY DEF CommitImport, orgVars
<1>2. \A b \in Commits : commit[b].at \in {"idle", "done"}
  BY <1>1, CommitsAssumption DEF QuietInv
<1>3. AsValidated
  BY <1>1, <1>2 DEF QuietInv
<1>4. AsValidated'
  BY <1>1, <1>3, PlacesStay, StatusStays DEF AsValidated
<1>5. PICK chosen : commit' = [commit EXCEPT ![c] = [IdleCommit EXCEPT !.at = "sent", !.todo = chosen]]
  BY DEF CommitImport
<1> DEFINE next == [IdleCommit EXCEPT !.at = "sent", !.todo = chosen]
<1>6. next.at = "sent" /\ next.lines = [i \in Lines |-> NoLine]
  BY DEF IdleCommit
<1>7. commit' = [commit EXCEPT ![c] = next]
  BY <1>5
<1> HIDE DEF next
<1>8. commit \in [Commits -> CommitRecords]
  BY ImportParts DEF ImportInv
<1>9. \A b \in Commits : commit'[b] = IF b = c THEN next ELSE commit[b]
  BY <1>7, <1>8
<1>10. Answered(next) = {}
  BY <1>6 DEF Answered
<1>11. OnCourse(next, dry', staff', Resolutions')
  BY <1>6, <1>10 DEF OnCourse
<1>12. OnCourse(commit'[waiting'], dry', staff', Resolutions')
  BY <1>1, <1>9, <1>11
<1>13. \A b \in Commits : commit'[b].at \in {"idle", "done"} \/ b = waiting'
  BY <1>1, <1>2, <1>9
<1>14. QED
  BY <1>1, <1>4, <1>12, <1>13 DEF QuietInv

LEMMA QuietStutters ==
    ASSUME QuietInv, UNCHANGED vars
    PROVE  QuietInv'
<1>1. UNCHANGED <<page, mapped, dry, quiet, waiting, commit, org, staff>>
  BY DEF vars, client, orgVars
<1>2. Resolutions' = Resolutions /\ (OnePlace' <=> OnePlace)
  BY <1>1, PlacesStay
<1>3. AsValidated' <=> AsValidated
  BY <1>1, <1>2, StatusStays DEF AsValidated
<1>4. QED
  BY <1>1, <1>2, <1>3 DEF QuietInv

LEMMA QuietNext == ImportInv /\ QuietInv /\ [ImportNext]_vars => QuietInv'
<1> SUFFICES ASSUME ImportInv, QuietInv, [ImportNext]_vars PROVE QuietInv'
  OBVIOUS
<1>1. CASE HrChanges \/ GiveUp
  BY <1>1 DEF HrChanges, GiveUp, QuietInv
<1>2. CASE SkipResolution \/ Resolve \/ \E r, parent : BulkCreateOrg(r, parent)
  BY <1>2 DEF SkipResolution, Resolve, BulkCreateOrg, QuietInv
<1>3. QED
  BY <1>1, <1>2, QuietValidates, QuietSends, QuietCommitNext, QuietStutters
     DEF ImportNext, ClientNext

LEMMA QuietHolds == ImportSpec => []QuietInv
<1>1. ImportInit => QuietInv
  BY DEF ImportInit, QuietInv
<1>2. QED
  BY <1>1, ImportHolds, QuietNext, PTL DEF ImportSpec

(* What the dry run says of a row comes true in the report the client gets *)
(* when nothing changed and nothing failed since, and the names give one   *)
(* place: a row that is ready is created, an update is made or refused for *)
(* its place, one refused for its place or its e-mail is not written; one  *)
(* refused for the file alone is written, unless its double was sent too.  *)
THEOREM DryRunTold == ImportSpec => []DryRunKept
<1>1. ImportInv /\ QuietInv => DryRunKept
  <2> SUFFICES ASSUME ImportInv, QuietInv, NEW c \in Commits, NEW i \in Told(c),
                      quiet, waiting = c, OnePlace
               PROVE  Promised(dry, i, commit[c].lines[i])
    BY DEF DryRunKept, Promised, OnePlace
  <2>1. OnCourse(commit[c], dry, staff, Resolutions)
    BY CommitsAssumption DEF QuietInv
  <2>2. i \in Answered(commit[c])
    BY DEF Told, Answered
  <2>3. QED
    BY <2>1, <2>2 DEF OnCourse
<1>2. QED
  BY <1>1, ImportHolds, QuietHolds, PTL

=============================================================================
