---------------------------- MODULE StaffImport -----------------------------
(***************************************************************************)
(* Import of a file of employees, in the organisation of module            *)
(* Organisation and while HR administrators change it: the client resolves *)
(* the department and the service the file names (resolveOrg, its          *)
(* decision, bulkCreateOrg), has the rows checked (validateImportRows) and *)
(* commits those without errors (commitImportRows).  A commit reads the    *)
(* organisation and the accounts, then creates accounts in batches, each   *)
(* in a transaction, and row by row when the batch fails; it updates the   *)
(* accounts it finds by matricule.  The client may give up a commit that   *)
(* goes on, and commit again.  All rows of the file name one department    *)
(* and one service, or none.  Lines are known by their numbers; a set of   *)
(* lines is worked on in the order of the file.                            *)
(***************************************************************************)
EXTENDS Organisation, Sequences

CONSTANTS
    File,         \* the rows: sequence of [mat, email, dated]; dated: the dates can be read
    FileDepartment, FileService,  \* the names in the file, or None
    Commits,      \* bound: commits the page sends
    CreateBatch

ASSUME CreateBatchAssumption == CreateBatch \in Nat \ {0}
ASSUME FileAssumption ==
    /\ File \in Seq([mat: Matricules, email: Emails, dated: BOOLEAN])
    /\ {FileDepartment, FileService} \subseteq Names \cup {None}
(* No account was created by a commit that is still to be sent.            *)
ASSUME CommitsAssumption ==
    /\ Commits \subseteq Creators \ {"HR", None}
    /\ \A st \in Starts, m \in Matricules :
          m \in StaffIn(st.staff) => st.staff[m].by \notin Commits

VARIABLES
    page,         \* where the client is
    mapped,       \* the identifiers the names are mapped to
    dry,          \* the answer of the dry run: row -> status, or <<>>
    quiet,        \* nothing changed and nothing failed since the dry run
    waiting,      \* the commit the client waits for, or None
    commit        \* the commits in service

client == <<page, mapped, dry, quiet, waiting>>
vars   == <<orgVars, client, commit>>

Lines == DOMAIN File
NoPlace == [department |-> None, service |-> None]
Refused == [department |-> Gone, service |-> Gone]
Places == [department: Departments \cup {None}, service: Services \cup {None}]
Line(status, cause) == [status |-> status, cause |-> cause]
NoLine == Line("none", "-")
Error(cause) == Line("error", cause)

(* The lines of a commit still to do, in the buffer, and answered; of the  *)
(* lines to do those whose matricule the company has, and those whose      *)
(* e-mail is somebody else's; "lost": the database failed after writing.   *)
IdleCommit == [at |-> "idle", todo |-> {}, buffer |-> {}, ours |-> {}, taken |-> {},
               place |-> NoPlace, lines |-> [i \in Lines |-> NoLine], lost |-> FALSE]
Told(c) == {i \in Lines : commit[c].lines[i] # NoLine}

-----------------------------------------------------------------------------
(* resolveImportOrgFromDtoRow: the place of the rows in the organisation   *)
(* as read.  The identifiers count, and the names when the file was sent   *)
(* without.  A service that has a department gives it.  Of the rows that   *)
(* answer to a name the last one read is taken, in the order the database  *)
(* returns.                                                                *)

Labelled(rows, n) == Named(normalizeImportOrgLabel, rows, n)
DepartmentsGiven ==
    IF mapped.byName /\ Labelled(department, FileDepartment) # {}
    THEN Labelled(department, FileDepartment) ELSE {mapped.department}
ServicesGiven ==
    IF ~mapped.byName \/ FileService = None THEN {mapped.service}
    ELSE IF Labelled(service, FileService) = {} THEN {Gone}
    ELSE Labelled(service, FileService)

PlaceOf(d, s) ==
    LET home == IF s \in Live(service) THEN service[s].department ELSE None IN
    IF \/ d \notin Live(department) \cup {None}
       \/ s \notin Live(service) \cup {None}
       \/ home # None /\ d # None /\ d # home
    THEN Refused
    ELSE [department |-> IF home = None THEN d ELSE home, service |-> s]
Resolutions == {PlaceOf(d, s) : d \in DepartmentsGiven, s \in ServicesGiven}

TwiceInFile(rows, i) ==
    \E j \in rows \ {i} : File[j].mat = File[i].mat \/ File[j].email = File[i].email
OwnEmail(i) == File[i].mat \in Staff /\ staff[File[i].mat].email = File[i].email

(* A row in the dry run.  The code answers "error" with the codes of all   *)
(* errors; "fileError" is that answer when they are only of the file: the  *)
(* row repeats another, or has a date that cannot be read.  "ready" is the *)
(* code's "warning" too.                                                   *)
(* Mutant: the owners of e-mails are not looked up.                        *)
Flaw(i) == TwiceInFile(Lines, i) \/ ~File[i].dated
StatusInFile(i, place) ==
    IF place = Refused THEN "error"
    ELSE IF Flaw(i) THEN "fileError"
    ELSE IF File[i].mat \in Staff THEN "update" ELSE "ready"
Status(i, place) ==
    IF place = Refused \/ (EmailTaken(File[i].email) /\ ~OwnEmail(i)) THEN "error"
    ELSE IF Flaw(i) THEN "fileError"
    ELSE IF File[i].mat \in Staff THEN "update" ELSE "ready"

-----------------------------------------------------------------------------
CommitRecords ==
    [at: {"idle", "sent", "placed", "rows", "flush", "fallback", "done"},
     todo: SUBSET Lines, buffer: SUBSET Lines, ours: SUBSET Lines, taken: SUBSET Lines,
     place: Places \cup {Refused},
     lines: [Lines -> [status: {"none", "created", "updated", "error"},
                       cause: {"-", "row", "taken", "refused", "failed"}]],
     lost: BOOLEAN]
ImportOK ==
    /\ page \in {"mapping", "decided", "validating", "validated", "imported"}
    /\ mapped \in [department: Departments \cup {None}, service: Services \cup {None},
                   byName: BOOLEAN]
    /\ dry = <<>> \/ dry \in [Lines -> {"error", "fileError", "update", "ready"}]
    /\ quiet \in BOOLEAN /\ waiting \in Commits \cup {None}
    /\ commit \in [Commits -> CommitRecords]
    (* A line waits, is in the buffer, or is answered.                     *)
    /\ \A c \in Commits : /\ commit[c].todo \cap commit[c].buffer = {}
                          /\ (commit[c].todo \cup commit[c].buffer) \cap Told(c) = {}
                          /\ Cardinality(commit[c].buffer) <= CreateBatch
TypeOK == OrgOK /\ StaffOK /\ ImportOK

ImportInit ==
    /\ Init
    /\ page = "mapping" /\ mapped = [department |-> None, service |-> None, byName |-> TRUE]
    /\ dry = <<>> /\ quiet = FALSE
    /\ waiting = None /\ commit = [c \in Commits |-> IdleCommit]

-----------------------------------------------------------------------------
(* The client's page.                                                      *)

(* All names exist: the page sends the names.                              *)
Similar(rows, n) == Named(normalizeString, rows, n)
Found(rows, n) == n = None \/ Similar(rows, n) # {}
SkipResolution ==
    /\ page = "mapping"
    /\ Found(department, FileDepartment) /\ Found(service, FileService)
    /\ page' = "validating"
    /\ UNCHANGED <<mapped, dry, quiet, waiting, commit, orgVars>>

(* resolveOrg, and the decisions: a name is found, or the user associates  *)
(* it with an existing row, or ignores it, or has it created under an      *)
(* identifier the page draws.                                              *)
Drawable(rows) == {id \in DOMAIN rows : rows[id] = None}
MayMapTo(rows, n) ==
    IF n = None THEN {None}
    ELSE IF Similar(rows, n) # {} THEN Similar(rows, n)
    ELSE Live(rows) \cup Drawable(rows) \cup {None}
Resolve ==
    /\ page = "mapping"
    /\ \E d \in MayMapTo(department, FileDepartment), s \in MayMapTo(service, FileService) :
          mapped' = [department |-> d, service |-> s, byName |-> FALSE]
    /\ page' = "decided"
    /\ UNCHANGED <<dry, quiet, waiting, commit, orgVars>>

(* bulkCreateOrg: a name that exists by now is not created again.  When    *)
(* the answer is lost the page asks again, with the identifiers it drew.   *)
(* The file's directions, which no row uses, are left out.                 *)
Orders(rows, id, n) == id # None /\ rows[id] = None /\ Similar(rows, n) = {}
Departments2(r) ==
    IF Orders(department, mapped.department, FileDepartment)
    THEN [department EXCEPT ![mapped.department] = [name |-> FileDepartment, direction |-> r]]
    ELSE department
Services2(parent) ==
    IF Orders(service, mapped.service, FileService)
    THEN [service EXCEPT ![mapped.service] = [name |-> FileService, department |-> parent]]
    ELSE service

(* Mutant: the service is put in the department the page asks for, which   *)
(* the server may not have created.                                        *)
BulkCreateOrgUnderAsked(r, parent) ==
    /\ page = "decided" /\ r \in Live(direction) \cup {None}
    /\ parent \in Live(department) \cup {None, mapped.department}
    /\ department' = Departments2(r) /\ service' = Services2(parent)
    /\ page' \in {"validating", "decided"}
    /\ UNCHANGED <<direction, staff, changes, mapped, dry, quiet, waiting, commit>>
BulkCreateOrg(r, parent) ==
    /\ page = "decided" /\ r \in Live(direction) \cup {None}
    /\ parent \in Live(department) \cup {None, mapped.department}
    /\ department' = Departments2(r)
    /\ service' = Services2(IF parent \in {None} \cup Live(department)' THEN parent ELSE None)
    /\ page' \in {"validating", "decided"}
    /\ UNCHANGED <<direction, staff, changes, mapped, dry, quiet, waiting, commit>>

ValidateImportRows ==
    /\ page \in {"validating", "validated"} /\ waiting = None
    /\ \E place \in Resolutions : dry' = [i \in Lines |-> Status(i, place)]
    /\ page' = "validated"
    /\ quiet' = \A c \in Commits : commit[c].at \in {"idle", "done"}
    /\ UNCHANGED <<mapped, waiting, commit, orgVars>>

(* Any of the rows can be ticked, those with errors too.                   *)
CommitImport(c) ==
    /\ page = "validated" /\ waiting = None /\ commit[c] = IdleCommit
    /\ \E chosen \in SUBSET Lines \ {{}} :
          commit' = [commit EXCEPT ![c] = [@ EXCEPT !.at = "sent", !.todo = chosen]]
    /\ waiting' = c
    /\ UNCHANGED <<page, mapped, dry, quiet, orgVars>>

GiveUp ==
    /\ waiting # None /\ waiting' = None /\ quiet' = FALSE
    /\ UNCHANGED <<page, mapped, dry, commit, orgVars>>

-----------------------------------------------------------------------------
(* commitImportRows.                                                       *)

First(lines) == CHOOSE i \in lines : \A j \in lines : i <= j
Answer(state, which, line) ==
    [state EXCEPT !.lines = [i \in Lines |-> IF i \in which THEN line ELSE state.lines[i]]]

(* The organisation is read, and the rows it does not accept are answered. *)
CommitReadsOrg(c) ==
    LET rows == commit[c].todo IN
    /\ commit[c].at = "sent"
    /\ \E place \in Resolutions :
         LET bad == {i \in rows : place = Refused \/ TwiceInFile(rows, i)} IN
         commit' = [commit EXCEPT ![c] =
           [Answer(commit[c], bad, Error("row")) EXCEPT
              !.at = "placed", !.place = place, !.todo = rows \ bad]]
    /\ UNCHANGED <<client, orgVars>>

(* From one wait to the next the loop puts the creations it meets in the   *)
(* buffer, until the buffer is full or a row is not a creation.            *)
Creates(state, i) == i \notin state.ours \cup state.taken
UpTo(lines, i) == {j \in lines : j <= i}
Batch(state) ==
    {i \in state.todo : /\ Cardinality(UpTo(state.todo, i)) <= CreateBatch
                        /\ \A j \in UpTo(state.todo, i) : Creates(state, j)}
Advance(state) ==
    LET rest == state.todo \ Batch(state) IN
    [state EXCEPT !.at = IF Batch(state) = {} THEN "rows" ELSE "flush",
                  !.buffer = Batch(state), !.todo = rest,
                  !.ours = @ \cap rest, !.taken = @ \cap rest]

(* Who has the matricules and the e-mails of the others.                   *)
CommitReadsStaff(c) ==
    /\ commit[c].at = "placed"
    /\ commit' = [commit EXCEPT ![c] = Advance([@ EXCEPT
         !.ours = {i \in commit[c].todo : File[i].mat \in Staff},
         !.taken = {i \in commit[c].todo : EmailTaken(File[i].email) /\ ~OwnEmail(i)}])]
    /\ UNCHANGED <<client, orgVars>>

Serves(c, at) == commit[c].at = at
NextLine(c) == First(commit[c].todo)
HasLine(c) == Serves(c, "rows") /\ commit[c].todo # {}
AnswerNext(c, line) ==
    commit' = [commit EXCEPT ![c] =
       Advance([Answer(commit[c], {NextLine(c)}, line) EXCEPT !.todo = @ \ {NextLine(c)}])]

Given(new, old) == IF new = None THEN old ELSE new

(* The e-mail was somebody else's when the accounts were read.             *)
RefuseRow(c) ==
    /\ HasLine(c) /\ NextLine(c) \in commit[c].taken
    /\ AnswerNext(c, Error("taken"))
    /\ UNCHANGED <<client, orgVars>>

(* updateForRhAdmin with what the row gives; or the database fails.        *)
UpdateRow(c) ==
    LET m == File[NextLine(c)].mat
        e == File[NextLine(c)].email
        p == commit[c].place
        d == Given(p.department, staff[m].department)
        s == Given(p.service, staff[m].service)
        fits == UpdateFits(m, e, d, s, p # NoPlace)
    IN
    /\ HasLine(c) /\ NextLine(c) \notin commit[c].taken
    /\ \/ fits /\ Updated(m, e, d, s) /\ AnswerNext(c, Line("updated", "-")) /\ UNCHANGED quiet
       \/ ~fits /\ AnswerNext(c, Error("refused")) /\ UNCHANGED <<staff, quiet>>
       \/ AnswerNext(c, Error("failed")) /\ quiet' = FALSE /\ UNCHANGED staff
    /\ UNCHANGED <<org, changes, page, mapped, dry, waiting>>

-----------------------------------------------------------------------------
(* createInvitedEmployeesBulk: all of the buffer in one transaction, or    *)
(* none.  It does not ask what assertOrgAssignment asks; the foreign keys  *)
(* and the unique indexes are all that may refuse it.                      *)

RowFits(c, i) ==
    /\ File[i].mat \notin Staff /\ ~EmailTaken(File[i].email)
    /\ commit[c].place.department \in Live(department) \cup {None}
    /\ commit[c].place.service \in Live(service) \cup {None}
Created(c, lines) ==
    staff' = [m \in Matricules |->
       IF \E i \in lines : File[i].mat = m
       THEN LET i == CHOOSE i \in lines : File[i].mat = m
            IN  Account(File[i].email, commit[c].place.department, commit[c].place.service, c)
       ELSE staff[m]]

BulkDone(c) ==
    commit' = [commit EXCEPT ![c] =
       Advance(Answer(commit[c], commit[c].buffer, Line("created", "-")))]

(* Mutant: rows that are taken are skipped (skipDuplicates).               *)
BulkSkips(c) ==
    /\ Serves(c, "flush")
    /\ Created(c, {i \in commit[c].buffer : RowFits(c, i)})
    /\ BulkDone(c)
    /\ UNCHANGED <<org, changes, client>>
BulkCreates(c) ==
    /\ Serves(c, "flush")
    /\ \A i \in commit[c].buffer : RowFits(c, i)
    /\ Created(c, commit[c].buffer)
    /\ BulkDone(c)
    /\ UNCHANGED <<org, changes, client>>

(* Refused, or the database fails, before the COMMIT or after it (then     *)
(* the rows exist, and are asked for again).                               *)
(* Mutant: the lines of the batch are answered with its error.             *)
BulkRejects(c) ==
    /\ Serves(c, "flush") /\ ~\A i \in commit[c].buffer : RowFits(c, i)
    /\ commit' = [commit EXCEPT ![c] = Advance(Answer(commit[c], commit[c].buffer, Error("taken")))]
    /\ UNCHANGED <<orgVars, client>>
BulkRefused(c) ==
    /\ Serves(c, "flush") /\ ~\A i \in commit[c].buffer : RowFits(c, i)
    /\ commit' = [commit EXCEPT ![c] = [@ EXCEPT !.at = "fallback"]]
    /\ UNCHANGED <<orgVars, client>>
BulkFails(c) ==
    /\ Serves(c, "flush") /\ quiet' = FALSE
    /\ \/ commit' = [commit EXCEPT ![c] = [@ EXCEPT !.at = "fallback"]] /\ UNCHANGED staff
       \/ /\ \A i \in commit[c].buffer : RowFits(c, i)
          /\ Created(c, commit[c].buffer)
          /\ commit' = [commit EXCEPT ![c] = [@ EXCEPT !.at = "fallback", !.lost = TRUE]]
    /\ UNCHANGED <<org, changes, page, mapped, dry, waiting>>

(* inviteEmployee, row by row; or the database fails, before or after.     *)
AnswerInvited(c, line) ==
    LET i == First(commit[c].buffer)
        answered == [Answer(commit[c], {i}, line) EXCEPT !.buffer = @ \ {i}]
    IN  commit' = [commit EXCEPT ![c] =
           IF answered.buffer = {} THEN Advance(answered) ELSE answered]
FallbackRow(c) ==
    LET i == First(commit[c].buffer)
        e == File[i].email
        p == commit[c].place
        fits == InviteFits(File[i].mat, e, p.department, p.service)
    IN
    /\ Serves(c, "fallback")
    /\ \/ fits /\ Created(c, {i}) /\ AnswerInvited(c, Line("created", "-")) /\ UNCHANGED quiet
       \/ /\ ~fits /\ UNCHANGED <<staff, quiet>>
          /\ AnswerInvited(c, Error(
                IF EmailTaken(e) \/ AssignmentFits(p.department, p.service)
                THEN "taken" ELSE "refused"))
       \/ /\ AnswerInvited(c, Error("failed")) /\ quiet' = FALSE
          /\ \/ UNCHANGED staff
             \/ fits /\ Created(c, {i})
    /\ UNCHANGED <<org, changes, page, mapped, dry, waiting>>

CommitAnswers(c) ==
    /\ Serves(c, "rows") /\ commit[c].todo = {}
    /\ page' = IF waiting = c THEN "imported" ELSE page
    /\ waiting' = IF waiting = c THEN None ELSE waiting
    /\ commit' = [commit EXCEPT ![c] = [IdleCommit EXCEPT !.at = "done"]]
    /\ UNCHANGED <<mapped, dry, quiet, orgVars>>

-----------------------------------------------------------------------------
(* HR administrators do not use an identifier the page has drawn.          *)
HrChanges ==
    /\ HrNext /\ quiet' = FALSE
    /\ mapped.department \in Drawable(department) => department'[mapped.department] = None
    /\ mapped.service \in Drawable(service) => service'[mapped.service] = None
    /\ UNCHANGED <<page, mapped, dry, waiting, commit>>

ClientNext ==
    \/ SkipResolution \/ Resolve \/ ValidateImportRows \/ GiveUp
    \/ \E r \in Directions \cup {None}, parent \in Departments \cup {None} :
          BulkCreateOrg(r, parent)
    \/ \E c \in Commits : CommitImport(c)
CommitNext(c) ==
    \/ CommitReadsOrg(c) \/ CommitReadsStaff(c) \/ RefuseRow(c) \/ UpdateRow(c)
    \/ BulkCreates(c) \/ BulkRefused(c) \/ BulkFails(c) \/ FallbackRow(c) \/ CommitAnswers(c)

ImportNext == HrChanges \/ ClientNext \/ \E c \in Commits : CommitNext(c)
ImportSpec == ImportInit /\ [][ImportNext]_vars

-----------------------------------------------------------------------------
(* The report of a commit: a line says "created" exactly when this commit  *)
(* created the account of the row, whatever other commits and invitations  *)
(* did in between, except where the database failed after writing.         *)
ReportTrue ==
    \A c \in Commits : \A i \in Told(c) :
       LET mine == File[i].mat \in Staff /\ staff[File[i].mat].by = c
           line == commit[c].lines[i]
       IN  /\ line.status = "created" => mine
           /\ mine /\ ~commit[c].lost /\ line.cause # "failed" => line.status = "created"

(* A row is refused for what is wrong with it, never for a row that stood  *)
(* in the same batch: when the batch or the row's own invitation answers   *)
(* "taken", the matricule or the e-mail is taken.                          *)
NoCollateral ==
    [][\A c \in Commits : \A i \in commit[c].buffer :
          commit'[c].lines[i].cause = "taken"
          => File[i].mat \in Staff \/ EmailTaken(File[i].email)]_vars

(* What the dry run promises when nothing changes and nothing fails until  *)
(* the commit, and the names give one place: each ticked row it called     *)
(* ready is created, each update is made or refused for the place only,    *)
(* and no row whose place or e-mail it refused is written.  A row it       *)
(* refused for the file alone is no such promise: the commit writes it,    *)
(* leaving out a date that cannot be read, unless its double was ticked.   *)
DryRunKept ==
    \A c \in Commits : \A i \in Told(c) :
       LET line    == commit[c].lines[i]
           written == line.status \in {"created", "updated"} \/ line.cause = "refused"
       IN
       quiet /\ waiting = c /\ (\A p, q \in Resolutions : p = q)
       =>
          /\ dry[i] = "ready" => line.status = "created"
          /\ dry[i] = "update" => line.status = "updated" \/ line.cause = "refused"
          /\ dry[i] = "error" => line.status = "error"
          /\ dry[i] = "fileError" => written \/ (line.cause = "row" /\ TwiceInFile(Lines, i))

(* What the page says of the organisation it ordered: once the server has  *)
(* answered, the rows carry identifiers of rows that exist or existed.     *)
OrgMapResolves ==
    page \notin {"mapping", "decided"} =>
       /\ mapped.department \notin Drawable(department)
       /\ mapped.service \notin Drawable(service)
=============================================================================
