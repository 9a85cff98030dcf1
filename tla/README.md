# PaySlip Manager: specifications, model checking and proofs

PaySlip Manager distributes payslips: HR administrators of a company import
their employees, upload one PDF per employee and month, and employees read and
electronically acknowledge them. This directory holds TLA+ specifications of
the backend (`src/backend`, NestJS, Prisma/PostgreSQL, S3) and of the parts of
the web client (`src/admin`) that keep a protocol with it: the session, the bulk
upload and the import of employees. `PROJECT.json` is the index: the
components, the TLC runs, the source lines behind each definition, the hazards,
the findings and the theorems. Every definition was translated from the code.

    PayslipVault.tla          payslips, their PDFs, readings, signatures, audit
    PayslipLedger.tla         what PayslipVault promises, abstractly
    MCPayslipVault.tla        small instances of PayslipVault for TLC
    PayslipVaultProofs.tla    its type correctness, proved
    PayslipVaultSafety.tla    its safety properties, proved
    PayslipVaultRefinement.tla  acknowledgements, and that it implements the ledger
    EmployeeAccount.tla       status, access and sessions of one employee
    EmployeeAccountProofs.tla its type correctness and safety, proved
    ClientSession.tla         the web client's tokens, refreshes and requests
    ClientSessionProofs.tla   its type correctness and safety, proved
    BulkUpload.tla            analysis, review, distribution, retry of a batch
    MCBulkUpload.tla          a small instance of BulkUpload for TLC
    BulkUploadProofs.tla      its type correctness and safety, proved
    Organisation.tla          directions, departments, services, assignments
    OrganisationProofs.tla    its keys, and the chart that follows from them
    StaffImport.tla           the import of a file into an Organisation
    StaffImportProofs.tla     types, report, batches and dry run, proved
    MCStaffImport.tla         a small instance of StaffImport for TLC

To check a model: `tlc -config VaultSafety.cfg MCPayslipVault.tla` (the runs and
their configurations are listed below). To check a proof:
`tlapm PayslipVaultSafety.tla`.

## 1. Inventory of the system

The backend is one NestJS process, or several. A handler is an `async` function
that suspends at every `await`; between two awaits nothing else runs in the
same process, across an await anything may. All shared state is remote
(PostgreSQL through Prisma, an S3 bucket) except two in-memory maps, the bulk
batches and the import jobs. There are no row locks and no version columns:
handlers read, decide, and write later by id. What protects the data are a few
unique indexes, the counts that `deleteMany` returns, and transactions around
groups of writes. Most of the hard behaviour of this program comes from that.

| Component | State | Operations that change it | Hard because | Correct when |
|---|---|---|---|---|
| **Payslips** `payslips.service.ts` | `Payslip` rows, unique on (user, month, year); objects in S3; `AuditLog` | `uploadSingle`, `confirmBulk`, `uploadBulk`, `markAsRead`, `remove` | the duplicate check is far from the insert; row and object are in two stores without a common transaction; the key is the same for every upload of a month | one payslip per month; the PDF of a row is its own; a withdrawn PDF is gone; readings are kept |
| **Signature** `payslip-signature.service.ts` | `PayslipSignature`, unique on payslip and on code; flags of the row | `signPayslip` (download, hash, transaction), `remindUnsigned` | `isSigned` is checked before the download; the hash is of whatever the key holds then | signed once; flags, row and audit entry agree; the hash is of this month's PDF |
| **Storage** `storage.service.ts` | the bucket | `uploadFileWithRetry` (4 attempts with backoff), `deleteFile`, `getFileBuffer` | a command that failed may have taken effect | uploads end; deletions are not lost silently |
| **Account lifecycle** `departure.service.ts`, `departure-scheduler.service.ts` | `User.employmentStatus`, `isActive`, `noticeEndDate`, `readOnlyUntil`, `archivedAt` | departure with and without notice, `bulkDepart`, `reinstate`, `archiveDepartedUser`, two nightly jobs | nine writers of one row, each acting on an earlier read | a notice ends; who left is out; who is archived stays out |
| **Authentication** `auth.service.ts` | `Session` rows: refresh tokens, invitations, reset tokens; `User.isActive`, `passwordHash` | login, refresh (single use), logout, invitation, activation, lockout after five failures, reset | tokens are stored a statement after the checks; failures are counted in the audit log and not in the row | no session for an account that may have none; a token is used once |
| **Users** `users.service.ts` | `User` rows | create, edit, deactivate, reactivate, `bulkActivate`, photo, imports | they share the row with the two components above | the status and `isActive` make sense together |
| **Employee import** `users.service.ts` 1592-2045, `user-import-job.service.ts` | `User`, organisation rows; the job map with a replayed event stream | commit in batches with a row by row fallback; progress events, one final event, cleanup after ten minutes | partial failure; subscribers that arrive late or after the cleanup | the report counts what was committed; a subscriber sees one end |
| **Bulk upload** `payslip-bulk-temp.store.ts`, `confirmBulk` | map of analysed batches with an expiry | create, get, consume, delete, sweep; confirmation | the batch is read and not consumed; it is deleted although rows were reported as retryable; the memory belongs to one process | a batch is confirmed once; a retryable row can be retried |
| **Organisation** `organization.service.ts`, `org-resolution.service.ts` | directions, departments, services; the assignment of users | create, update, delete, creation of the names of an import | `updateService` moves a service and leaves its employees behind | references exist; every employee stays in the chart, once |
| **Notifications** `notifications.service.ts` | FCM device rows in `Session`, notifications | `registerDevice`, push to many, removal of dead tokens | find-then-create without a unique index; some sends fail | one row per device; a dead token is removed, a live one never |
| **Admin client session** `src/admin/src/services/api.ts`, `AuthContext.tsx` | stored tokens, `isRefreshing`, the queue of waiting requests | interceptor, restore at start-up, login, logout | the refresh token is single-use, and start-up does not go through the single flight | waiting requests are answered; a valid session is not thrown away |
| Companies, super-admin, dashboard, audit, e-mail, health, UI | | single-row updates, reports, wiring | | not modelled |

Interactions. `confirmBulk` calls `uploadSingle` per row. Upload, removal and
signature meet in the S3 key. The account services meet in the `User` row and
in its `Session` rows, which also hold the invitations, the reset tokens and the
push devices: a departure deletes them all at once. The import creates what
the organisation and the account services later edit, and `StaffImport` extends
`Organisation` for that reason. The client refreshes against the server's one-use
tokens, so `ClientSession` holds both ends. The bulk upload hands positions of
files from the page to the server's store and back, so `BulkUpload` holds both
ends too.

## 2. Modules and their correspondence with the code

### PayslipVault

One employee's row, PDF, receipt and audit entries, for any sets of employees
and months of a company.

| Variable | Code |
|---|---|
| `object` | the bucket, from key to PDF; a PDF is named by the upload that carried it |
| `rows` | the `Payslip` rows, named by the upload that created them |
| `isRead`, `readAt`, `isSigned` | the columns of these names; a time is named by the request whose clock gave it |
| `signature` | `PayslipSignature.fileHash`: the PDF that was hashed |
| `audit` | the `AuditLog` entries of the four payslip actions |
| `upload`, `removal`, `reading`, `signing` | the local variables and position of each request in service |

A handler is one action per awaited statement that matters: `UploadReadTarget`,
`UploadFindExisting`, `UploadPut`/`UploadPutFails`, `UploadCreate`/`Conflict`/
`Fails`, `UploadRollback`, `UploadAudit`/`Fails` are `uploadSingle` from top to
bottom, and likewise for the others. A transaction is one action. Failures are
the code's own paths: a PutObject or an insert that answers with an error may
have taken effect, the rollback swallows the failure to delete, `remove` does
not. `Crash` ends any request between two statements.

`Key` is the heart of the model: `buildPayslipKey` depends on company, employee
and month only, so all uploads of a month share a key. The model keeps exactly
this. Formatting of the key, content of PDFs, French messages, drawing of the
verification code (it may fail: `SignAbort`), and the access checks that only
compare ids are abstracted.

### PayslipLedger

The promise: per employee and month nothing, or one document that is unread,
then read, then signed, and can be withdrawn; a document is acknowledged at most
once ever. PayslipVault implements it under the mapping `LedgerView`/
`ReceiptsView` (property `ImplementsLedger`): whatever the requests, failures
and crashes, a client that only looks at the rows sees a run of the ledger. The
mapping says nothing of the PDF, and cannot: section 4, `SignedFileIntact`.

### EmployeeAccount

The life of one account; accounts do not interact. The five variables of `row`
are the columns; `sessions` and `invitations` are its `Session` rows; `admin`,
`client`, `noticeJob` and `readOnlyJob` say which handler is between the read it
decides on and its write. Each handler is two steps, `...Find`/`Select` with the
conditions of the code, then the write with all the columns the code sets.
`bulkDepart` and `initiateDepart` without notice share `DepartNow`: their checks
and writes are the same. Dates are compared with the clock and with nothing else,
so a date is `"future"` or `"past"`, and `TimePasses` turns one into the other.
HR chooses the departure date freely, so `readOnlyUntil` may be past from the
start; `noticeEndDate` is checked to be ahead, but may have passed when it is
written.

What the checks of login and refresh ask of the row are the operators `MayLogIn`,
`MayRefresh` and `ReadOnlyAccess`, which the actions and the properties share. They
compare `readOnlyUntil` with the clock, so an access that has run out is shut before
the nightly job clears its date, and also if the job never does: `archivedAt` is
never reset, and the job passes over an account that was archived once, brought back
and left again.

`Overlap` says whether handlers may overlap. The code does not prevent it; with
`Overlap = FALSE` the model asks whether each handler is right by itself in
sequences of any length. Deeper properties hold only then, and the difference is
the finding.

Left out: the audit entries and reasons, `mustChangePassword` (so the model lets
`bulkActivate` take more accounts than the code), the reset token (a reset is
possible when the code could have issued a token), the role of the account (it is
an employee's), the lifetime of refresh tokens beyond `SessionEnds`, and the
access token, a JWT that no service can revoke before it expires.

### ClientSession

One browser with its tabs, and the server's rows for its refresh tokens.

| Variable | Code |
|---|---|
| `stored`, `access`, `storedUser` | the keys of localStorage (`authStorage.ts`), shared by the tabs; the access token is only fresh or stale |
| `auth`, `user` | `AuthState` of each tab's `AuthContext` |
| `refreshing` | `isRefreshing` of `api.ts`, per tab |
| `request` | a request: sent, waiting in the queue, or leading the refresh; with the bearer it was sent with and its `_retry` mark |
| `post` | `POST /auth/refresh`, per tab and origin: the interceptor, or one of the two effects of a mount in StrictMode; the stages are those of `refreshTokens` on the server, and `waits` says whether the client still listens |
| `logout` | `POST /auth/logout` |
| `row`, `revoked` | `Session`: the sign-in a token's row comes from; the sign-ins whose row was deleted other than by a refresh |
| `excused` | history: the client was given a reason to lose its session |

What a tab does on an answer is one action, because JavaScript does not suspend
in between (`RefreshSucceeds` stores the tokens, tells the context, empties the
queue and clears the flag). On the server a refresh is `RefreshFind`,
`RefreshDelete`, whose count decides, and `RefreshPersist`, which comes after the
transaction and can be lost (`RefreshCrash`). Rows also expire or are revoked
elsewhere (`RowGone`); requests are given up and pages reloaded while the server
goes on. Tokens and sign-in numbers are taken up again when nothing refers to
them, which keeps the run finite without a bound on its length.

### BulkUpload

The pages `BulkUploadFlow`, `BulkAnalysisStep` and `BulkReviewTable`, the routes
`analyze-bulk` and `confirm-bulk`, and `payslip-bulk-temp.store.ts`.

| Variable | Code |
|---|---|
| `store` | the map of batches: the files of each |
| `confirm` | `confirmBulk` in service: assignments to do, lines of its report |
| `payslip`, `employed` | the `Payslip` rows by who created them; who may receive one |
| `step`, `analyzing`, `filesSent` | the flow's step and the list of files it sent |
| `batchId`, `rows`, `dbMap`, `check`, `edits` | the review table, its map of known duplicates, the checks under way |
| `submitting`, `report` | the confirmation the page waits for; the report on screen |

`Match` is the matcher's order of criteria: matricule in the PDF, closest name, file
name, with an employee who left ending the search; `Info` is what extraction and
the distance of names produce, so a model value can say what they found. Files are
known by position, in the page, in the batch, in the report and in the retry.
`uploadSingle` is two steps here, `UploadRead` and `Insert`, with the outcomes
that PayslipVault shows it to have: a refusal, a storage failure, a row that is
created, one that is created without its audit entry, the unique index, an insert
that fails, and an insert that is committed and whose answer is lost. The code
reports the last two alike; the history variable `unheard` keeps the slots of the
last, for `ReportTrue` to name. The object in S3 is left to PayslipVault. `ConfirmEnds`
is the end of the loop, and `ConfirmAborts` the look-up of an addressee that fails:
it is outside the inner `try`, so the rest of the assignments is dropped, the batch is
deleted and the page gets an error. What a confirmation has to do, and the lines of
its report, are sets: each carries the position `at` of its file, the loop takes the
least position first, and `InOrder` turns the positions to retry back into the list
that `filter` makes. `Restart` empties the store; `Expire` is the
30 minutes and the sweep.

### Organisation and StaffImport

`Organisation` has the rows of one company (`direction`, `department`, `service`,
and `staff`, which has e-mail, department and service of each matricule and says
which of the `Creators` made the account, HR or a commit), one action per handler of `organization.service.ts`,
`updateForRhAdmin` and `inviteEmployee`, and the chart and the tree as operators on
these rows. Handlers are single transactions or a check and one write; the unique
index on department names is the guard of the write (`NameFree`). It compares names as
they are written, so `Finance` and `FINANCE` may both exist. The import compares what
it makes of a name, and in two ways: `normalizeString`, in the page's resolution and
in `bulkCreateOrg`, drops case, accents and punctuation;
`normalizeImportOrgLabel`, in the dry run and the commit, keeps punctuation. Both are
constants of the model, functions on the names. Several rows may answer to one name
then; the code takes the last one read, in an order the database chooses, so a
resolution is any of them (`Labelled`, `DepartmentsGiven`, `ServicesGiven`).

`StaffImport` extends it with the import page (`page`, `mapped`, `dry`, `waiting`)
and the commits in service (`commit`). `Resolve` and `BulkCreateOrg` are the page's
mapping of the file's department and service to identifiers, some of them drawn by
the page for rows it asks the server to create. `ValidateImportRows` is the dry
run. Its answer for a row is an operator, `Status`: of its errors, those of the file
alone (the row repeats another, or has a date that cannot be read) are told apart as
`"fileError"`, because the commit judges the first by the rows that were ticked and
the second not at all: it leaves such a date out and writes the row. The page lets
rows with errors be ticked. A commit reads the organisation (`CommitReadsOrg`), then the accounts
(`CommitReadsStaff`), then works through its rows on what it read: `RefuseRow`,
`UpdateRow`, or a batch (`BulkCreates`, `BulkRefused`, `BulkFails`) with
`FallbackRow` for each row of a batch that failed. The lines of a file are taken
in their order (`First`). `Advance` is the loop between two awaits: `Batch` is the
longest run of creations at the front, up to the size of a batch, which goes to the
buffer. `quiet` is a history variable: nothing changed and nothing failed
since the dry run. HR administrators change the organisation at any moment
(`HrChanges`).

## 3. What is model-checked

| Run | Instance | Shows |
|---|---|---|
| `vault_safety` | 1 employee, 1 month, 2 uploads, 1 removal, 1 reading, 1 signature, 2 attempts | types; `OneRowPerSlot`; `ReceiptConsistent`; `LostFileHasCause`; `WithdrawnFileGone`; `ReceiptImmutable`; the refinement of the ledger |
| `vault_live` | 1 employee, 2 months, 2 uploads, 2 signatures, fairness | `SignatureOfSlot`, `SignedAuditExact`, `EveryUploadAnswered` |
| `vault_signed_file` | 2 uploads, 1 signature | violation of `SignedFileIntact` |
| `vault_read_audit` | 1 upload, 2 readings | violation of `OneReadEntry` |
| `account_overlap` | 2 HR requests, 1 device, 2 codes, overlapping, fairness | types; `NoticeHasEnd`; `PendingHasNoSession`; `EveryNoticeEnds`; `ReadOnlyAccessEnds` |
| `account_serial` | 1 HR request, 2 devices, 2 codes, no overlap | `EndedIsInert`, `AccessRevoked` |
| `account_archived_session` | 1 HR request, 1 device, overlapping | violation of `ArchivedRevoked` |
| `account_archived_return` | 1 HR request, 1 device, no overlap | violation of `ArchivedForGood` |
| `client_one_tab` | 1 tab, 2 requests, 6 tokens, 1 sign-in alive at a time, StrictMode, fairness | types; `OneRowPerLogin`; `RevokedForGood`; `SignedInHasTokens`; `NoParallelRefresh`; `DroppedForCause`; `QueueServed` |
| `bulk_distribute` | 3 files (one damaged), 1 employee, 2 months, 1 batch, 2 confirmations, 1 colleague, 1 edit per review | types; `PositionsAgree`; `ReportTrue`; `NoSelfConflict`; `RetrySendsFailures` |
| `org_import` | a file of 4 rows, 3 starting companies, names that differ in case only, 1 change by HR, 1 commit, batches of 2 | types; `ReportTrue`; `DryRunKept`; `ChartComplete`; `NoCollateral` |
| `org_map` | the same, names that differ in punctuation | violation of `OrgMapResolves` |

**Bounds.** A request is served once, so the sets of requests bound the
behaviours; nothing else does in PayslipVault but `MaxAttempts`, 4 in the code and
1 or 2 here: with 2 an upload retries and also gives up, and a further attempt
repeats the same step in the same state. Two uploads are what the conflict needs;
one removal between them gives every order of deletion and re-creation of the key.
Two months tell a key with the month from one without. Two signatures, or two
readings, are what a stale check needs. The account model has no counters: its
sequences are unbounded, and two HR requests plus a job plus a device give every
pair and triple of racing writers. The ones that matter race in pairs.

In `client_one_tab` two requests are one that leads a refresh and one that queues.
Six tokens are those a browser can refer to at one time: the stored one, and one
for each refresh, logout and answer that is under way; `TokensLeft` is the named
bound. One sign-in at a time means that the old one is over at the server before
the next begins; a second would only add rows that no refresh of the first can
reach, since a refresh keeps the sign-in of the row it deleted. The lengths of
sessions are unbounded.

In `bulk_distribute` a damaged file in front of a good one is what tells a position
in the list sent from a position among the readable ones. Two months for one
employee give two slots; one edit is enough to bring two rows to one slot. Two
confirmations are one that was given up and the one sent after it. A colleague's
upload, or a departure, may come between any two steps.

In `org_import` the four rows are one with a date that cannot be read, one of an
employee the company may have, and one that is there twice. Batches of two (50 in the code) let two rows
share a batch, or meet a row of another kind first. The three starting companies
differ in which of the file's names exist, as written or in another case, and so in
what the page orders; in whose account is there, one to update or the owner of an
e-mail of the file; and in whether there is a direction. One
change by HR is enough for each race between the reads of the commit and its
writes. Only one commit is sent; the invitation by HR is the rival writer. The file
names one department and one service, so rows differ in the employee and not in
the place.

**Symmetry.** In `vault_safety` only over uploads: they play identical roles. Its two action properties are unaffected by a permutation of uploads, and
the ledger maps them to its documents, which it treats alike too. The run has no
liveness property. `bulk_distribute` permutes its two confirmations, which differ in
name only, and its action property does not mention them.

**Deadlock** is not checked: requests are served once, so the vault legitimately
ends when all are answered; a departed, archived account whose codes are used up
may wait for ever; a browser, a review of a batch or an import may simply be left
where it is, and the bounded counters of the last two end.

**Fairness.** In PayslipVault each accepted request has weak fairness over all its
steps: the event loop resumes a handler when the awaited command has been answered
or has failed, and both are steps. Nobody is obliged to send a request. The
retries are bounded by the code and not by fairness. In EmployeeAccount the only
fairness is that of the two nightly jobs: each selects every night (weak fairness of
`NoticeSelect` and `ReadOnlySelect`), and its write is not the one that fails every
night (strong fairness of `NoticeWrite` and `ReadOnlyWrite`, since `JobsFail` can
interrupt it again and again). `EveryNoticeEnds` and `ReadOnlyAccessEnds` need nothing
of HR or of the employee. In ClientSession the
server works on each refresh it received and the tab hears an answer that has come
(weak fairness of `Server` and of `Hear`): the event loops of both do that. The
timeout of 30 s is an action too, but nothing relies on it, and nothing obliges the
user to do anything. BulkUpload and StaffImport have no liveness property and state
no fairness.

### Properties worth explaining

- `LostFileHasCause`. A row whose PDF is missing or replaced has exactly three
  possible excuses: its own rollback (insert committed, answer lost), a rival
  upload of the month that got past the duplicate check, or a removal. The
  property shows there is no fourth: a refused duplicate, a reading, a signature, a
  crash never touch the file.
- `WithdrawnFileGone` rests on `remove` deleting the object first and giving up if
  that fails. Swallowing the error, as the rollback does, would break it.
- `SignatureOfSlot`: even when the PDF is replaced under a signature in progress,
  the hash is that of a PDF of the same employee and month.
- `NoticeHasEnd` with `EveryNoticeEnds`: the job's filter `noticeEndDate <= now`
  overlooks an account without a date; none of the racing writers leaves one.
- `ReadOnlyAccessEnds`: when the read-only period of a departed account is over, the job
  clears its date and deletes its tokens and codes, unless it comes back, is archived or
  is given a later date. A job that clears the date first and fails, or overlooks the
  tokens, would never select the account again. One that was archived before is excepted
  by name: the job passes over it.
- `EndedIsInert` and `AccessRevoked`, with handlers one at a time. The first says that a
  departed or archived account is inactive and has no invitation that could revive it.
  The second is about the date: archived, or departed without a read-only period or past
  it, whether the job has noticed or not, the account is refused at login and at
  refresh and its password cannot be reset; archived, or cleared by the job, it has no
  refresh token left. A departed account past its date keeps its tokens until the job
  comes, or until they expire if it was archived before; they are of no use to it.
- `PendingHasNoSession`: HR can set `isActive` on an account that was never
  activated (reactivation, notice), so the login's own check of the status is what
  keeps it shut.
- `OneRowPerLogin` and `RevokedForGood`: the refresh finds the token, deletes it and
  counts, and inserts the next one later. Two refreshes of one token, or a logout
  in between, must neither fork a session nor bring one back. The count of the
  deletion is what decides.
- `DroppedForCause` and `NoParallelRefresh`: requests that expire together, and a page
  that is mounted twice, share one refresh, so the single-use token is not spent
  twice by the client itself. Both are claims about one tab. The map of pending
  refreshes in `auth.service.ts` 5 and the flag of `api.ts` live in one page, so
  two tabs can still spend one token twice although they share localStorage.
- `QueueServed`: every path out of the interceptor (success, refusal, time-out,
  reload) empties the queue.
- `SignedInHasTokens`: every place that clears the storage tells the tab.
- `PositionsAgree`, `RetrySendsFailures`: the position of a file is its identity in
  four places. A filter in any of them would send one employee's payslip to another.
- `ReportTrue` of BulkUpload: with two confirmations of one batch and a colleague at
  work, a success is a payslip that this confirmation created, and a retryable
  failure is one it did not create. The one exception is an insert that was committed
  and whose answer was lost (`unheard`): the code reports it as a technical failure, and
  the retry finds the payslip there.
- `NoSelfConflict`: the rows that the review sends never compete with each other,
  whatever edits, late duplicate checks and removals came before.
- `ReportTrue` of StaffImport: "created" means that this commit created the account.
  The one exception is a batch whose COMMIT succeeded and whose answer was lost
  (`lost`): the rows exist, and the fallback calls them taken.
- `NoCollateral`: a row that stood in a batch with a bad row is answered for itself.
- `DryRunKept`: what the dry run promises is kept when nothing intervenes and the names
  give one place. A row that is ready is created; an update is made, or refused for its
  place, since the dry run looks at the place in the file and the update at the one
  that results for the employee; a row refused for its place or its e-mail is not
  written. For a row refused for the file alone there is no such promise, and the
  property says what the code does: the commit writes it if it is ticked, without a date
  it cannot read, unless its double was ticked too.
- `ChartComplete`: `updateService` moves a service and leaves its employees behind, so
  an employee's service may belong to another department. The chart still draws each
  employee of a department once, and counts as many as the tree does.

## 4. Findings

1. **A signed PDF can be lost or replaced** (`SignedFileIntact`, run
   `vault_signed_file`). The certificate says that the SHA-256 guarantees the
   integrity of the signed document. Two uploads of a month that overlap share the
   key; the loser of the unique index has overwritten the winner's PDF and deletes
   the key on its way out, possibly after the winner's payslip was signed.
2. **PAYSLIP_READ is not only the first reading** (`OneReadEntry`, run
   `vault_read_audit`). `wasUnread` is a stale copy; two overlapping requests both
   write the entry.
3. **An archived account can keep a session** (`ArchivedRevoked`, run
   `account_archived_session`). A login, refresh or activation accepted before the
   archiving stores its token after it. A later refresh with it is refused as long
   as the account is inactive, and `bulkActivate` (finding 4) deletes it again.
4. **An archived employee can come back** (`ArchivedForGood`, run
   `account_archived_return`). The admin screen says an archived account can no
   longer be reinstated; `bulkActivate` looks at no status and sets `ACTIVE`.
5. **The import can go on with an identifier that no row has** (`OrgMapResolves`, run
   `org_map`). `bulkCreateOrg` re-uses a department of the same name that another
   administrator created meanwhile, as its documentation says. The page keeps the
   identifier it had drawn itself and not the one in the answer, so all rows of the
   file are then refused as having an unknown department; and a service of the same
   lot is created without its department.

## 5. What is proved

TLAPS proves every invariant and every action property of the passing runs, and the
refinement, for all values of the constants, under the assumptions that the modules
name. Null, None and Gone are no name, token, row or date of the system in each of
them (`NullAssumption`, `NoneAssumption`, `TokensAssumption`, `CodesAssumption`).
Besides that:

- PayslipVault: at least one attempt (`AttemptsAssumption`).
- EmployeeAccount, ClientSession: the ranges of `Overlap`, `StrictMode`, `MaxLogins`.
- Organisation: HR is one of the creators of accounts; the company one starts with has
  its foreign keys and unique indexes in order (`StartsAssumption`). PostgreSQL
  enforces them, and the theorem is about what the handlers do to them.
- StaffImport: a batch has room for a row; a row has a matricule and an e-mail, and dates
  that can be read or not; no
  account of the start was made by a commit that is still to be sent.
- BulkUpload: there are finitely many files, a selection names each of them once and is
  not empty (the page refuses an empty one); colleagues are not confirmations; the
  ranges of what extraction finds.

**PayslipVaultProofs**, `TypeCorrect`. TypeOK is not inductive: `SignFetch` reads
`object[Key(SlotOf(r))]`, which needs that the signed row has a slot. `TypeInv` adds
what the position of a request says about its locals: an upload that started has a
slot, attempts are left while it writes, a row's upload is past `payslip.create`,
and a removal, reading or signature points only to such a row. Frame lemmas
(`UploadFrame`, `RemovalFrame`, ...) say once what a step of one request leaves
alone; then there is one step per action.

**PayslipVaultSafety** builds on `TypeInv`:

- `NoDuplicatePayslip`: `OneRowPerSlot` is inductive relative to TypeInv. A lemma,
  `RowsStep`, names the only steps that change the stores of rows and flags.
- `ReceiptsAgree`: `ReceiptConsistent`, inductive in the same way.
- `ReceiptsKept`: the action property `ReceiptImmutable`, from the two above.
- `LossHasCause`: `LossInv` strengthens `LostFileHasCause` to uploads that have
  stored their PDF and not yet inserted their row. `ExplanationStays` is the key
  lemma: a cause, once there, never goes away.
- `WithdrawnIsGone`: `WithdrawInv` adds that a removal past its DeleteObject leaves
  a key that no longer holds the PDF of its row, and `GoneStays` that an upload past
  its insert never writes its PDF again.

**PayslipVaultRefinement** builds on both:

- `AcknowledgesOwnPayslip`: `SignatureOfSlot` from `PlaceInv`, which follows a PDF from
  its upload to the bucket, to the hash of a signature in progress and to the
  signature: it is always one of the employee and month of the place it is found at.
- `OneAcknowledgement`: `SignedAuditExact` is not inductive, since a second entry could
  come once the signature is gone. `AuditInv` adds that an entry is of an upload past
  its insert, so that its row, once removed, is never created again.
- `VaultImplementsLedger`: the initial states map to the ledger's, and under
  `LedgerInv` (types, `OneRowPerSlot`, `ReceiptConsistent`, `AuditInv`) every step maps
  to a step or a stutter. `CreatesPublishes`, `UpdateReads`, `CommitAcknowledges` and
  `RemovalWithdraws` are the four steps a reader sees; `NothingToReport` is about all
  others. `OneRowPerSlot` is what makes the mapping, a CHOOSE of the row of a slot, a
  function of the state that a step changes at one slot only.

**EmployeeAccountProofs**:

- `AccountTypeCorrect`; `NoticesAreDated` and `PendingIsOut` from `OverlapInv`, the
  conjunction of the two with the types, with handlers overlapping.
- `LeaversAreInert` and `LeaversAreOut`, under `~Overlap`. The second is about every
  departed account without access, cleared by the job or not: `InertHasNoWayIn` takes it
  from the first, and `TokensGone` is the invariant for the tokens. Neither is inductive: a
  handler between its steps could have read anything. `SerialInv` adds `OneAtATime`
  (at most one handler is between its steps) and `StillAccepted` (what it read still
  holds).

**ClientSessionProofs**, for any number of tabs:

- `SessionTypeCorrect`. `TypeInv` adds to TypeOK that a refresh that was sent has a
  token (`PostHasToken`), without which an answer could store none.
- `NeverForked` and `StaysRevoked`, from `RotationInv`. Neither property is inductive:
  a refresh that has found its row acts on it later. `KnowsLogin` says that the row it
  found, if it still exists, belongs to the sign-in it read, which rests on tokens
  that are referred to never being given out again. `ShrinkFrame` deals once with all
  steps that only take rows and refreshes away; finding, deleting, persisting and
  signing in have a lemma each.

The other three theorems have the hypothesis `OneTab`: they are false of two tabs, which
spend each other's token (the interleaving is among the hazards). For any number of
requests:

- `SignedInTabHasTokens`: `SignedInHasTokens` is inductive relative to TypeInv.
- `NoTokenSentTwice`: `WaitInv` says who waits: the restoration of the session exactly
  while the page is loading, and then nothing else is under way; the second effect of
  a mount never. So the interceptor's refresh and the start-up's never overlap.
- `SessionDroppedForCause`: `DroppedForCause` says that a client without an excuse keeps
  its session, so the invariant is `UnexcusedInv`: without an excuse, `HeldInv`. The
  stored token has a row or is being exchanged by a refresh the tab waits for
  (`StoredLive`, `WaitedLive`); a refresh that nobody waits for any more, or a logout,
  holds no token the client relies on (`StraysHarmless`, `LogoutsHarmless`); and the
  tab shows what the storage has (`ShownHeld`).

**OrganisationProofs** shows that every handler of HR keeps `OrgInv`, the foreign keys and
the unique indexes, and that `ChartComplete` follows from it (`ChartFollows`): the
chart partitions the employees of a department into those of its services and the
others, so `updateService` cannot lose or double one. They are lemmas because
`HrChanges` makes these handlers steps of the import too; the theorem is there.

**StaffImportProofs**, with any number of commits sent and given up, and HR at work between
any two of their steps:

- `ImportTyped` and `ChartStaysComplete`: the import keeps `OrgInv`, which rests on
  `BulkCreates` inserting a batch only if every row of it meets the keys.
- `ReportTellsTruth`: `Faithful` adds to `ReportTrue` what a line still to do is: its
  account is not one the commit made (unless a COMMIT lost its answer), and it shares
  neither matricule nor e-mail with another line done or to do (`TwiceInFile` has
  refused those). Without the second, an earlier row could be taken for the later one.
- `RefusedForItself`: the action property `NoCollateral`, from that invariant.
- `DryRunTold`: `QuietInv` follows the one commit that the page waits for.
  Until it has read the accounts, they are those of the dry run (`AsValidated`);
  afterwards each line still to do is `Foretold` by what the dry run said of it: an
  error of the place or the e-mail is exactly a line whose e-mail is taken. Each
  line of the batch is `Fresh`, so the batch is not refused, and each line answered is
  as `Promised`. `FirstIn` and `LastIn`, on lines in order, and `BatchFits`, on the
  operators of the loop, are the lemmas about data that it uses.

**BulkUploadProofs**, with any number of batches, confirmations, colleagues and departures:

- `BulkTyped` and `SamePositions` from `FlowInv`: the list the page sent stays that of
  the review and of the report it comes to, because nothing is analysed while a review
  or a report is open; so positions in a confirmation and in a report are positions in it.
- `LinesTellTruth` and `NoRowAgainstAnother` from `ConfirmInv`: a confirmation is asked
  for no slot twice and for none that has its line, and an insert that is due is for a
  slot it has not filled. A slot never leaves
  `unheard`, so a line once excepted stays so. `ConfirmOf` deals once with what a step of one confirmation
  does to the others, and `LineTold` with a line that is added.
- `RetryExact`: the action property `RetrySendsFailures`. Its lemma `Listed`, that
  `InOrder` enumerates a finite set of numbers without gap or repetition, is a
  pigeonhole argument on cardinalities; `RetryList` applies it to a report.

**Only model-checked.** Liveness (`EveryUploadAnswered`, `EveryNoticeEnds`,
`ReadOnlyAccessEnds`, `QueueServed`) is out of the prover's reach: it has no support for ENABLED. The
findings of section 4 are counterexamples, and they are found by the runs.

## 6. Plan

1. *Done.* PayslipVault with its ledger; EmployeeAccount; their proofs.
2. *Done.* ClientSession, with the rotation of refresh tokens as its server.
3. *Done.* BulkUpload, and Organisation with StaffImport.
4. *Done.* `SignatureOfSlot` and `SignedAuditExact`; the refinement of the ledger; the
   claims about one tab; the keys of the organisation; the import and the bulk upload.
5. Left to model: two tabs that share the storage; registration of push devices and
   the fan-out with dead tokens; the count of failed logins under parallel
   attempts; the job of the CSV route with its event stream and late subscribers.

## 7. What is not modelled, and why

Company and platform administration are single-row updates that no other service
reads back; dashboards, audit reports and exports only read; e-mail, health checks
and configuration are input and output; the React pages other than the three
protocols above present the API's answers. They are the larger part of the lines of
the repository, and there is no state in them for a property to be about.

Notifications are calls of an outside service and writes of one row each, apart from
the race in `registerDevice`, which is listed as a hazard.

Of components that are modelled in part: `uploadBulk`, an older route that no page
uses; the CSV route `importEmployees` with its job stream; profile edits and photos;
presigned URLs; the count of failures at login and the reset tokens (the lock
that follows the fifth is modelled, on whatever the account has become); the
impersonation link, a sign-in that comes with the URL and again with each of sixty
messages from the tab that opened it (a message that arrives after a refresh puts a
consumed token back, so `DroppedForCause` is not claimed of such a tab); the file's
directions in an import, which no row uses. Extraction of text from PDFs, parsing of CSV and Excel,
the distance of names and the votes for a parent department are heuristics whose
result only suggests a decision: the models take any result. The mobile application
is not in the repository beyond its mention in the README.
