# Veridoc in TLA+

Veridoc takes an uploaded invoice through scanning, OCR, provider extraction,
deterministic verification, explanation and a verdict; it keeps reference data
(invoices, purchase orders, vendors) with an administrator's audit log, and a
review workflow in which people claim, escalate and decide frozen results.
This directory is a formal model of that program: TLA+ modules translated from
`src/src/veridoc/`, TLC configurations that check them on small instances, and
proofs that TLAPS checks for every instance.

Paths below are relative to `src/src/veridoc/` unless they start with `docs/`.

## 1. Inventory

| Component | Source | State it keeps | Operations | Works with |
|---|---|---|---|---|
| Review workflow store | `review/persistence/sqlite.py`, `review/transitions.py`, `review/models.py` | tables `review_cases`, `review_events`, `review_idempotency_keys`; the SQLite write lock | create, assign, escalate, decide; replay of a key; get and list | called by the review handlers in worker threads; validated by migrations, backup and restore |
| Review handlers | `review/api.py` | none of its own | one handler per operation, pre-check of a create before its document is processed again | store, sessions, processing service |
| Review sessions and login | `review/persistence/sqlite.py` (session methods), `review/auth.py`, `review/config.py` | table `review_sessions`; the actors file, read anew for every request | login, authenticate, logout, revoke one or all, list, prune | handlers, maintenance job, CLI |
| Reference store and audit log | `persistence/sqlite.py`, `administration/*` | invoice, purchase order and vendor tables; `admin_audit_log` | create, update, delete, import (dry run too), list, audit | admin API and CLI; verification and vendor resolution read it |
| Backup and restore | `persistence/maintenance.py`, `review/persistence/maintenance.py`, `deployment/maintenance.py` | backup files, a staging file, the live database file | backup, verify, atomic replace, restore, retention, session and quarantine pruning | both stores, quarantine |
| Schema migrations | `persistence/migrations.py`, `review/persistence/migrations.py` and `schema.py` | the schema version of a database file | migrate forward inside one transaction, validate | run at start-up, by backup and restore |
| Upload scanning | `scanning/service.py`, `clamav.py`, `config.py`, `protocol.py` | none | scan, fail closed, quarantine a positive | ingestion, quarantine |
| Quarantine | `scanning/quarantine.py`, `scanning/cli.py` | `objects/<digest>`, `manifests/<digest>.json` | quarantine, release, dispose, list | scanning (server), operator CLI, maintenance job: three processes on one directory |
| Request and body limits | `deployment/limits.py`, `deployment/scope.py`, the body limit middleware of `app.py` | token buckets per client, a concurrency semaphore | admit, wait, refuse, refill, prune | wraps every request |
| Application shell, readiness | `app.py`, `deployment/readiness.py`, `__main__.py` | none | error mapping, probes, request ids | everything |
| Ingestion | `ingestion/*` | a temporary directory per document | bounded read, signature check, decode limits | scanning, OCR |
| OCR | `ocr/*` | the process-wide Tesseract lock and command | recognise each page within a byte budget | ingestion, processing |
| Extraction | `extraction/*` | none | provider call, evidence grounding | processing |
| Verification rules | `verification/*` | none | some twenty pure rules over an extraction and its history | reference store, processing |
| Vendor resolution | `vendors/*` | none | tax id, bank account, alias, similarity, in that order | reference store, verification |
| Explanation | `explanation/*` | none | provider drafts, guard rails, deterministic fallback | processing |
| Processing and verdict | `processing/*` | none | the stages in order, the verdict | all stages, review handlers |
| Telemetry | `telemetry/*` | counters under a lock | count, snapshot | every request |
| Evaluation | `evaluation/*` | none (batch) | metrics, confidence intervals, the go/no-go decision, drift | processing offline |
| Evidence bundles, pages | `review/evidence.py`, `review/page.py`, `review/console_page.py` | none | export, verify a digest chain, render | review store |

### What is hard here, and what makes each part correct

*Review store.* Requests run in worker threads, each on a connection of its own.
A request reads its key, then its case, in autocommit, and only its first write
takes SQLite's write lock, so everything it decided (authority, transition,
version) may be out of date when it writes. It then writes three tables, may
lose the race for its idempotency key after two of them, may time out on the
lock after five seconds at any statement, and may be killed. Correct means: the
history of each case stays a gap-free chain ending in its row; authority holds
by the history, not only by the row that was read; a key stands for one event
and a retry gets the same answer; a decided case is final; every request ends.

*Reference store.* Updates and imports take the write lock before they read,
deletes and creates do not. Correct means: the audit log replays to the tables.

*Quarantine.* Two renames and an unlink, no lock, three processes. Correct
means: a rejected upload is kept, a decision is made once, disposed bytes go.

*Sessions.* A request reads the actors file, the session and the clock one after
the other while all three change; expiry is a time in Python and a text in SQL.
Correct means: what acts was usable when it arrived, an old secret is locked out
after the runbook's rotation, and pruning takes only what is over.

*Limits.* One semaphore, created once, and one bucket map in one event loop.

*Backup, restore and migrations.* Processes start on one file, migrate it, copy
it, prune lists that may be out of date, replace the file, and die at any step.
Correct means: the name always holds a file that some transaction left, every
published backup can be restored, the newest ones stay, and nothing is refused
without a reason.

*Verification, vendors, verdict, explanation, evaluation.* Pure code full of
optional fields, thresholds and rounding. Correct means: rules neither
contradict one another nor report on absent evidence; the resolution order is
respected; the verdict agrees with the findings; provider text never replaces
evidence.

## 2. Plan

In order of importance; a later module may use an earlier one.

| # | Module | Models | Abstract specification | Runs and bounds | Theorems |
|---|---|---|---|---|---|
| 1 | `ReviewTransitions`, `ReviewStore` | review workflow store, evidence bundles | `ReviewLedger` | two request slots, one or two cases | every safety property of the runs; refinement |
| 2 | `Quarantine` | quarantine directory, its three kinds of process | none | two digests, one operator and the job, one failure | every safety property |
| 3 | `ReferenceStore` | reference tables and audit log | `AuditLedger`: a log that replays to the tables | two administrators, two records, four entries | every safety property; refinement |
| 4 | `UploadPipeline` | read, head check, scan, decode, OCR, extract, verify, explain, verdict | none | two uploads, two worker threads, one cancellation | every safety property |
| 5 | `VerificationRules`, `VendorResolution`, `Verification` | the rules as operators, `verify` as the sequence of its reads | what an accountant expects (`InGoodOrder`, `Familiar`) | families of invoices, up to two writes meanwhile | every property; what three deviations mean; due dates |
| 6 | `ReviewSessions` | login, logout, authentication, rotation, revocation, pruning | none | two requests, two sessions, one edit, a clock of two instants a second | every property |
| 7 | `StoreMaintenance` | migration, backup, retention, restore of both stores' files | none | two processes, two stores, three seconds, one restore | all five properties |

All of it is done. What the plan leaves out, and why, is in section 10.

Recursion is written as recursive functions or folds in every module that is
proved about. Constants carry named assumptions next to their declaration.

## 3. The review store

### Modules

* `ReviewTransitions`: statuses, operations, event types, the transition table
  (`_ALLOWED_TRANSITIONS`), the authority rule (`authorize_operation`), event
  records and their shape (`ReviewEvent`), and the assignee at a version.
* `ReviewLedger`: the promise. One ledger that grows by one event at a time,
  each the legal and authorised successor of its case's last event, under a
  key not used before. No rows, locks, retries or concurrency.
* `ReviewStore`: the code, one action per SQL statement of a request; and
  `BundleVerifies`, what the offline verifier of an evidence bundle asks of a
  case (`_verify_event_chain` of `review/evidence.py`). The verifier asks less
  than the store does: it compares neither an event's prior status with the one
  before nor the assignee with the events.
* `MCReviewStore` and `Review*.cfg`: the instances TLC checks.
* `ReviewStoreProofs`, `ReviewStoreSafetyProofs`: the theorems.

### State and actions

`cases`, `events` and `keys` are the committed tables. `writer` holds SQLite's
RESERVED lock, `pend` the uncommitted writes behind it. Each request slot `r`
has its next statement `pc[r]`, its request `req[r]`, the row it read
(`seen[r]`), the version a replay must return (`found[r]`), the timestamp it
took (`stamp[r]`) and the answer (`reply[r]`).

| Action | Code |
|---|---|
| `Arrive` | a handler of `review/api.py` is entered with a validated body |
| `Precheck` | `get_idempotent_case`: key, row and events on one snapshot, before the document is processed again |
| `Process` | `service.process`, which may fail or freeze any snapshot |
| `Lookup` | the key SELECT of `create_case` or of `_find_replay`; leads to a replay, a conflict, or onward |
| `ReplayRow`, `ReplayEvents` | the row and the events of a replayed case, in two more autocommit statements |
| `ReadRow` | the case SELECT, version check, authority, transition, reason, in the code's order of refusals |
| `Write` | the INSERT or the guarded UPDATE that opens the transaction |
| `AppendEvent`, `RecordKey` | the two INSERTs under their UNIQUE indexes |
| `Resolve` | `_resolve_after_idempotency_conflict`, after its rollback |
| `Commit` | the read-back (`_case_detail_from_row`) and COMMIT |
| `Busy` | any statement raises `sqlite3.Error`: rollback, 503 |
| `Crash` | the process dies; the journal rolls the transaction back |
| `Tick` | the wall clock moves, back too unless `MonotoneClock` |

### What is abstracted

* Times are small numbers; identifiers, documents, decisions and snapshots are
  model values; a reason is given or not given. SHA-256 is taken as free of
  collisions, so a digest is the thing digested.
* SELECTs before the first write run in autocommit, which is what the `sqlite3`
  module does in its default (legacy) transaction control; the database uses
  a rollback journal, so one writer and any number of readers.
* The API always requires an Idempotency-Key, so requests without one (which
  the repository's signature allows) do not arise.
* The target of an assignment need not be in the actor directory in the code;
  in the model it is one of `Actors`.
* `create_case` draws its uuid4 inside the repository; the model reserves an
  unused identifier when the request arrives, which no step before the INSERT
  can tell apart.
* Replays return the events up to their version too; since events are never
  changed and one to one with versions, the model's replies leave them out.

### Runs

| Run | Question | Bounds |
|---|---|---|
| `ReviewWorkflow` | are the tables valid (`StoreValid`: histories whole and chained, keys and events one to one, bundles verify), is every transition justified by what was committed before, do the store's last defences (`NoInternalRefusal`) never refuse a request that passed its checks, is a decision final and the ledger implemented, when a reviewer and an admin race for every version of a case, with crashes, lock time-outs and a clock that may be set back? | 2 slots, 1 case, 10 offers reaching version 4, clock 0..1 |
| `ReviewReplay` | is every ok answer recorded, do equal requests get equal answers when keys are reused for other cases and bodies, and is every request answered? | 2 slots, 2 cases, 6 offers, 2 snapshots |
| `ReviewTornReplay` | expected violation: a replay torn by a commit between its two reads is answered 503 | 3 offers |

Two slots are enough for what can race here: the store's steps are pairwise
conflicts on one row, one key or the lock, and a slot is reused for any number
of requests in turn. The offers are the requests that make each guard decide
both ways; `caseA` is the first case created, so offers can name it in advance.
`Slots` makes the two slots symmetric; it is not used where liveness is checked.

### Fairness

`Fairness` says that a request takes its next statement or fails. It is weak
fairness of `Advance(r) \/ Busy(r)`, and the code justifies it: a worker thread
keeps running, and a statement that cannot have the lock raises after the
default five second busy timeout. Nothing is assumed of arrivals, of the clock
or of crashes.

### What is proved

The assumptions are those named in `ReviewTransitions` and `ReviewStore`:
`NoActor`, `NoCase`, `NoRequest`, `NoDecision` are no members of their sets, and every
offer is a request the API's models accept. Sets may be infinite, and so may
the number of request slots.

1. `TypeCorrect` and `RequestsCorrect`: `TypeOK /\ RequestInvariant` is
   inductive. `RequestInvariant` is what the code relies on between two
   statements: the row a request read is the committed one or already outdated,
   and once it holds the lock it is the committed one; its transaction holds
   exactly what it computed from that row; a create's identifier is its own.
   The invariants a reader cares about are not inductive without it.
2. `StoreIsValid`, `TransitionsAreJustified`: with it, one step, the `Commit`,
   changes the tables, and what it appends extends a consistent history to a
   consistent history (`HistoryCorrect`, `KeysCorrect`), at the version the client
   named (`VersionsCorrect`). Authority is stated over the history alone
   (`AuthorityCorrect`), so the proof shows that the row the authority was judged
   by agrees with the history when the commit happens.
3. `DecidedFinal`, `LedgerImplemented`: from the same invariants, every `Commit`
   is a `Record` of the ledger and every other step leaves it unchanged.
4. `AnswersRecorded`: what an answer stands on. `LastDefencesUnused`: the UPDATE
   guard stops every loser before the UNIQUE index could, and a read-back fails
   only for a clock set back behind the case's last change. The events a
   transaction appends to are exactly the history its row was computed from.

5. `AnswersAreHistory`, `RetriesAnswerTheSame`: every ok answer, committed or put
   together by a replay from a row and events read apart, is the row its case had
   at the answer's version as the committed events tell it (`AnswersOfHistory`).
   Two answers of one scope stand on one key (`AnswersRecorded`), so they are of
   one case and version, and history has one row for these. `RecordInvariant` makes it
   inductive: every version up to the row's has an assignee in the history
   (`VersionsAssigned`), and a row read for a replay still agrees with the committed
   one in what never changes (`ReplayedRowsNamed`). A `Commit` only appends, so what
   history says of an earlier version stays.

Only model-checked: `EveryRequestAnswered`, which is liveness.

### Where documents and code part

The violation run shows a statement of the documentation that the code does not
keep; `PROJECT.json` quotes it under `findings`. It does not break the ledger: a
retry is answered 503 and succeeds when repeated. Two divergences have no run.

* `docs/architecture.md:318-319` says that "a losing writer that raced on the exact
  same key and body replays the winner's result instead of erroring". For
  assign, escalate and decide the loser finds the version moved, at its read
  (`sqlite.py:341`) or at the UPDATE (`sqlite.py:743`), and is answered 409 before
  its key could collide; only a racing create reaches the replay of
  `_resolve_after_idempotency_conflict`.
* An assignment of a case to the actor it is already assigned to is treated as a
  reassignment and refused without a reason.

## 4. The quarantine

### Module

`Quarantine` is `scanning/quarantine.py` one file operation at a time, with the
processes that call it: the server (`scan_upload_bytes` after a positive
answer), operators (`scanning/cli.py`) and the maintenance job
(`run_deployment_maintenance`). `MCQuarantine` and `Quarantine*.cfg` are the
instances; `QuarantineProofs` holds the theorems.

### State and actions

`manifest[d]` is `manifests/<d>.json`, `objects` the digests with a file
`objects/<d>`, `now` the wall clock. `upload` is what the server is doing,
`task[p]` what an operator or the job is doing, `todo` the entries the job has
listed and not yet come to. A step is one file operation, and the answer to whoever
asked is a step after the last of them, which a process may not live to.
`decided[d]` remembers who was told that their decision on `d` was carried out and
`tombstones[d]` who wrote "disposed"; the program keeps no such things, properties do.

| Action | Code |
|---|---|
| `Positive`, `ReadExisting` | `quarantine` looks for a manifest of these bytes; if there is one, it is the answer |
| `WriteTemp`, `RenameObject` | `_write_object`: a temporary file, then its rename |
| `WriteEntry` | the manifest is written the same way; its rename is the step |
| `Reject` | the upload is answered as positive |
| `Command`, `Read` | `release` or `dispose` reads the manifest and refuses what is missing or decided |
| `WriteDecision` | `_decide` replaces the manifest by the entry it read, now decided |
| `Unlink` | `dispose` removes the object |
| `Tell` | `release` or `dispose` returns: the operator is shown the entry, the job counts it |
| `List`, `DisposeNext` | the job lists the expired entries, then disposes of one after another; an exception ends its run |
| `FailUpload`, `FailDecision` | an `OSError`, or the death of the process, before any file operation or before the answer |
| `Tick` | the clock |

### What is abstracted

* A time is a number of ticks, a date the day it falls on. The comparison of a
  date with a date and time as text is what `Expired` says: true from the first
  instant of the day named. Microseconds and the offset suffix do not matter
  there, since a prefix sorts before every continuation.
* The digest stands for the bytes. A reason that is blank is refused before the
  first write, as `FailDecision` from `read`.
* Uploads are stored one at a time: the handler is synchronous between its
  awaits and one server process runs one event loop.
* The listing of the job is one step; a manifest that appears or is decided
  during it is met, or not, as if it had happened before or after. A manifest
  that cannot be parsed, which makes the listing raise, is left out.
* The clock does not go back. Temporary files that a crash leaves behind are
  under names nothing reads and are not part of the state.

### Runs

| Run | Question | Bounds |
|---|---|---|
| `QuarantineShared` | do the bytes on disk follow the entries (waiting ones kept, released ones unless another decider wrote its tombstone, those of an acknowledged disposal gone), is a rejected upload kept until its retention ends (`EvidenceKept`), is nothing reopened or lost, and is every expired entry decided in the end? | 2 digests, an operator and the job, 2 ticks a day, clock 0..2, 1 failure |
| `QuarantineTwoDecisions` | expected violation: an entry is decided twice | 1 digest |
| `QuarantineTombstone` | expected violation: the bytes of a tombstone stay | 1 digest, 1 failure |

Two digests show the job going from one entry to the next while an operator
decides either; two ticks a day show a scan late in its day; one failure is a
crash between any two file operations or before the answer, and a second one adds only more of the
same, since a failure leaves a process idle. An operator slot is reused for any
number of commands.

Fairness: every process takes its next step, and the job is run again after each
run, as the crontab of `docs/runbook.md` does. Nothing is assumed of
operators' commands, of uploads or of the clock.

### What is proved

`QuarantineProofs` proves every safety property of the run, for any number of
digests and operators and any retention: the types (`TypeCorrect`), what waits
has its bytes (`BytesKept`), a refused upload is kept and the job disposes of
nothing early (`EvidenceIsKept`, from `RejectionKept` and `RetentionKept`), an entry
is never lost or reopened (`DecisionsFinal`), what an acknowledged disposal (`DisposalUnlinks`) and a
release (`ReleaseKeepsBytes`) leave behind, which `BytesFollowEntries` sums up. The inductive invariant adds what a
process relies on between two steps: bytes about to get their manifest are
there and have none yet, since only the server makes manifests; the entry a
decider read has the times of the stored one; an unlink follows its own tombstone,
and an answer to a disposal follows its unlink; what the job has listed had expired
and stays so, since an entry's date is fixed and the clock only moves forward; where the
bytes of an entry are gone, some decider wrote a tombstone, and if the entry says
released, one other than the decider who released it (`EntryInv`).
`ExpiredAreDecided` is model-checked only.

### Where documents and code part

The manifest is read, tested and replaced without a lock, so two deciders that
overlap are both told that they decided (`QuarantineTwoDecisions`), and the
later one's manifest stays; a released entry can so be without bytes, also when the
disposal that lost died before it was told. And the
tombstone is written before the bytes are unlinked: when the process dies in
between, the bytes stay and a retry is refused as already decided
(`QuarantineTombstone`).

## 5. The reference store

### Modules

* `AuditLedger`: the promise. A log that grows by the entries of one request at
  a time, each a legal step of the record it names: created once under an
  identifier never used, keeping its kind and provenance, taking nobody's key,
  never brought back after its deletion.
* `ReferenceStore`: the code, one action per statement that matters to others.
* `MCReferenceStore`, `Reference*.cfg`: the instances.
* `ReferenceStoreProofs`: the theorems.

### State and actions

`rows` are the committed rows with their integer ids and children, `log` is
`admin_audit_log`. `writer` holds the write lock and `pend` the rows and the log
as its transaction sees them. Each slot has its next statement `pc[r]`, its
request `req[r]`, the row it has read (`seen[r]`), how far its import is
(`done[r]`, `counts[r]`) and its answer (`reply[r]`).

| Action | Code |
|---|---|
| `Arrive` | a handler of `administration/api.py` or a command of its `cli.py` starts |
| `Insert` | `create_*`: the INSERTs, which take the lock, under the UNIQUE indexes |
| `Begin`, `Change` | `update_admin_*`: BEGIN IMMEDIATE, read, UPDATE and new children, read back |
| `Find`, `FindChildren`, `Remove` | `delete_admin_*`: two reads in autocommit, then the DELETE, which takes the lock |
| `Audit` | `_insert_audit_entry` |
| `ImportNew`, `ImportOver`, `ImportNothing`, `ImportConflict`, `ImportEnd` | `import_reference_data` and its three `_import_*`, one record after another, and the end of the batch |
| `Commit` | COMMIT, which waits for open read transactions |
| `ReadRow`, `ReadLines` | `get_admin_*`: BEGIN, the row, its children |
| `Fail` | `sqlite3.Error` at any statement, or the death of the process |

### What is abstracted

* The three kinds of record share one table of rows; ids and keys are unique
  per kind, as their indexes say. A vendor's aliases, bank accounts and tax ids
  are one part, `lines`, like the line items of the other kinds; the facts of a
  record are its `head`. Children of a shape the code rejects as malformed are
  left out.
* An update reads, writes and reads back under one lock, so that is one step.
* A new identifier (uuid4) is any that no entry of the log names; ids given
  again after a deletion are, as `INTEGER PRIMARY KEY` does without
  AUTOINCREMENT.
* The store starts empty. A migrated store, whose older rows no entry of the log tells
  of, is out of scope: there the log replays to the changes since.
* Listings read like `get`. `add_invoice`, `add_purchase_order`, `add_vendor` and
  `record_admin_action` have no caller in the program and are not modelled.
* Only reads arrive once the log has `MaxLog` entries.

### Runs

| Run | Question | Bounds |
|---|---|---|
| `ReferenceStore` | does the log replay to the tables with true before images (`LogTrue`), are reads of one version, do imports count what they did, and is the ledger implemented? | 2 slots, 2 identifiers, 11 requests, no change arrives once the log has 4 entries |
| `ReferenceDeletes` | expected violation: the before image of a deletion is not the record it deleted | 2 slots, the same without imports |

The imports are chosen so that each policy meets a record it may and may not
replace, a record named twice in one batch, an invoice that shares its
provenance with a purchase order (allowed), a natural key owned by another
record, and a simulation. Two identifiers are enough for a key to pass from one
record to another; two slots for every race on the lock.

### What is proved

From the assumptions named in `AuditLedger` and `ReferenceStore` (the missing
values are no members of their sets; each offer is a request the models of
`administration/models.py` accept), for any number of slots, records and
requests:

1. `TypeCorrect`: types, and the lock is held exactly between a transaction's
   first write and its end.
2. `LogIsTrue` (from `TablesReplay` and `ReplacedImagesHold`), `ReadsHold`: the tables can be read off
   the log, the before image of an update or an import is the record as the
   entry before left it, a read returns one version. The inductive invariant
   `SafeInv` says what a transaction has done so far: its rows differ from the
   committed ones in its target only (or replay its own log), its entries extend
   the committed log legally, ids and keys are unique in what it sees.
3. `LedgerImplemented`: only `Commit` moves the log, and as `AuditLedger` says.

4. `CountsAreTrue`: what an import or a dry run answers. `TallyInv` counts along with
   the loop: after `done` records the three counts add up to `done`, and the log the
   transaction sees is longer than the committed one by those created or replaced,
   by none in a dry run. While one slot holds the lock nobody else moves the log.

### Where documents and code part

Deletions read before they have the lock, so the log's before image of a
deletion may be of an earlier version, and two deletions of one record may both
be logged (`ReferenceDeletes`). The replay of the log is not affected: a
deletion's after image is null either way.

## 6. The upload pipeline

### Modules

`UploadPipeline` is what /ocr, /extract and /process of `app.py` do with an
upload, and POST /review/cases with them: `ingestion/`, `scanning/service.py` and
`clamav.py`, `ocr/`, `extraction/`, `explanation/`, `processing/`. `MCUploadPipeline`
and `UploadPipeline.cfg` are the instance, `UploadPipelineProofs` the theorems.

### State and actions

A request is a task of the event loop (`pc`, `route`, `status`). Its scan
(`scanner`) and its OCR (`job`) run in threads of the default executor, of which
there are `Workers`; a task that stops waiting, at a deadline or because it is
cancelled, leaves a running thread to itself. `lock`, `command` and `previous` are
`_TESSERACT_LOCK`, the module global `tesseract_cmd` and the local
`previous_command`. `pages`, `read`, `held` and `images` count what the OCR thread
has done, `temporary` holds the requests whose directory is on disk, `clients`
the provider clients each has open, `scans` the counters of the registry.
`findings`, `explanations` and `verdict` are the result of /process.

| Action | Code |
|---|---|
| `ReadUpload` | `read_bounded_upload`, `validate_upload_head`, then the first lines of `scan_upload_bytes` (`BeginScan`) |
| `ScanStart`, `ScanEnd` | the thread of `_scan_sync` starts and ends |
| `ScanTimeout`, `ScanClean`, `ScanFound`, `ScanUnavailable` | what `scan_upload_bytes` does with the deadline or the verdict |
| `Decode` | `decode_validated_upload` |
| `Depend` | the dependencies of the route, in their order |
| `OcrStart`, `RenderPage`, `TakeEngine`, `Recognize`, `OcrFinish` | `OCRService._process` in its thread, page by page |
| `OcrAnswered`, `Extract`, `Verify`, `Explain` | the stages of the graph as the task sees them |
| `Close` | the answer is out, the dependencies with a `yield` are closed |
| `Cancel` | the task is cancelled at any of its awaits |

### What is abstracted

* A document is its number of pages and the sizes of their images; a finding is
  its severity; a narrative is the index its draft named and whether the guard
  rails let it through. Whether a span occurs on its page is an input.
* The event loop runs a task from one await to the next, so the steps between
  two awaits are one action. A short job in a thread (head check, decode,
  verification) needs a free thread and is one step; scans and OCR last. The
  dependencies of a route are one step: nothing they open depends on others.
* The scanner, Tesseract, the provider and SQLite are external and answer
  anything their callers distinguish. Bytes already in quarantine are the
  business of `Quarantine`; here a detection is stored or not.
* The process is not killed; a temporary directory it had then stays, and
  nothing in the code looks for it.

### Run, bounds, fairness

`UploadPipeline` asks whether scanning fails closed, the counters say what
happened, engine, disk and clients are as before (`ResourcesRestored`), a
successful answer is complete and in order, and every request ends. Two
requests meet at every shared thing (the lock, the command, the threads);
two workers let a scan that was given up block one thread while the other goes
on; two pages of one or two units under a budget of two fit or not because of
the page before; two findings have an order to get wrong; one cancellation
happens at any await. The five environments are the complete one, one without
scanner and command, and one for each broken part. Three severities would add
nothing to two, since only their order is used.

Fairness: a task is run again when what it waits for is there, a thread goes
on. The code justifies it by its deadlines: the scan's `wait_for` and socket
timeout, Tesseract's timeout, 120 seconds for a provider call, SQLite's five.
Nothing is assumed of arrivals and cancellations.

### What is proved

For any set of requests, any number of workers, pages and findings, any budget
and any set of environments: every safety property of the run. The
inductive invariant `Inv` adds, for each request, what its place says of its
scan (`ScanInv`: bytes past the scan had their own clean answer), of its thread
(`PagesInv`: pages are read one by one and images keep pace), of what it holds
(`HeldInv`) and of its result (`ResultInv`); for the engine, that the command a
thread will put back is pytesseract's own; for the counters, that the sets they
count are finite. A step of one request leaves the invariants of the others
alone (`Frame`), so each is proved for the request that moves. That the worst
severity exists (`HighestIsWorst`) and that drafts accepted by the guard rails
give every finding its own narrative in whatever order they came
(`NarrativesMatch`) are lemmas of their own. `EveryRequestEnds` is model-checked
only.

### Where documents and code part

`scanning/service.py:8` says "Every scan outcome is counted". An invalid
configuration and a cancellation end a scan uncounted; `ScansAccounted` says which
ones are counted.

## 7. Verification

### Modules

* `VerificationRules`: each `check_*` function of `verification/` as an operator
  from what it reads to a set of findings.
* `VendorResolution`: the registry's finders, the order of `resolve_vendor` and
  the four rules of `vendor_rules.py`.
* `Verification`: `VerificationService.verify` while administrators write. It is
  what happens inside the `Verify` step of `UploadPipeline`, where only the
  severities of the findings are left of it; the writes are commits of
  `ReferenceStore`, of which only the committed rows matter here.
* `MCVerification`, `Verification.cfg`: the instance; `VerificationProofs`: the
  theorems.

### State and actions

`invoice` is the extraction, `tables` the committed rows one verification can read
(the invoices of its vendor key in insertion order, the one order it names, the
vendors), `past` every content the tables have had since the start, `pc` the
next read, `names` the name candidates still to be looked up, `history` and
`resolution` the values `verify` keeps, `findings` what it has found.

| Action | Code |
|---|---|
| `CheckFields` | the rules that read the invoice only (`service.py:64-77`); the clock is read twice |
| `ReadHistory` | `list_vendor_invoices`, `check_duplicate_invoice_number` |
| `ReadOrder` | `check_purchase_order` with its read of the order |
| `MatchTaxId` ... `MatchSimilar` | `resolve_vendor`, one action for each query |
| `ReadVendor` | `get_vendor_by_id`, then the four vendor rules |
| `CompareHistory` | the historical rules, on the history read at the start |
| `ReadOrderAgain` | `check_purchase_order_ceiling` with its own read of the order |
| `Unavailable` | a query raises; the whole verification fails |
| `AddInvoice` ... `UpdateVendor` | an administrator's commit between two reads |

### What is abstracted

* Amounts are whole hundredths, so a tolerance of two is the code's 0.02. Means
  and deviations are compared by cross-multiplication, exactly; the code divides
  Decimals of 28 digits. A product of two amounts of 24 digits may be rounded
  by the code and is not here.
* Dates are whole days, day 0 a Monday. Payment terms are what
  `parse_payment_terms_days` reads in them, and which wording it was.
* Names, codes and numbers are taken as printed; what the normalisations make of
  them are constant functions. There are two for names (`normalize_vendor_key`
  for `KeyOf`, `derive_canonical_vendor_key` for `SlugOf`) and two for codes (Python's
  `PlainOf`, SQL's `StoredOf`), as in the code, and they differ there too. An empty
  name or code counts as absent, as the code's truth tests make it.
* The similarity of two names is a constant table in ten thousandths.
* Of a finding its type, severity, field and line are kept.
* `parse_payment_terms_days` bounds days to three digits; a sum beyond
  `date.max` ends the verification in an error.

### Run and bounds

`Verification` verifies 7672 cases. One invoice that earns its clear verdict is
varied one group of rules at a time: 288 combinations of header amounts, up to
three lines against up to three order lines, dates around weekends, the
staleness limit and both clock readings, histories of up to ten invoices (nine
and ten equal values around the three deviations), registries of up to two
vendors out of six, with shared codes, aliases, keys and nearly equal names.
In 97 cases administrators write once or twice between any two reads, among
them orders put into a currency that can be compared with the invoice's and one
that cannot. Two writes are what it takes to hide and restore a row. `writes` bounds them,
`MaxHistory` the history.

The run asks: is a verdict of clear earned (`ClearIsEarned`), do outliers,
mismatches and due date flags have a cause (`FlagsAreReal`), does the strongest
evidence name the vendor (`StrongestEvidenceDecides`), are a foreign account
(`ForeignAccountFlagged`), an overdrawn order and an unordered line
(`OrderIsALimit`) flagged? A verification ends, so a state
without a successor is no error. `InGoodOrder`, the part of `ClearIsEarned` about the
invoice alone, concedes what the rules concede: a total other than the subtotal when
neither tax nor discount is printed. Where tables change meanwhile, a property says
what must hold of some or of every content they had (`past`): the reads are
separate transactions, and more does not hold.

### What is proved

From the named assumptions (the domains of the normalisations, that an absent
value is no vendor, that cases are well formed), for any invoices, tables and
writes:

1. `TypeCorrect`: every rule returns findings, and no write makes two vendors of
   one `vendor_id`.
2. `EvidenceDecides`. `EvidenceInv` says what each place of the resolution
   stands on: past the tax identifier, it is absent or was unknown in some
   content; past the account, the same of the account; after the resolution,
   one of the codes decided or neither did.
3. `ForeignAccountsAreFlagged`: `AccountInv` says it from the moment the vendor is
   read. It rests on `UniqueIds`: the row read again is the only one of its
   identifier.
4. `DueDateDecided`: the due date rule lets exactly the agreed day and the Monday
   after its weekend pass.

5. `ClearVerdictsAreEarned`, `FlagsHaveACause`, `OrdersAreLimits`, from two invariants
   (`VerificationCorrect`).
   `SourceInv` says that every finding comes from a rule over the invoice, the
   history that was read, or rows there were at some moment (`past`); `CheckedInv`, that
   every rule which is over has reported all it finds in such rows. What remains is
   about the rules alone: that none of them finding anything makes the invoice good
   and familiar (`ClearInvoiceInGoodOrder`, `ClearHistoryIsFamiliar`), and that a finding
   of one type comes from one rule and its condition (`InvoiceFindingsAre` and the
   like).
6. `InliersArePlausible`, `OutliersLieOutside`: what three deviations mean for any
   sample. The sums of `SumFunction` are taken over subsets of a finite set, of which
   one is smallest (`SmallestSubset`), so they are compared with polynomials of degree
   two without an induction over data (`SumOfQuadratic`): a variance is at most a
   quarter of the square of the spread (`VarianceWithinSpread`), so what is within
   three deviations is within one and a half spreads; and of n values none lies
   further from their mean than the root of n - 1 deviations (`FarFromTheMean`), so
   with fewer than ten a flagged value is none between two of them. With ten it may
   be, which is why `FlagsAreReal` says fewer.
7. `LinesAreChargedOnce`: `_check_line_items` takes, for each invoice line, the first
   free order line of its key. By the smallest line for which it would not be so,
   the line taken has the same rank among the order's lines of that key as the
   invoice line has among the invoice's (`TakenByRank`); ranks grow along the
   lines and leave no number out (`RankGrows`, `RanksAreTaken`). So no line is refused
   for which the order has one, in whatever order the lines are printed.
8. `OverbillingIsFlagged`: the first reading of the order compares currencies and the
   invoice's own total, the second adds what was billed before. The proof failed
   until the premise asked that the order's currency stay comparable with the
   invoice's, or stay not: an order put from the invoice's currency into another
   between the two readings passes both rules, as only the first looks at the
   currency and the second is silent where amounts cannot be compared. TLC shows it
   with such an order among the `OrderRows` when the premise is left out.

### Where documents and code part

No run is spent on these; they were met while modelling.

* `docs/data-and-security.md:211-213` speaks of "unique canonical keys", but the
  index of `persistence/migrations.py:224` is not unique and
  `get_vendor_by_canonical_key` takes one row of several. `MatchKey` picks any.
* A vendor deleted between its resolution and `get_vendor_by_id`, and an order
  deleted between its two reads, silence their rules (`vendor_rules.py:118-125`,
  `purchase_orders.py:86-92`): the premises of `ForeignAccountFlagged` and
  `OrderIsALimit` exclude it. So does an order whose currency is changed between
  its two reads.
* A blank invoice number passes the completeness rule and is passed over by the
  duplicate rule (`completeness.py`, `repository_checks.py`).
* Stored codes with an underscore or a tab are not found by the SQL finders,
  though the rules compare them as equal (`StoredOf`).

## 8. Review sessions

### Modules

`ReviewSessions` is login, logout and authentication (`review/api.py`, `auth.py`,
`config.py`), the session table (`review/persistence/sqlite.py:475-602`) and the
operator's commands on it (`review/persistence/cli.py`, the end of a maintenance
run). `MCReviewSessions` and `ReviewSessions.cfg` are the instance,
`ReviewSessionsProofs` the theorems. The requests it admits are those that arrive
in `ReviewStore`.

### State and actions

`sessions` are the rows by digest, `actors` the actors file, `now` the wall clock.
A request has its next step `pc[r]`, what it carries `req[r]`, the file and the row it
has read (`known[r]`, `seen[r]`); `cli` is the operator's command between its clock
and its statement. The program does not keep `cookies` (the sessions given to
clients), `edits` (the age of the file), `arrived` (what was true when a request
arrived) and `rotation` (how far the operator is with the runbook's steps);
properties do.

| Action | Code |
|---|---|
| `Login`, `Send` | a request arrives: a secret, present or former, or a cookie |
| `ReadDirectory` | `get_review_actor_directory`, anew for each request; a login is authenticated against it |
| `Issue`, `Insert` | `issue_session` takes the clock, `create_session` inserts the row |
| `Resolve`, `Check`, `Act` | `require_review_actor`: the row, then clock and role; then the operation |
| `Logout` | `revoke_session` |
| `Unavailable` | the file or the store cannot be read or locked: 503 |
| `Edit`, `Restart` | the operator replaces the file; the service is restarted |
| `StartCommand`, `RevokeActor`, `Prune`, `RevokeDigest` | `sessions revoke`, `sessions prune`: the clock, then one statement |
| `Tick` | the clock; it does not go back |

### What is abstracted

* A time is a number of ticks. `_format_datetime` writes no fraction when the
  microseconds are zero, so `TextLess` orders texts by second and, within one, puts
  the whole second after every fraction of it ("." sorts before "Z").
* A secret is a number, the present one the largest; a token is the digest it
  hashes to, which no other login gets. Headers of origin and CSRF protection
  keep no state. `list_sessions` reads only.
* The store of a request is opened before or after the file (the order of the
  handler's dependencies); opening it changes no session, so it is no step here.

### Run and bounds

`ReviewSessions` asks whether authority is fresh, a rotation locks the old secret
out and pruning takes only what is over. Two requests show a login in flight
while the operator rotates and another request acts; two instants a second are
what it takes to tell a text from a time; a life of one second on a clock of one
and a half (ticks 0 to 3) lets sessions expire and be pruned. There is one actor and
one role, so the one edit takes the actor out of the file or into it, or gives it a
new secret; what the other role may do is the matter of `ReviewStore`. No fairness: a request may wait for ever.

### What is proved

All four properties, for any number of actors, roles, sessions, requests, edits
and any clock. `FreshAuthority` needs to know, between two reads, that what was
usable at the check was usable at the arrival: a row, once there, is only revoked
or deleted, and time moves on. `RotationLocksOut` needs a case for each login that
was in flight: after the restart no request carries the old secret past
`authenticate_actor`, so every session of it is in the table when the revocation
runs; and it leaves only what its comparison of texts does. The last second is
part of both statements because the code passes over it.

### Where documents and code part

* `revoke_actor_sessions` says "Mark all active sessions"; a session in its last
  second may not be marked, and is active to `is_session_active` for the rest of it.
* `docs/runbook.md:139` and `docs/development.md:581-582` say that sessions revoked
  for longer than the window are pruned; the DELETE asks for the expiry only.

## 9. The files of the stores

### Modules

`StoreMaintenance` is what happens to the two database files: `migrate` when a
process starts on one (`persistence/migrations.py` and its twin under `review/`),
`backup_database` and `restore_database` (`persistence/maintenance.py` and its twin),
and `run_deployment_maintenance` with its retention (`deployment/maintenance.py`).
`MCStoreMaintenance` and `StoreMaintenance.cfg` are the instance,
`StoreMaintenanceProofs` the theorems. The disposal step of a run is the `Job` of
`Quarantine`, its last step the `Prune` of `ReviewSessions`; the transactions inside a
file are those of `ReviewStore` and `ReferenceStore`.

### State and actions

`db[s]` is the file that has the store's name: whether it is there, which file it is
(restores replace it), the schema version its ledger ends with, and whether its
content would be accepted. `journal[s]` is the rollback journal beside it, `holder[s]`
who has a transaction open. `backups[s]` are the published backups by the second in
their names. Each process has its next step `pc[p]` and what it works on, `task[p]`.
`damaged` and `begun` (a run has begun in this second) are kept for the properties
and the schedule.

| Action | Code |
|---|---|
| `Serve` | a request or command opens a store: `initialize`, `migrate` up to its first read of the versions, which a writer may shut out too long |
| `Lock`, `Apply` | BEGIN IMMEDIATE, the versions read again; the missing migrations, the validation, COMMIT or ROLLBACK |
| `Write`, `Commit` | one transaction of the process; its COMMIT, like that of `Apply`, fails when an online backup reads too long |
| `Busy` | the lock is not had in five seconds, and the operation ends with an error |
| `Maintain`, `Copy`, `Publish` | a run starts; the online backup; a second copy migrated and validated, then `os.replace` |
| `List`, `ListFails`, `Delete` | `prune_backup_retention`: the sorted listing, which ends the run with an error when a listed file is gone, and one `unlink` at a time, which may fail |
| `NextStore`, `Dispose` | on to the review store, to the disposal of quarantined uploads, whose failure ends the run, to the pruning of sessions |
| `Restore`, `Fetch`, `Replace` | `restore_database`: sidecars looked for, the backup copied, migrated and validated, sidecars looked for again, `os.replace` |
| `Refused` | the operation ends with its error |
| `Crash` | a process dies: its transaction stays behind as a hot journal |
| `Damage` | a file is damaged from outside |

### What is abstracted

* SQLite is external. A writer's file may be half written while its transaction
  is open (`sound` is false); the journal knows how it was; whoever opens the file
  with nobody in a transaction rolls it back, into whatever file has the name.
* Integrity, foreign keys, schema and rows are one fact, `sound`. Opening a store
  validates its schema only, so it may overlook damage; backup and restore
  validate everything.
* A restore happens with every process stopped, which `docs/runbook.md`, section
  6, asks for and the code cannot enforce (`AllStopped`); a server that starts
  between the last look at the sidecars and `os.replace` is outside that.
* No two runs begin in one second (`NewSecond`), and no two copies of a store get one
  modification time (`NewInstant`). Both are needed: runs of one second write to
  one name, and one may prune the name the other has just published; two equal
  times may be sorted either way by two runs, which then keep different files.
* Of readers only an online backup takes time, and so may hold up a COMMIT; other reads
  are over at once. The backup itself waits for a writer for as long as it takes, as
  `sqlite3.Connection.backup` does.
* A run whose pruning of sessions fails ends well, as `run_deployment_maintenance`
  swallows the error; the failing start or write is refused here all the same, so
  that what is said of refusals covers it.
* Temporary copies that a crash leaves behind are under names nothing reads.
* Damage is bounded: one file at a time, and none once a store has the last file it
  may have, as a damaged store could then not be restored.

### Run and bounds

`StoreMaintenance` starts both stores missing, one release old, of this release or
of a newer one. Two processes are enough for every race on a lock, a listing or a
name; the second store shows a run going on after the first; three seconds give
two runs names of their own and a third name to keep; one restore puts a second
file under the name, which is what an old journal could meet. `KeepCount` is 1, the
smallest that keeps anything. No fairness is stated.

The properties: no file ever meets the journal of another (`Recoverable`); every
published backup can be restored, and a run that reaches the disposal has copied
every store since it began (`BackupsServe`); pruning from lists that are out of date
never takes one of the newest (`RecentAreKept`); and a start, a write or a run is given
up only for a store that cannot be used or where another holds it up, a restore
only for a hot journal (`RefusedForAReason`). `HeldUp` lists the ways another holds one
up: the lock, an online backup that a COMMIT waits for, a deletion under a listing,
and the disposal that fails. What is excluded are the races between two steps: of two
processes that migrate one file, neither fails because the other was first, though
one may wait for the lock too long; a run does not fail for a backup that another
published, or that both of them have listed and one has deleted by the time the other
comes to it.

### What is proved

All five properties, for any number of stores, processes, schema versions, files and
backups; the second half of `BackupsServe` for a `KeepCount` of at least one.

The invariant of the stores, `SInv`, says per store that the journal beside a file is
of that file (`StoreInv`), and per process what it may rely on between two steps
(`ProcessInv`): a process with the lock has its store's journal, one that has copied
something unusable copied it from a store that is still unusable, one that restores
is alone. `Lasts` is what a step of one process leaves true for all others: what is
committed stays committed, an unusable store stays unusable, no other file gets the
name. Only `Replace` breaks it, and there everyone else is idle. `RefusedForAReason`
follows: the versions that `Apply` compares are those read under the lock, so it fails
only for a store that cannot be used or for a backup that keeps its COMMIT waiting
(`HeldUpJustified` and the lemmas named after the steps).

The invariant of the backups, `BInv`, says per run that a doomed backup that is still
there has `KeepCount` newer ones (`DoomedInv`) and that a store which the run is done
with has a backup as recent as the run (`CoverInv`), and per pair of runs that neither
publishes under a name the other may delete (`PairInv`). It is inductive because a
deletion that takes a newer one from a backup was itself allowed by `KeepCount` still
newer ones (`DeletionKeepsNewer`); that needs names and modification times to be
distinct, which is where `NewSecond` and `NewInstant` come in.

### Where documents and code part

* With `--keep 0` a run deletes the backup it has just made, and with a negative
  count the oldest one even if it is the only one (`Retained` follows Python's
  slices); `docs/runbook.md`, section 5, speaks of the two most recent.
* A store that is missing, or a failed backup of the first, ends the run with an
  error before the other store is backed up and before anything is disposed of
  or pruned.
* `docs/runbook.md`, section 6, calls restore with `--backup`; the commands take
  `--input` and ask for `--confirm-replace` (`administration/cli.py:311`,
  `review/persistence/cli.py:391`).
* `docs/data-and-security.md:394` and `docs/development.md:391` name
  `VERIDOC_QUARANTINE_DIR`, which only the maintenance job reads; the server and the
  quarantine command read `VERIDOC_QUARANTINE_DIRECTORY`.

## 10. What is out of reach, and what is not modelled

TLAPS proves safety. Liveness under fairness and ENABLED stay with TLC, and so
does what needs an induction over data; where a recursive function is proved about
(`TakenLines`, the sums), it is by a smallest counterexample among numbers or among
subsets of a finite set. Modules with theorems declare no RECURSIVE operator.

Every invariant and action property of the passing runs is proved. Only
model-checked are the liveness properties `EveryRequestAnswered`,
`ExpiredAreDecided` and `EveryRequestEnds`, and the four expected violations.

Not modelled:

* Request limits (`deployment/limits.py`). The semaphore is asyncio's own, made once
  for settings that do not change while a process lives; a bucket is arithmetic on
  floating-point time, done in one event loop without an await in between. Two
  things differ from what the documents say of it: pruning drops the buckets
  inserted first, idle or not (`limits.py:208-212`), where the docstring speaks of
  idle clients; and a request over the concurrency limit waits, where
  `docs/api.md:858` promises 503.
* The evaluation (`evaluation/`): an offline computation over decimals, in one pass.
* The statements of each migration, and the schema they add up to: the UNIQUE
  indexes are part of the store modules, the rest is one fact, `sound`.
* The rendered pages (static HTML and script), the application shell and readiness
  probes, the administration token (stateless), the request counters (sums under
  one lock), the handlers that list, show and export, and what is outside the
  repository: Tesseract, ClamAV, the model provider.
