# Verification of the document upload service

TLA+ models of the service in `src/` (FastAPI handlers, Celery tasks, a
PostgreSQL schema, a local disk and an S3 bucket), TLC runs that check them on
small instances, and TLAPS proofs of theorems that hold for every instance.

Contents: 1 inventory, 2 modules, 3 runs, 4 fairness, 5 proofs, 6 divergences,
7 what is not modelled, 8 plan.

## 1. Inventory

| Part | State | Operations | Talks to |
| --- | --- | --- | --- |
| Upload links (`services/request_service.py`, `web/routes.py`, `api/routes/document_requests.py`) | table `document_request`: status, expiry, document | mint a batch, open, spend; expiry is computed from the clock when read | local store, through `submit_upload` |
| Local store (`store_local_document`, `storage/local_backend.py`, `storage/keys.py`) | files under `<reference>__<name>/<type>/`, table `document` | validate, write, OCR in a thread, write sidecar, dedup SELECT, INSERT or UPDATE | OCR provider |
| Document API (`api/routes/documents.py`) | none of its own | upload, PATCH, DELETE, OCR trigger, reads | both document services |
| S3 document service (`services/document_service.py`, `s3_service.py`) | table `document`, S3 objects `original__<name>` and `ocr.json` per id | create or update, re-trigger OCR, delete | broker, tasks, notifier |
| Celery tasks (`tasks/document_tasks.py`) | messages in the broker, a loaded row per run | OCR, base64 push; retry, fail, succeed | OCR provider, base64 service, S3, notifier |
| Notifier (`core/notifier.py`) | cache of clients | hand `doc_processed` to the tenant's broker, swallow failures | tenant brokers |
| Database sessions (`db/session.py`) | loaded rows per session | UPDATE of changed columns | PostgreSQL |
| Tenants (`scripts/create_tenant.py`, `api/deps.py`, `get_portal_tenant`) | table `tenant` | check the name, insert; look a key up; pick the portal's tenant | every request |
| Listings (`list_documents`, `list_requests_for_reference`, staff page) | an offset and what was read so far, with the client | count and page, links and their documents | database |
| File serving (`serve_file`, `stream_document_file`, `upload_page`) | an open stream, a page on somebody's screen | find the row, read the body later | database, disk, S3 |
| Rate limit, health, templates, settings, migrations | none | - | - |

`API.md` says which half is running: documents are stored locally; "the S3 +
Celery/OCR features exist in the code but are not enabled here".
`create_or_update_document` has no HTTP caller at this commit (the upload route
calls `store_local_document`); `POST .../ocr` and `DELETE` call the S3 service
for local rows too.

What is hard here:

* every handler is a coroutine, so another one runs at each `await`; workers and
  handlers are different processes; nothing locks a row and no version column
  detects a concurrent change. A decision taken on a loaded row (link is live,
  status is not pending, no such document) may be stale when it is acted upon;
* the file, the S3 object, the row, the message in the broker and the
  notification are five stores without a common transaction, so a failure
  between two of them leaves any prefix of the work done;
* the session writes only columns whose value differs from the loaded one, so
  two writers of one row may each contribute some of its columns;
* `task_acks_late` delivers a task again after a crash at any of its steps;
* key functions are not injective (`slugify`, the sidecar name), and a key is not
  yet a path: the document type of an API upload is any text and is put into the
  key, and from there into the URL, as it is;
* readers read twice (count and page, links and documents) without a snapshot,
  and what they are told (a URL, a status, an offset) is used much later;
* tenants' names are checked in one statement and inserted in another, without a
  constraint.

Correctness, per part: a link shows only a document of its own case and is spent
at most as often as uploads were open on it; a lapsed link stays lapsed; a row
always locates a file under its key; identity columns are frozen; writers keep to their own
columns; a pending row always has somebody who owes it the task; a result is
stored before the row speaks of it; the two pipelines do not touch each other's
columns; every task that is not lost ends; a reader is shown its own case only,
what it was told of links stays true and files it was promised stay; a pass over
the pages misses no more than what changed under it; the staff portal stays with
one tenant; two cases share a folder name only if their slugs agree.

## 2. Modules

| Module | Models | Lines of code it stands for |
| --- | --- | --- |
| `OrmSession` | what an UPDATE of a loaded row writes | `db/session.py` |
| `DocumentStore` | rows, keys, the paths they lead to and file bodies of the local store | `models/document.py`, `storage/keys.py`, `local_backend.py`, `_validate_upload` |
| `CollectionPortal` | the deployed service: links, uploads, PATCH, DELETE, one disk | `request_service.py`, `web/routes.py`, `api/routes/documents.py` |
| `DocumentPipelines` | the S3 service, the broker, the workers, the notifier | `document_service.py`, `document_tasks.py`, `s3_service.py`, `notifier.py`, `celery_app.py` |
| `StorageKeys` | the key rules as functions on words | `storage/keys.py` |
| `PortalKeys` | the portal with these functions for its keys | `storage/keys.py` |
| `PortalReads` | the portal with listings, pages and file serving | `list_requests_for_reference`, `document_requests.py`, `web/routes.py`, `stream_document_file` |
| `TenantDirectory` | table `tenant`, `create_tenant`, the portal's tenant | `create_tenant.py`, `get_portal_tenant`, `models/tenant.py` |
| `DocumentListing` | a pass over the pages of `GET /v1/documents` | `list_documents` |
| `ApiRequests` | both, joined by the key lookup of each request | `api/deps.py` |
| `UploadLink` | abstract: what a link promises | - |
| `TaskLedger` | abstract: what is owed to a task | - |
| `MCCollectionPortal`, `MCPortalReads`, `MCDocumentPipelines`, `MCApiRequests` | constants for TLC | - |
| the `*Proofs` modules and `DocumentPipelinesSafety` | theorems, section 5 | - |

`CollectionPortal` extends `DocumentStore`, and both services use `OrmSession`.
The two services share the table `document`; `DocumentPipelines` has the local
rows of the other (kind `"local"`) in its initial state, since that is what
`POST .../ocr` and `DELETE` meet on the deployed service. `PortalReads` and
`PortalKeys` extend `CollectionPortal`, the first with actions that leave its
variables alone, the second with operators only; `ApiRequests` puts the actions
of `TenantDirectory` and `DocumentListing` together. The abstract modules extend
nothing and know nothing of rows: `CollectionPortal` instantiates `UploadLink` as
`Link`, `DocumentPipelines` instantiates `TaskLedger` as `Ledger`, each with a
refinement mapping next to the property (`KeepsPromise`, `KeepsLedger`).

### CollectionPortal

| Action | Code |
| --- | --- |
| `MintLinks` | `create_request_batch`: all links of a batch in one commit |
| `OpenLink` | `upload_submit` up to `await file.read()`: SELECT of the link, `is_live` |
| `PortalSave`, `ApiSave` | validation and `backend.save` of `store_local_document`; a write may tear (`TearFile`) |
| `OcrSucceeds` | `run_in_threadpool(perform_ocr, ...)` answered, and the sidecar was saved |
| `OcrFails` | OCR raised, or the save of the sidecar did, which leaves the text that was taken under `failed` and perhaps a torn sidecar |
| `FindExisting` | the dedup SELECT |
| `CommitInsert`, `CommitUpdate` | flush and commit; the portal's also spends the link |
| `Abandon` | every way a request ends early: 413/415, IntegrityError, StaleDataError, lost connection, crash |
| `LoadPatch`, `CommitPatch`, `AbandonPatch` | `patch_document`, split at its commit |
| `DeleteDocument` | `delete_document` with the foreign key's ON DELETE SET NULL |
| `Tick` | the clock, bounded by `MaxTime` |

A handler's local variables are one record in `uploads` (or `patches`); its `pc`
names what it does next. Stretches of code without an `await` are one action.
A flush with its commit is one step: under READ COMMITTED the row locks order
two writers, and the unique constraint is tested when the step happens. Time is
a natural number; `expires_at = now + Ttl`. A file name, a name and a reference
are model values, `Slugify`, `SanitizeFilename` and `SidecarName` are constant
functions of which only the range is assumed, so the theorems hold for every
collision they may produce; the MC module computes them with `StorageKeys`, so the
collisions are those of the code (`324.991` and `324-991` have one slug).

A key is a text: the tuple of its parts, since slugs and stored names hold no
"/". The file is under a path, and the way from one to the other is
`_path_for`: `PathFor` takes the directory from `DirOf`, a constant function of
the two slugs and the type of which nothing is assumed but its range, because a
type like `../324__Topp/id` leads into the folder of another case. Keys that lead
out of the root (`DirOf` is `Nil`) are refused before anything is written
(`Confined`). So two rows, of two cases even, may share a file without sharing a
key, and no property says that a row's file lies in its own case's folder.

Columns that no property reads
are left out: `uploaded_by`, `ocr_error`, `group_tag`, `base64_*`, timestamps.
`DeleteDocument` assumes that S3 answers; when it does not the request changes
nothing.

### DocumentPipelines

| Action | Code |
| --- | --- |
| `FindByDedupKey`, `PutOriginal`, `CommitRequest`, `RefreshRequest`, `PublishTask` | `create_or_update_document`, one action per access to the database, S3 and the broker |
| `LoadTrigger` (then `CommitRequest`, ...) | `enqueue_ocr` |
| `DeleteObjects`, `DropRow` | `delete_document`; `delete_prefix` is best-effort, so with `S3Refuses` each object may stay |
| `FailRequest` | a request that stops at any of these points |
| `ReceiveTask` | delivery, the load of the row and the early returns |
| `WorkSucceeds`, `WorkFails`, `WorkRetries`, `GiveUp` | the `try` of a task: success, permanent failure or missing file, `self.retry`, retries used up |
| `StoreJson`, `CommitRun`, `NotifyTenant` | the rest of a task |
| `TaskRaises` | an exception outside the `try`, or a killed pool child (`task_reject_on_worker_lost` is not set); Celery acknowledges the message |
| `WorkerCrash` | a worker dies as a whole and its message is delivered again |

The broker is a bag of messages without an order, which covers retry delays and
redelivery. What Celery does is external: `retry(exc=exc)` publishes the message
with a higher count and ends the run, and raises `exc` itself when the count is
used up (Celery 5.4, `Task.retry`). History variables carry no behaviour:
`notified` (what was announced), `stranded` (tasks that a failure, a crash of a
handler or `GiveUp` lost), `wiped` (ids whose objects a DELETE set out to remove).

### The two abstract specifications

`UploadLink` has, for each link, a state (unminted, open, closed), the uploads
that took it while it was open, and how often it was spent. The mapping takes the
state from `links`, `IsLive` and the clock, the takers from the uploads in
flight, and the count from `accepted`. Expiry needs no step of the code: `Tick`
closes every link it makes lapse, which is why `Next` of `UploadLink` lets every
link make its own step at once. One-time use is deliberately not promised: the
code does not keep it (section 6).

`TaskLedger` has, for each task of each document, what its row says of it,
whether somebody owes it, and whether it was lost. The mapping takes the first
from the row (a local row's `base64_status` counts as "none": nobody ever asks
for it), the second from messages, runs and handlers after their commit, the
third from `stranded`. Every step of the pipelines, crashes and redeliveries
included, must be an entry for every task: asked, answered, withdrawn, skipped,
lost, or nothing.

### StorageKeys and PortalKeys

A word is a sequence of characters, where a run of letters and digits that no
rule tells apart is one character. `Slug`, `Sanitize`, `CaseFolder` and `Sidecar`
are the functions of `keys.py` on these words: strip, substitute runs, strip
again, fall back. Substitution is not recursive: of a run its first position is
kept (`Kept`), and the result reads the kept positions in order (`Nth`), which is
what makes it provable for words of any length. `PortalKeys` says what words are
made of (`Characters`) and how the file names of clients are spelled (`Spelled`).
Characters other than blank, `_`, `-`, `.`, `/`, letters and
digits behave as blank or `/` do in the patterns and are left out.

### PortalReads

| Action | Code |
| --- | --- |
| `ListLinks`, `ListDocuments` | `list_requests_for_reference`, one action per SELECT, and the loop of `list_document_requests` |
| `ShowDocuments` | `staff_documents` |
| `ShowDocument` | `get_document`, which hands out a URL |
| `StreamDocument` | `stream_document_file`, by the key in the row's URL |
| `OpenPage` | `upload_page` |
| `ServeFile` | `serve_file`: nothing unless `PublicFiles`, an exception if two rows carry the URL, else a stream, with the row that gives its type if there is one |
| `Leave` | the body was read, the page was closed |

A reader keeps what it was told until it leaves, at any later time: the
properties say that it is still true then.

A URL is the base with the key appended, unquoted (`public_url`). What key is
asked for by who follows it is `Followed`, a constant function of which only
this is assumed: for the types of `doc_types.py`, which are safe in a URL, it is
the same key. A type of the API with a "#" or a "?" in it makes a URL that asks
for something else, and of such a URL nothing is promised. Neither is anything of
a stream that `serve_file` begins for a key without a row.

### TenantDirectory, DocumentListing, ApiRequests

`CheckName` and `InsertTenant` are the two statements of `create_tenant`;
`StaffRequest` is `get_portal_tenant`, with a configured name or without.
`SelectTotal` and `SelectPage` are the two SELECTs of `list_documents`, and a
client follows `next_offset`. `ORDER BY created_at DESC` leaves the order of rows
with one timestamp open, so `SelectPage` may return any set that is, with some
rows before it, closed under "newer". `created_at` is the time the transaction of
the upload began, while a row appears when it commits: `BeginUpload` and `Appear`
are apart, and a row appears among older ones. The filters are abstracted to "the
row matches or does not", which PATCH, tasks and DELETE change (`Appear`,
`Disappear`). `GetCurrentTenant` guards the requests of the caller.

## 3. Runs

`CHECK_DEADLOCK FALSE` everywhere: once the bounded requests, batches or ids are
used up the system stops, as it does when nobody calls it.

| Run | Instance | Checks |
| --- | --- | --- |
| `portal_links` | 2 upload handlers, 1 reader, 2 batches, 2 references with one slug, TTL 1, clock to 2, 2 ids | `LinkRefersToCase`, `SpendsBounded`, `LapsedForever`, `KeepsPromise`, `ShownInCase`, `ToldClosed`, `PromisedFilesStay` |
| `portal_uploads` | 2 API uploads of one file name to 2 cases, with a type that leads both into one folder and one that leads out of the root; OCR with its failures, torn writes, DELETE, 2 ids | `TypeOK`, `RowLocatesFile` |
| `portal_patches` | a portal handler for 2 types, 2 PATCH handlers, 2 ids, one metadata key, TTL 1, clock to 1; words of up to 3 characters over 5 special ones and 2 letters | `IdentityFrozen`, `WritersKeepApart`, `FolderIsItsOwn`, `ShownNameFindsRow` |
| `pipelines_workers` | 2 handlers, 2 workers, 2 ids, 2 contents, 1 retry, 2 requests, an S3 that may refuse to delete | `TypeOK`, `PendingIsCovered`, `ResultsBacked`, `AnnouncedIsThere`, `PipelinesIndependent` |
| `pipelines_liveness` | an S3 and a local row, 2 requests, 1 retry, 1 crash, an S3 that may refuse to delete, fairness | `Settles`, `KeepsLedger` |
| `api_requests` | 3 documents, pages of 1, clock to 1, 1 row that leaves per pass; 2 runs of `create_tenant`, 2 names, 2 keys, 2 ids | `MissesBounded`, `PortalKeepsItsTenant` |
| `one_time_use`, `url_identifies_row`, `done_has_text`, `failed_after_retries`, `deleted_leaves_nothing`, `outcome_is_notified` | the smallest that shows it | one property each, violated: section 6 |

What the bounds allow. Two handlers are enough for each race of section 1: every
stale decision involves one reader and one writer; the portal runs put the two on
one case and let a DELETE, a PATCH or the clock be the third party. Two ids allow
a row to be deleted and created again while a handler holds the old id. Clock 2
with TTL 1 covers before, at and after expiry. Two contents tell an old file from
a new one. One retry and one crash reach each of their successor states, the
counter being used nowhere else. One reader is enough because readers change
nothing. Three documents with pages of one give a pass over three pages, with
rows that leave, rows that come late and two rows of one timestamp; two runs of
`create_tenant` are what it takes to pass one check. Words of three characters
hold every pattern that the key rules treat differently (a special character at
either end, between letters, next to another). Symmetry is used on handlers,
callers, workers, ids, documents and tenants only, where no definition tells
them apart, and never in the liveness run.

The properties:

* `RowLocatesFile`: under the key of a row something is on disk, with the row's
  name, and so is its sidecar. It holds because files are written first and never
  removed; the mutant that lets DELETE unlink the file breaks it, since another
  upload may just have found its row, or have a key that leads to the same file.
  With `TypeOK` it says that nothing is written outside the root.
* `LinkRefersToCase`: relates `links` to `docs`; breaks without ON DELETE SET NULL.
* `SpendsBounded`: the exact extent to which one-time use fails.
* `LapsedForever`: nothing revives an expired link nobody has open.
* `IdentityFrozen`, `WritersKeepApart`: what survives the lost-update races.
* `PendingIsCovered`: while a row is pending, a message, a run or a handler after
  its commit owes it the task, or the task is on record as lost.
* `ResultsBacked`: the row of an id whose objects no DELETE went for has its
  original, and its `ocr.json` if it says done.
* `AnnouncedIsThere`: a tenant that was told "done" finds an `ocr.json` unless a
  DELETE came since. What is announced is the row as refreshed, which another
  worker or upload may have written, so it rests on everybody's order of writes.
* `PipelinesIndependent`: a worker's commit leaves the columns of the other
  pipeline and those of the file as they are at that moment. Its own it does
  overwrite: the commit of an OCR task replaces the status and text that a
  re-upload reset after the task had loaded the row.
* `Settles`: a pending task leads to a final status or to the record of its loss.
* `KeepsPromise`, `KeepsLedger`: the refinements of section 2.
* `ShownInCase`: a listing shows documents of its case only, although the second
  SELECT asks for ids that the first one found, without tenant or case.
* `ToldClosed`: nothing reopens a link that a page or a listing called closed.
* `PromisedFilesStay`: a stream that was begun on account of a row finds its file
  when the body is read, and so does, at any later time, a URL that was handed out
  by a service that gives files out, if it asks for the key it was made of.
* `FolderIsItsOwn`: whatever two cases are called, one folder name means equal slugs,
  although "__" joins the parts and both may hold "_".
* `ShownNameFindsRow`: a name as stored is sanitized to itself, and so is its
  sidecar's, so an upload under the name a row shows finds that row.
* `PortalKeepsItsTenant`: the portal answers an error rather than work for a
  second tenant.
* `MissesBounded`: of the rows that matched all along and share their timestamp
  with no other, a pass misses no more than left during it plus those that came
  between the last total and its page.

## 4. Fairness

Only `pipelines_liveness` assumes any: weak fairness of each handler's
`HandlerStep` (a coroutine that started goes on when its await completes, or
fails) and of each worker's `WorkerStep` (Celery workers keep consuming). It is
weak fairness of the disjunction, so nothing forces a provider to answer rather
than fail, a request to arrive, or a crash. Retries are bounded by
`ocr_max_retries` / `base64_max_retries`; the mutant that retries for ever breaks
`Settles`.

## 5. Proofs

Theorems of the modules' `Spec`, for every value of the constants (any number of
links, ids, handlers, callers, workers, contents, and any collision of keys).
`tlapm` checks every leaf. `PROJECT.json` lists them; the argument of each:

`CollectionPortalProofs`

* `TypeInvariant`, `TypeCorrect`. `TypeOK` alone is not inductive: a commit writes
  `uploads[h].new`, which is a row only at certain program counters. `TypeInv`
  adds `WellFormed`, the fields each `pc` promises.
* `IdentityIsFrozen`, `WritersDoKeepApart`. `Inv` adds that a PATCH in flight
  assigns only the columns its body named (`Assigned`); with the column-wise
  UPDATE of `OrmSession` (`UpdateKeeps`, `PatchKeeps`) and `RowStep` (which steps
  write rows at all) each step is accounted for.
* `RowsLocateTheirFiles`, `LinksReferToTheirCase`. A committed row is only as good
  as the one a handler is about to commit, so `LocationInv` adds `SoundUploads`:
  what an upload would write is on disk, its key made of its own case's words, its
  row of its link's case and, if it updates, of the found row's identity
  (`RowsLocated` is the same of rows: what a key is made of, which is more than
  `RowLocatesFile` says and less than where its path leads). `DiskGrows` (no step
  takes a file from a path) carries it over the steps of others, for any `DirOf`.
* `LapsedLinksStayLapsed`, `SpendsAreBounded`. After a link expired or was spent,
  `InFlight(l)`, the uploads that hold it, only shrinks (`InFlightShrinks`); each
  acceptance takes one handler out of it, so `accepted + Cardinality(InFlight)`
  does not grow. Needs `HandlersFinite`.

* `RowsAreDeduplicated`: no two rows have one dedup key, from the unique test of
  the INSERT and from `DedupKeyStep`, that nothing else changes a key.

`PortalKeysProofs`

These speak of words of any length, without induction: a substitution is
described by which positions it keeps.

* `Rank`, the number of kept positions up to one, grows by one at each kept
  position (`RankGrows`, `RankOrders`), so `Nth` enumerates them in order (`NthIsSorted`) with
  the first and the last at the ends (`FirstAndLast`).
* `SqueezeLeaves`: of two kept neighbours not both were substituted, since between
  them lies one run. Then `SlugLeaves`: a slug has single "_", none at either end;
  `SanitizeLeaves` and `SidecarLeaves` for file names.
* `FolderTellsSlugs`: "__" occurs in `slug__slug` only where it was put
  (`FolderCutsOnce`), so the folder gives back both slugs (`JoinedSplits`);
  `FoldersAreTheirOwn` is that for every row and every pair of words.
* `SanitizeKeeps`: a name of the shape that `SanitizeLeaves` describes is left
  alone. `ShownNamesFindTheirRows` adds `NamesInv`, that the name of every row and
  of every upload in flight came out of `sanitize_filename`.

`DocumentPipelinesProofs`, `DocumentPipelinesSafety`

* `PipelinesTypeCorrect`, again over a `WellFormed` for requests, and for runs that
  what is stored or committed was fetched.
* `PipelinesDoNotInterfere`: only `CommitRun` of the same worker changes its run
  and a row in one step (`CommitRunRow`, column by column).
* `ObjectsBackResults`, from `BackedInv`: a request before its commit says nothing
  of results and, if it inserts, has stored the original (`RowsToWriteSound`), an
  OCR run before its commit has stored `ocr.json` (`RunsBacked`), and objects stay
  unless a DELETE removes them (`ObjectsStay`).
* `NobodyWaitsInVain`, from `CoverInv`: a request makes a row pending only for a
  task it is to enqueue (`Owed`), a run has loaded a row that was pending for its
  task (`RunsOwe`), so its commit settles it (`CommitRunSettles`). A message, run or
  handler that owes a task hands it on, settles it or loses it on record
  (`CoverStays`); only a commit of a request makes a row wait anew (`NewlyAwaited`).

* `AnnouncedResultsAreThere`, from `AnnounceInv`: what a request will announce was
  true when it refreshed its row and is still backed (`AnnouncementsBacked`);
  nothing is announced of a row before it is inserted, and the id of a row about
  to be inserted is nobody else's (`InsertsFresh`), so no row is born announced.

`PortalLinkProofs`

* `PortalKeepsPromise`: a step of the portal is, for each link, a step of
  `UploadLink`. Only `MintLinks`, `OpenLink`, the two commits, `Abandon` and `Tick`
  change anything the mapping sees; the rest leave the phase of a link alone
  (`PhaseStep`). It needs that a handler that holds a link is past `IsLive`, which
  `TypeInv` says, not that the link is still live, which is not so.
* `PortalLinksStayClosed` follows from the promise alone, as `LedgerForgetsNothing`
  of `LedgerProofs` does from `TaskLedger`.

`LedgerProofs`

* `PipelinesKeepLedger` uses `CoverInv` of `NobodyWaitsInVain`: a run that answers
  owes the task, and one that loses it puts it on record. `RowsToWriteAsk` is added:
  a request writes "pending", "not_requested" or what it loaded, never a result.

`PortalReadsProofs`

* `ReadersStutter`: readers change nothing of the portal, so all theorems above
  hold with them. `ReadInv` says of each reader what it may rely on; between the
  two SELECTs of a listing that every id it read is a document of its case or gone
  (`OfCaseOrGone`), which stays true because ids are not reused and identity is
  frozen. `ToldClosed` needs that expiry only passes and that nothing makes a
  submitted link pending; `PromisedFilesStay` needs
  `RowsLocated` and `DiskGrows`, and is proved for any `Followed`.

`ApiRequestsProofs`

* `PortalNeverChangesTenant`: a tenant that was served stays a candidate, because
  rows are neither renamed nor removed, and whoever is served is the only one.
* `PassesMissFew`. For a row with a timestamp of its own, `Place` is the number of
  newer rows. A row is skipped if it is unseen and its place is before the next
  offset; `MissInv` bounds the skipped rows by `left`: only a row that leaves
  moves others forward, and of those at most one crosses the offset
  (places of untied rows differ). At the last page the rows past the end are
  bounded by `late`.

What it takes for the statements of section 6 to hold: under a hypothesis that
excludes the race that refutes it, the statement (or the part of it that is
named) is proved for every value of the constants. The hypotheses are about the
environment (who calls when, which worker stops, what S3 does), and behaviours
with uploads, deletes and results satisfy them:

| Theorem | If | then |
| --- | --- | --- |
| `AcceptsNoMoreThanHeld`, `OneAtATimeSpendsOnce` | never more than K (one) uploads hold a link at once | it accepts at most K (one): `OneTimeUse` |
| `SharedUrlsAreOfTwoCases` | no PATCH changes a type | rows of one URL, tenant and reference are one row |
| `DoneHasTextOneAtATime` | no two uploads have found the same row | `DoneHasText` |
| `OutcomesAreNotifiedUnlessStopped` | no worker stops between its commit and its notification | `OutcomeIsNotified` |
| `LoneDeletesLeaveNothing` | S3 deletes what it is asked to (`~S3Refuses`), and no request and no worker is at a document between the two steps of its DELETE | `DeletedLeavesNothing`, and nobody takes the document up again |

`SharedUrlsAreOfTwoCases` says less than `UrlIdentifiesRow`: two references of one
slug share a URL without any PATCH. `DoneHasTextOneAtATime` is about the portal's
module, with sidecars that fail and rows that keep a text under `failed`; it needs
no word on the OCR trigger and the worker that the same rows meet in
`DocumentPipelines`, since for a local row these write "pending" and "failed" only
(without a caller of `create_or_update_document` no original is ever put there,
so no worker writes "done"): a row leaves "done" by them and never enters it. `LoneDeletesLeaveNothing` does need its first hypothesis: `delete_prefix`
looks at no answer of S3, so without it even a DELETE by itself may leave
objects. `FailedAfterRetries` has no such theorem,
since every task that uses up its retries on a pending row breaks it.

Assumptions on constants are the named ASSUMEs of the modules: ranges of the key
functions, that URLs of the portal's own types arrive (`UrlsAsText`), naturals where bounds are, markers (`Nil`, `Gone`) that are not values
of the sets they mark, finite sets where a counting argument needs them
(`HandlersFinite`, `ListingConstants`), and that words are spelled with
`Characters` (`WordsAreSpelled`). TLC evaluates them on every run.

Only model-checked: `Settles`, since liveness under fairness (and ENABLED) is
beyond the installed provers; and the violated statements of section 6. Every
other property of a passing run is a theorem. No RECURSIVE operator is used.

## 6. Divergences

Runs that show one, each a short trace of the code as it is:

| Run | The repository says | The code does |
| --- | --- | --- |
| `one_time_use` | API.md:234 "one-time; re-POST returns `409`" | two uploads that opened the link before either commits are both accepted |
| `url_identifies_row` | web/routes.py:200 "the Document row" of a URL | upload, re-classify, upload again: two rows carry the URL and `scalar_one_or_none` raises |
| `done_has_text` | SPEC.md:163 "flat OCR text; populated when ocr_status='done'" | a row is done, with its sidecar, without text (below) |
| `failed_after_retries` | models/document.py:32 "FAILED after retries are exhausted" | `retry(exc=exc)` raises `exc`, the handler waits for `MaxRetriesExceededError`: the row stays pending |
| `deleted_leaves_nothing` | SPEC.md:384-387 cascade of DELETE | even if S3 deletes all it is asked to, an upload or a worker still running writes objects after the prefix was emptied |
| `outcome_is_notified` | SPEC.md:471 "fire once" | a task that stops after its commit never announces its result |

The trace of `done_has_text`: an OCR upload whose sidecar cannot be saved inserts
a row that is `failed` and keeps the text, which was taken before
(request_service.py:171-183). A plain upload and an OCR upload of the same file
both load that row. The plain one commits `not_requested` and text NULL. The OCR
one assigned `done`, the sidecar and the text; the text equals the one it loaded,
so its UPDATE leaves it out, and the row says `done` with text NULL.

Others that the models exhibit and no run is spent on: one upload whose sidecar
fails leaves text under `failed`; a type of the API leads its file into another
case's folder; a DELETE that S3 refuses in part leaves objects without their row;
the commit of an OCR task replaces what a re-upload reset;
OCR triggered for a local row can only fail, its bytes were never in S3; a failed upload leaves the
row with the type of the old bytes; `p.pdf` and `p.png` share the sidecar
`p.json`; of two merging PATCHes one loses its keys; DELETE leaves a local file;
a notification may say `pending`; two triggers that load a row before either
commits both queue a task; a re-upload does not overwrite a column whose new
value equals the one it loaded; rows of one `created_at` may be missed or repeated
between pages of a quiet table; 324.991 and 324-991 share a folder; two runs of
`create_tenant` may make two tenants of one name, and a portal configured for that
name then answers 500.

Three that lie outside the models and were met while reading the code for them:
`build_link_url` puts the reference into the path unquoted, so a link of a
reference with a `/` is minted and never opens; `stream_ocr_json` builds an S3 key
for local rows too, where API.md:263 says 404; an API upload without metadata
passes `{}`, so uploading a file again empties the metadata (this one the model
does as the code). That a URL of an API type with a "#" in it cannot be followed is
in the model as what `Followed` may be; how a client cuts a URL is not.

## 7. Not modelled

* S3 reads: presigned URLs, the S3 branch of `stream_document_file`, `ocr-json`. They
  read under a key that follows from the row; whether the object is there is
  `ResultsBacked`.
* The status filter of `list_document_requests` and `uploaded_by`, `group_tag`,
  `ocr_error` and the timestamps of rows, which no property tells apart.
* The Notifier's cache of clients (a dictionary keyed by broker URL, filled on
  demand and never emptied) and the payload beyond the status.
* The S3 storage backend, which has no caller, and the interface of backends.
* HTTP routing, rate limiting (the slowapi decorator), health endpoints,
  templates, settings, schemas, logging: no state of this repository. Settings
  that decide something are constants of the models.
* Migrations: they run before the service starts; their constraints are in the
  models.

`PROJECT.json` has one entry per part.

## 8. Plan

Done: everything of section 2, with the runs of section 3 and the theorems of
section 5. Left, in this order: progress short of liveness (what
a step of a fair handler or worker achieves, as action properties); the S3 branch
of the readers, over the objects of `DocumentPipelines`; a `created_at` with a tie-breaker as a variant of
`DocumentListing`, to state that a quiet table is listed completely; the Notifier's
payload as far as its receivers act upon it.
