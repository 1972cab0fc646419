# Verification of NatComplaints (nr-compliance-enforcement)

TLA+ modules, TLC runs and TLAPS proofs about the parts of NatComplaints in
which several actors change shared state. Paths below are relative to the
repository.

## 1. The system

NatComplaints takes complaints about wildlife and environmental violations
from the call centre's system, WebEOC, lets conservation officers work on
them, and keeps the case files of those complaints in another system.

```
 WebEOC  --poll-->  webeoc pods  --JetStream-->  webeoc pods  --HTTP-->  backend
 (external)         scheduler,                   subscriber              staging API
                    publisher                                                |
                                                              staging_complaint table
                                                                             |  stored procedures
 frontend  --HTTP-->  backend  ----------------------->  complaint, complaint_update,
 (store, caches)      complaint service, assignment,     hwcr_/allegation_complaint, code tables
                      attractants, case files --HTTP--> case API (external)
```

| Component | State | Operations | Hard behaviour |
|---|---|---|---|
| Staging API (`backend/src/v1/staging_complaint`) | `staging_complaint` | stage a complaint or an update; process both | select, then write, in separate transactions; requests overlap |
| Stored procedures (`R__0.14.0`, `R__0.20.0`, `R__0.19.2`–`4`) | `complaint`, `complaint_update`, rows' status | insert, edit, log and apply an update; extend a code table | catch all errors, and mark rows in the handler; marks wider than what was read; read, compare, write |
| Webeoc service (`webeoc/src`) | stream, duplicate window, per pod a poll and a handler | poll, publish, consume, ack and nak, notify | early ack, publications not waited for, several pods on one consumer, history window |
| Code tables (`insert_and_return_code`, `configuration`, `code-table.ts`, `app.ts`) | code tables, versions of two systems, client caches | extend a table, bump the version, visit, compare, reload | check then insert; a cached version; two reloads of one table |
| Complaint service (`v1/complaint`) | complaint and its parts | create, update, set status | a transaction that its writes do not use; calls not awaited; a form saves all fields |
| Assignment (`person_complaint_xref`) | assignee per complaint | assign, reassign | unassign, then assign; unique active assignee |
| Attractants (`attractant_hwcr_xref`) | attractants of a complaint | create, update by difference | statements nobody waits for, concurrent differences |
| Complaint identifiers (`complaint-sequence-reset`, `V0.8.2`, `V0.20.1`) | sequence, year | next identifier, yearly reset | reset during creation |
| Case files (`case_file`, `case-thunks.ts`, outcome report) | case file in the case API, status here, a copy in each browser | save and cancel sections, review, close | two systems, no transaction; replies in any order; validation in the browser |
| Outcome by animal (`oucome-by-animal`) | drafts of two forms, references to their parts | add, change, remove, save ear tags, drugs, outcome | references by index, order numbers, two updates of one old value |
| Complaints page (`complaints.tsx`, list, map, filters, statistics) | view, filters, text, page; the answer shown | filter, search, sort, turn pages, switch views | several requests per click, answers in any order, counts from several queries |
| Outcome attachments (`hwcr-file-attachments.tsx`, `attachments-carousel.tsx`, `attachments.ts`) | files to add, attachments to delete, slides, the list of the store; the object store COMS | choose, remove, save, cancel, leave | files told apart by name here and by identifier there; slides drawn late; a save of many requests that may fail one by one; thumbnails made while the page is not covered |
| A complaint's own attachments, authentication, geocoder, document service, CRUD, deployment | none, or none that interacts | | not modelled |

What makes the WebEOC side, the first three, correct:

* **Staging**: a record is staged once, the latest accepted one ends up in the
  complaint, a row that says SUCCESS has had its effect, an outcome is final, an
  error of one request does not undo another one's work, the update log holds
  only what was sent for its complaint.
* **Procedures**: whatever interleaves or raises, every field of a complaint is one
  that was sent for its own incident, and the complaint never disappears.
* **Webeoc service**: the latest version of every record eventually reaches its
  complaint in spite of failures, and a staged row is left without a notice only
  where the stream took the last one for a duplicate. That versions are applied
  in their order, or whole, is not among its promises (section 3).

And of the officers' side:

* **Complaint service, assignment, identifiers**: officers who assign at the same time
  do not overrule each other unseen, a reassignment leaves no gap, a creation that was
  answered is complete, and a request, which holds a connection while it waits for another one,
  is kept for ever only by a pool that is held in full this way.
* **Fields and attractants**: a field holds what it was given last, by whomever, but
  for what an older form took back; a chosen attractant stays, unless the statement that was to
  add it failed.
* **Case files**: the open page shows the case of its complaint, what is announced is
  saved, a complaint is closed only when its case is finished, the status follows the
  review, the officer gets the page back.
* **Outcome attachments**: nothing is uploaded that was taken back, but under a name that
  `decodeURIComponent` changes; nothing is deleted that
  nobody asked to delete, and no removal is passed over.
* **Code tables**: values do not share codes, every change whose version is known reaches every browser.
* **Complaints page**: what is shown is what was asked for, on a page that exists, with
  filters that agree, and counts that add up.

## 2. Modules

| Module | What it is |
|---|---|
| `ComplaintFeed` | Abstract specification: per incident what was submitted, and at most one complaint, which appears as one submission, then takes some fields of one at a time, and never goes. |
| `Staging` | The staging service, the staging table and the stored procedures. |
| `WebeocPipeline` | WebEOC, the pods of the webeoc service and JetStream, which extends `Staging`. |
| `WebeocPipelineProofs` | First of `Staging`: its inductive invariants, with and without overlap, type correctness, safety, the refinement of `ComplaintFeed`. Then of `WebeocPipeline`: types, and that it refines `Staging`, and end to end `ComplaintFeed`, for any pods and whatever fails; without failures, that a PENDING complaint has its notice. |
| `ComplaintService` | One pod of the backend as officers use it: create, update, assign, identifiers, the connection pool. |
| `ComplaintServiceProofs` | Inductive invariant of `ComplaintService`, type correctness, three safety properties. |
| `ComplaintRecord` | The fields and attractants of one complaint: forms, stored procedures, statements nobody waits for. |
| `ComplaintRecordProofs` | Whose value a field holds, and that chosen attractants stay, by stamps. |
| `CaseFile` | The outcome report: browsers with their store, the backend, the case API, review and closing. |
| `CaseFileProofs` | Inductive invariants of `CaseFile`: types, and that what is announced is saved; for one officer without failures, that the page is current, a pending review required and closing finished. |
| `AnimalOutcome` | The two forms of the section "Outcome by animal". |
| `AnimalOutcomeProofs` | Inductive invariant of `AnimalOutcome`: what is saved, what can be saved, where items are shown. |
| `Attachments` | The outcome attachments: card, carousel, list of the store, COMS. |
| `AttachmentsProofs` | Inductive invariant of `Attachments`: no unwanted upload, no deletion unasked, no removal passed over. |
| `CodeTables` | New codes from WebEOC values, the versions of the tables, browsers that cache both. |
| `CodeTablesProofs` | Invariants of `CodeTables`: codes are not shared, what a browser keeps is current. |
| `ComplaintSearch` | The complaints page as list and as map, and "Zone at a glance". |
| `ComplaintSearchProofs` | Inductive invariants of `ComplaintSearch`: the page exists, the filters of a place agree, what is shown is what was asked, the counts add up. |
| `MC...`, one per checked module | Payloads, places and other constants for TLC. |

`WebeocPipeline` extends `Staging`: its state is that of both, its requests are the actions of `Staging`, and
its own `PipelineInit`, `PipelineNext`, `PipelineSpec` stand beside those of the component. The others meet in the complaint, each with the
part of it its properties are about: `ComplaintService` its rows, assignments and
identifier, `ComplaintRecord` its fields, `CaseFile` its status, `ComplaintSearch` the
set of all complaints.

### Staging

| Model | Code |
|---|---|
| `staging` | rows of `staging_complaint` in the order of their saves; `time` is `update_utc_timestamp` |
| `complaint[i]` | the `complaint` row of incident `i` (its identifier is the incident number) and the kind of its detail row |
| `updates` | `complaint_update`; `source` is a history variable: the row whose text made the record |
| `req[r]` | a request in progress at the staging API: how far it is and what it has read |
| `StageComplaint`, `StageUpdate`, then `Save` | `stageNewComplaint`, `stageUpdateComplaint`: the query with its comparison, the save |
| `ProcessComplaint`, then `InsertComplaint` or `InsertRaises` | `insert_complaint_from_staging`: its select; its writes; its exception handler |
| `SelectEdit`, then `EditComplaint` or `EditRaises` | `edit_complaint_using_webeoc_complaint`, always called after the insert; `Revised` are the fields for which it executes an UPDATE |
| `ProcessUpdate`, then `ApplyUpdate` or `UpdateRaises` | `insert_complaint_update_from_staging` with `log_complaint_update` |
| `Abort` | the pod or its database session ends in the middle of a request |

The database runs at READ COMMITTED. The two selects and the writes of a
procedure see each other's commits in between, so a procedure is two steps; the
writes themselves commit together, so they are one. PL/pgSQL's `EXCEPTION` clause
rolls the block back before the handler runs, so an `...Raises` action changes
nothing but the status of rows. The code tables that all procedures extend are
represented by `Contended`: while another procedure is at work, any of them may
raise.

A payload has two fields, the details (`text`, with which updates are compared too) and the
`place`, the report type, whether it lists attractants, and whether the
insert or the edit procedure accepts it; the two differ in which payloads
raise. Each payload of `MCStaging` is one such case. An edit compares each field with the
complaint it selected (`was`) and writes those that differ, a statement per field: what an overlapping edit
has written to the others stays. Two fields are enough for such a mixture.

### WebeocPipeline

| Model | Code |
|---|---|
| `entered`, `window`, `Enter` | external: a user of WebEOC saves a record; its `entrydate` is recent for `HistoryTicks` polls and the part of an interval before the first |
| `poll[w]`, `Tick`, `Fetch`, `PublishFetched`, `PollFails` | `WebEOCComplaintsScheduler`: complaints and then updates, each fetched, then published item by item, errors caught per half; `w` is a pod with a slot, for nobody waits for the callback of the `CronJob` and polls overlap |
| `stream`, `recent`, `Publish`, `Forget`, `Redeliver` | external: the stream with its duplicate window, as `setupStream` configures it and the publishers name their messages |
| `job[p]`, `Take`, `Ack`, `Call`, `Nak`, `AckFails`, `CallFails` | `ComplaintsSubscriberService`: `subscribeToTopics` and the four handlers |
| `outbox[p]`, `PublishNotice` | the publications in `handleNewComplaint` and `handleUpdatedComplaint` that are not awaited |
| `dropped` | history variable: records whose last notice the stream took for a duplicate |
| `Serve`, `BackendFails` | the backend works on a request (`Continue`) or fails with it (`Abort`) |
| `Crash` | a pod ends; what it had in memory is lost |

The configuration asks for a duplicate window in a property that the client
library does not know (`duplicateWindow`), so the server's default of two minutes
is in force: shorter than the five minutes between two polls.

### ComplaintService

| Model | Code |
|---|---|
| `complaint[i]` | the text of the `complaint` row and of its `hwcr_complaint` or `allegation_complaint` row |
| `xref[i]` | rows of `person_complaint_xref`; `Admits` is the unique index on the active one |
| `seq`, `year`, `due` | `complaint_sequence`, the clock behind the prefix, the reset that is still to come |
| `req[r]`: `Connect` or `NextNumber`, `SaveBase`, `SaveDetail`, `Read` | `updateComplaintById` and `create`, statement by statement |
| `task[r]`: `TaskConnect`, `TaskFind`, `TaskWrite`, `TaskRefused` | `assignNewOfficer`, which the service calls without `await` |
| `Post`, `PostFind`, `PostUnassign`, `PostInsert` | `POST person-complaint-xref`, `assignOfficer` |
| `Free`, `InUse` | the pool: a connection is taken by `connect`, or for a statement by a repository |
| `StatementFails`, `PodEnds` | the `catch` and `finally` blocks; the end of the process |
| `NewYear`, `ResetComplaintSequence` | the prefix `yy`, and the cron job in the zone UTC-8 |

The transaction of `create` and `updateComplaintById` holds a connection but none of
the writes, which go through repositories: each of them commits at once and is a
step. In `assignNewOfficer` the writes are in the transaction, but the row to
deactivate was read outside of it; `TaskFind` and `TaskWrite` are two steps for this
reason. `assignOfficer` gets a query runner on which no transaction was started, so
its two saves commit one by one.

Form fields are one text; a form asks for no assignment, for an active assignee or for one
to be unassigned (the service would start one task for each of several inactive
delegates; the frontend sends one).

### ComplaintRecord

| Model | Code |
|---|---|
| `record`, `original` | one field of each kind the code treats differently: a text that may be NULL, a date, a code with and without NULL, the status, the species; the `'I'` rows of the history |
| `Import` | `insert_complaint_from_staging` |
| `EditReads`, `UpdateReads`, then `ProcedureWrites` | the comparisons of `R__0.20.0` and `R__0.19.3`, then their writes |
| `ToDto`, `ToTable` | the mappers from entities to transfer objects and back |
| `Load`, `Edit`, `Cancel`, `Save`, `Create`, and their replies | `complaint-details-edit.tsx`, `complaint-details-create.tsx`, `complaints.ts` |
| `writes`, `Lands`, `WritesFail` | the statements of `updateComplaintAttractants` and of `create`, which nobody waits for: they are executed, or rejected, or lost with their pod |
| `given`, `overruled`, `chosen`, and `base` of a page and a message | history variables: who gave a field last, what an older form took back, which attractants were added; what was read before a form got its draft |

### CaseFile

| Model | Code |
|---|---|
| `file`, `ServeRead`, `ServeWrite`, `Accepts`, `Applied` | external: the case API and what it looks up before it writes, as `case_file.service.ts` uses it |
| `Reply` | what `handleAPIResponse` and its callers make of the answer: a case file, an object with nothing in it, or no data |
| `status`, `WriteStatus`, `ServeClose` | `createReview`, `updateReview`, `updateComplaintStatusById`: two systems, two steps |
| `store`, `page` | the slices `cases` and `complaints`; the state of the sections' components |
| `Open`, `Leave`, `Edit`, `Cancel`, `SaveForm`, `SaveNote`, `SaveItem`, `DeleteItem`, `SaveReview` ... | the sections of the outcome report |
| `OpenModal...`, `MayClose`, `ChangeStatus...` | `ChangeStatusModal`, from the page and from the list |
| `Acts`, `Idle` | the overlay: the counter of `api.ts` and `PageLoader` |
| `Receive...` | the thunks after their `await`, with the reads that follow |
| `Sets`, `Follows` | the slices a reply sets, to the same content or another, and the effects of the sections that run then |
| `toasts` | announcements, and whether the case API had done so |

### AnimalOutcome

`form["create"]` and `form["edit"]` are the drafts of `create-outcome.tsx` and
`edit-outcome.tsx`. Items are sequences with identifier and order number; `Attached` is
which components React's references reach when a form is validated. A field is filled in or
not; what is in it does not matter to any property.

### Attachments

| Model | Code |
|---|---|
| `coms`, `Held` | external: the objects of the complaint in the object store, each with its thumbnail, as `attachments.ts` uses them |
| `card`, `toAdd`, `toDelete` | the state of `HWCRFileAttachments` |
| `list`, `slides`, `Show` | `outcomeAttachments` of the store; the slides of the carousel, which a new list replaces |
| `Choose`, `Drawn` | `AttachmentUpload` and `onFileSelect`: a document gets its slide at once, an image when the browser has scaled it |
| `Remove` with `Without`, `RemoveThrows` | `onFileRemove`, `handleDeleteAttachments`: by identifier on the slides, by name among the files to add, whose names are decoded (`Decode`) where that of the slide has been already; a name that cannot be decoded throws, and the error boundary takes the page away |
| `Save`, `jobs`: `Delete`, `DeleteThumb`, `Put`, `MakeThumb`, `PutThumb`, `ReadList`, `ReadIcons`, then `Ends` | `handlePersistAttachments`: `deleteAttachments`, `saveAttachments`, `getAttachments` request by request, then the setters of the card |
| `Cancel`, `Open`, `Leave` | `cancelConfirmed`; the effects of the carousel when it appears and goes |
| `Elsewhere` | another page deletes an attachment of the complaint |
| `sent`, `dropped`, `asked` | history variables: what some save took, what was removed before one did, what was removed since the card was last settled |

A save names nothing in the order it was chosen, so its uploads go in any order. Every
request may fail, or be done and its answer lost.

### CodeTables

A transaction of `insert_and_return_code` takes the steps `SelectMapping`, `SelectCode`,
`WriteCode` or `WriteRaises`: the existence check and the insert see different commits. A code is a base and a
suffix, so that two values that are alike in ten characters meet. Browsers `Visit` (both
`fetchAllCodeTables` and `getCodeTableVersion`), receive and `Leave`; their store persists. When the case API sends
no data, the controller answers all the same, with `{}` for its version: `Unknown`, which the browser stores and
with which no comparison succeeds (`Higher`).

### ComplaintSearch

`ui` is what the page's components keep, `store` what it shows, `shown` the request whose
answer that is. The actions of `User` send the requests the effects of the components send,
two for one click where they do; `Serve` answers a query in one step and takes a
second one where the service makes two (map, statistics).

## 3. What is checked

Every run passes.

| Run | Question | Bounds |
|---|---|---|
| `staging_overlap` | What survives any overlap of two requests with failures? `InsertedIsLive`, `LogIsGrounded`, `SuccessIsFinal`, `ImplementsFeed` | 1 incident, 2 requests, 3 payloads that differ in one field or the other, 2 updates, 3 rows |
| `staging_serial` | What more holds if requests do not overlap? `OneInsert`, `LatestEditWins`, `OneLogPerNumber`, `EditedIsLive` | 1 incident, 1 request at a time, 5 payloads, 2 update numbers, 4 updates, 4 rows |
| `pipeline_order` | Is every update whose complaint is there logged? `EventuallyLogged` | 1 pod, 2 versions, 1 update, no failures, prompt polls |
| `pipeline_pods` | What holds when pods poll, handle and call at the same time? `PendingHasNotice`, `ShowsWhatWebeocHeld` | 2 pods, 2 requests, 2 versions that differ in both fields, stream and outbox of 1, 2 rows, no failures |
| `pipeline_recovery` | Does the latest version get through one failure of any kind? `EventuallyShown` | 1 pod, 2 versions, 1 failure, history of 2 polls |
| `service_officers` | How do creations, edit forms and assignments that overlap treat each other, and what may keep one for ever? `NotOverruledUnseen`, `NoGap`, `CreatedMeansComplete`, `EndsUnlessExhausted` | 2 requests with their tasks, 1 officer, 1 complaint from WebEOC, 2 texts, pool of 4, 2 years |
| `record_fields` | Whose value does a field hold, with forms, edits and updates that overlap? `LastGivenStands`, `ChosenAreKept` | 2 officers, 2 values, NULL and empty, 1 attractant, 3 events, failures among them |
| `casefile_outcome` | Do page, case API and status agree, whatever order replies come in, and does closing hold what it promises? `PageIsCurrent`, `PendingIsRequired`, `AnnouncedIsSaved`, `ClosesFinished`, `UserGetsBack` | 1 officer, 2 complaints, one with a case begun, 1 item, 2 writes or failures |
| `animal_forms` | Is what is saved validated, and what is filled in savable, after any editing? `SavedIsComplete`, `EditsCanBeSaved`, `ShownInPlace`, `AuthorizationStays` | 1 animal, 2 ear tags, 2 drugs, 10 actions in the forms |
| `attachments_card` | Do choosing, removing, saving, cancelling and leaving keep uploads and deletions to what was asked, whatever fails, overlaps or comes late? `UploadsAreWanted`, `RemovalsAreFlagged`, `DeletesAreAsked` | 2 document names, of which one decodes to another name and one to none, 1 image name, COMS empty, with a document, with both; 6 acts |
| `codetables_cache` | Do new codes stay apart and do changes get to browsers? `CodesAreNotShared`, `CachedIsCurrent`, `ChangesArrive` | 2 transactions, 2 values alike in ten characters, 1 suffix, 1 browser, a table per system, 2 changes, 1 fault |
| `search_views` | Does the page show what was asked, on a page that exists, with counts that add up? `ShownIsAsked`, `PageExists`, `FiltersAgree`, `MapIsComplete`, `CountsAreClose` | 4 complaints, pages of 1, 3 communities in 2 zones of 2 regions, 4 actions, 1 change or failure |

`TypeOK` is a run's property in `staging_serial` only. The theorems `TypeCorrect` prove it of `Staging`,
`ComplaintService`, `CaseFile`, `AnimalOutcome`, `ComplaintSearch` and `Attachments`, and `PipelineTypeCorrect` its counterpart of `WebeocPipeline`; in the other modules it documents the
variables. What two pods do under failures, and polls of one pod that overlap, are left to the proof:
`ShowsWhatWebeocHeldThm` holds for any number of pods, slots for polls and failures.

**Where the code departs from what it says of itself.** What is false is not among the
properties; the entries of `hazards` in PROJECT.json say which weaker statement holds.

* An EDIT row saved between the edit procedure's select and its final mark becomes
  SUCCESS without having been read (`R__0.20.0`, line 421): the edit is lost. So `LatestEditWins` is
  a property of requests that do not overlap.
* Two edits that overlap, each of one field, leave a mixture of two records: each writes what differed from
  the complaint it read. So `ImplementsFeed` and `ShowsWhatWebeocHeld` speak of fields, and
  `LatestEditWins` of requests that do not overlap.
* At least two pods run, they prefetch messages of one consumer, and polls of one pod overlap (nobody waits for
  the callback of the `CronJob`, and axios has no timeout): an older version can be published, staged and applied after a newer
  one. No property claims the order of the versions; `EventuallyShown` has the latest one
  come back with the next poll.
* The message id of a notice names its incident only, so within the duplicate window the stream drops the
  notice of a later edit, and the row stays PENDING until the incident is polled again.
  `PendingHasNotice` excepts the records whose last notice was dropped.
* After a failed INSERT the next EDIT updates no row and becomes SUCCESS, and identical
  records are not staged again. `EditedIsLive` says that this is the only way.
* A complaint and its update entered between the two halves of a poll: the update is
  processed before its complaint is staged and fails for good. `EventuallyLogged` starts when the
  complaint exists.
* The second save of `assignOfficer` fails: the complaint has no assignee any more, for
  no transaction was started, although a comment says that the entire transaction is rolled back.
  `NoGap` excepts that pair of saves.
* A pod in UTC prefixes the new year eight hours before the sequence is reset: what is
  created in between is issued again, and the later `save` overwrites the earlier complaint.
* An update of WebEOC repeats the original value of every field; the procedure ignores
  those, as its comment says, but reads that of `reported_by_code` under a key the history does not have
  (`R__0.19.3`, line 94), so an edit of that field is taken back. `LastGivenStands` leaves it
  out, and dates too, which compare NULL with `<>`.
* A note is announced as saved when the reply is empty, and a deletion of equipment
  whatever the case API made of it: `deleteEquipment` returns the data object, and `{deleteEquipment: false}` is true
  (`case_file.service.ts`, line 312). `AnnouncedIsSaved` excepts both.
* Ten requests that save at the same time can hold the ten connections of the pool, each waiting for
  another one: no limit and no timeout ends that. `EndsUnlessExhausted` says that nothing less keeps a request.
* The statements that save attractants are not awaited (`attractant_hwcr_xref.service.ts`, lines 21 and 71): when one is
  rejected, or its pod ends first, the attractant is missing although the form was answered. `ChosenAreKept`
  excepts an attractant whose own statement failed.
* When the case API sends no data the answer to a request for the versions is 200 with `caseManagement: {}`
  (`configuration.controller.ts`, line 39). The browser stores it, and the next version, compared with it, is not a higher one: it is
  taken without a reload. `CachedIsCurrent` and `ChangesArrive` except the tables of a version that was unknown (`lost`).
* The modal compares `reviewComplete` with `null` while the store may hold `undefined`,
  and from the list it looks at neither equipment nor animals; `ClosesFinished` claims neither there.
* Complaints with one coordinate are neither mapped nor counted as not mapped; the
  unassigned complaints of a zone can be negative for a moment; the search asks for
  page 1 while the list stays on its page.
* Drafts of an animal's outcome are lost when a save fails, drugs of a new animal
  jump on the page when they are changed, and an edit shows a default authorization it does not save.
* "Generate a unique identifier in case the user uploads non-unique file names"
  (`attachments-carousel.tsx`): the slides are told apart by it, but a removed file leaves
  the files to add by its name, and takes every other file of that name with it
  (`attachment-utils.ts`, line 27), so that its slide stays and it is not uploaded.
* "Let's make sure this file isn't uploaded" (`attachment-utils.ts`, line 23): the filter decodes the name of the
  file, which is not encoded, so `a%20b.txt`, chosen and removed, is uploaded by the next
  save, and `100%.txt` throws while the page is drawn, which the error boundary replaces. `UploadsAreWanted` excepts the names that
  `decodeURIComponent` changes.
* "Save to upload attachment(s)", says the slide of a file whose upload failed, and saving uploads
  nothing: the end of a save forgets all its files, and an empty list replaces no slides.
* "Your changes will be lost", says the confirmation of a cancel: when both reloads after a
  save have failed, they stay in the draft and the next save sends them
  (`complaint-details-edit.tsx`, line 197).
* An attachment another page has deleted stays in the list, so it can be removed here without
  being there, or without being asked for again. `RemovalsAreFlagged` and `DeletesAreAsked` speak of those the
  object store still holds.

**Why the bounds are enough.** Everything in `Staging` is keyed by incident and
nothing relates two incidents, except contention on the code tables, which a
second request on the same incident also exercises. Three rows are an INSERT and
two EDITs, or two INSERTs and an EDIT, which is what every overlap of two
requests can tell apart; four rows let an update and its rival join them. Two
requests are the smallest overlap, and each procedure is two steps. In the
pipeline two versions of a record suffice for an overwrite, a stream of
four messages holds a record, its next version and both notices. `pipeline_pods` has one message in the stream
and one publication per pod, but two handlers, two polls and two requests, so that one version is polled, staged or applied by one
pod while the other pod does so with the other version, and a notice meets an earlier one in the duplicate window; each pod has one slot
for polls, for a poll of another pod does to the stream what a second one of the same pod does.
`staging_serial` lists every kind of payload the procedures treat differently. In
`service_officers` two requests are two saves of one complaint, or a save and an assignment,
each with a task: four parties. Assignments are told apart by their row, so one officer is
enough. A pool of four is the largest that two saves with their tasks can hold in full, so the run
reaches the exhaustion that `EndsUnlessExhausted` excepts; the mutant `FreeLeaked`, which keeps one connection back, stops with a
connection that nobody uses and is found. With a pool of five TLC finds that every request ends. In `record_fields` three events are the
shortest way for a form to meet an edit of the field it holds, and an update after it; fields
are independent, and each kind is there. In `casefile_outcome` one complaint has no case and the
other one has equipment placed, so every condition of closing is one write away, and
moving between them lets replies of one arrive at the other. `animal_forms` reaches two items of each
kind with a removal, a change and a save. In `attachments_card` six acts are two rounds of choosing, removing and
saving; the second round runs beside the requests of the first while it makes a thumbnail. `search_views` has pages of one complaint: every change of
the total moves the last page; two regions with different zones are the smallest tree in which filters
can disagree.

**Stops.** `service_officers` stops when `MaxRequests` requests have been made; the runs of `CaseFile`, `CodeTables`,
`AnimalOutcome`, `Attachments` and `ComplaintSearch` when their bound of acts, changes or faults is used up. The staging runs do not check deadlock: a save
waits at `MaxRows` and a publication at `MaxStream`, which the real system does not
have. The pipeline runs check it.

**Fairness** (`FairSpec`): the cron job goes on firing, each pod's event loop goes
on with its poll, its handler and its publications (Node runs every ready callback),
the backend answers requests, JetStream redelivers what is due. Users and failures
are not fair. Weak fairness is enough there. In `ComplaintService` it is strong for each
request and each task, because pg-pool serves those that wait for a connection in
the order in which they came: a step that is possible again and again is taken. In `CaseFile` it is weak for each
browser's requests: the servers answer, with an error at the worst, and the browser's
event loop takes the answer. In `CodeTables` it is weak for each browser too, which visits, gets its answers, and
leaves: officers come again. Nobody has to save, close or change anything.

**The overlay.** While a request of a browser is under way an overlay takes its clicks
(`page-loader.tsx`), so in `CaseFile` and `ComplaintRecord` an officer acts only when nothing is under
way. In `Attachments` it is the same, but for the time in which the browser makes a thumbnail: no request
is under way then, and the officer acts beside a save. The mutant `ActsUncovered` is the page without it. `ComplaintSearch` has the same overlay, and still several
requests overlap, because one click sends several.

**Assumptions of the liveness runs.**

* `Prompt`: what a poll found has been worked off when the next one starts, five
  minutes later, and the duplicate window of two minutes is over. `pipeline_pods`
  is the run without it. Without it a notice may be dropped while a row is
  PENDING: the message id of a notice names only its incident, so an earlier one in the
  window suppresses it.
* `pipeline_recovery` has one request slot: a request whose caller has gone finishes
  before its message is delivered again (10 s after a nak, 30 s without an ack).
  With two slots the two requests may contend, their rows end in ERROR, and nothing
  ever processes a row in ERROR again, nor is an identical record staged again:
  `EventuallyShown` then fails.
* The nak of a complaint that was already acknowledged has no effect: JetStream
  does not deliver it again. What brings a failed record back is the next poll.
* `HistoryTicks = 2`: WEBEOC_COMPLAINT_HISTORY_SECONDS covers two polling intervals. With
  one, a single failure loses a record (the mutant `FetchedOnce`).

Every property of a passing run has a mutant: a plausible wrong version of one
definition (a dropped condition, a wrong order, a wider mark), which TLC shows to
break it. Mutants stand next to what they mutate.

## 4. What is proved

Each theorem holds for every value of the constants that satisfies the named assumptions of
its module, which TLC evaluates on every run; "bounds" (of events, rows, requests) are any
naturals. TLC checked every invariant below on an instance before it was proved.

**`WebeocPipelineProofs`, about `Staging`**, for any set of incidents, payloads, texts, update
numbers and requests:

| Theorem | Statement |
|---|---|
| `TypeCorrect` | `Spec => []TypeOK` |
| `InsertedIsLiveThm` | `Spec => []InsertedIsLive` |
| `LogIsGroundedThm` | `Spec => []LogIsGrounded` |
| `SuccessIsFinalThm` | `Spec => SuccessIsFinal` |
| `ImplementsFeedThm` | `Spec => Feed!Spec`: the refinement of `ComplaintFeed` |
| `OneInsertThm`, `OneLogPerNumberThm`, `EditedIsLiveThm`, `LatestEditWinsThm` | if `Serial`, `Spec => []` each of `OneInsert`, `OneLogPerNumber`, `EditedIsLive`, `LatestEditWins` |

They rest on `ConstantsAssumption` and `NoneAssumption`. `InsertedIsLive` and the others are not
inductive: an insert marks *all* INSERT rows of an incident, and an update overwrites records it
saw in an earlier step. The inductive invariant `IInv` therefore adds to the type invariant what a
request knows of the row it picked (it exists, it is of the request's incident, activity and
number), that a successful INSERT row has its complaint, and that log records are grounded and belong to complaints
that exist. One lemma per action shows that the action preserves `IInv`; the row-wise lemmas say
once what appending a row and marking rows leave alone. The steps of the refinement are `Submit` for
`Save`, `Create` for `InsertComplaint`, `Revise` by the fields in `Revised` for `EditComplaint`, and a stutter for all others.

The last four hold when requests do not overlap: the hypothesis `Serial` says that there is one
slot, which is the run `staging_serial` for any payloads and any number of requests. Without it
TLC refutes all four (the overlaps above). `SerialInv` adds the order in time: EDIT rows come after their
INSERT row, a PENDING EDIT row after all rows that were dealt with, a complaint shows the
latest row that was moved, and what the request has read is still so (`StillSo`).

**`WebeocPipelineProofs`, about `WebeocPipeline`**, for any pods, overlapping polls, messages,
requests and failures:

| Theorem | Statement |
|---|---|
| `UnderWayIsTrue` | `PipelineSpec => []PipeOK`: every request, message and notice under way is about a record of its kind and carries what WebEOC has held for it |
| `PipelineUsesStaging` | `PipelineSpec => Spec`: what the pipeline does to the staging table, the staging service does |
| `PipelineTypeCorrect` | `PipelineSpec => []PipelineTypeOK` |
| `ShowsWhatWebeocHeldThm` | `PipelineSpec => ShowsWhatWebeocHeld`, which is `ComplaintFeed` with WebEOC's history as what was submitted |
| `PendingHasNoticeThm` | `PipelineSpec => []PendingHasNotice` |

`PipelineUsesStaging` makes every theorem about `Staging` one about the pipeline. `ShowsWhatWebeocHeldThm` combines `IInv`
with `PipeOK` and `RowsHeld`: each staged row, and the row a
request is about to save, is one WebEOC has held (`PInv`). Types are not
plain either: ids of messages are drawn by the model, and that a new one exists and is new (`NewIdIsFree`) is a count of the
ids in use (`FiniteSetTheorems`), for which `PipelineAssumption` says that the pods are finitely many, and a least
element (`WellFoundedInduction`).

`PendingHasNotice` is about what is there before the first failure, and needs three facts together
(`Carried`): a message that is not acknowledged belongs to one handler (`Taken`); a request to the one handler that waits
for it, and asks what its message says (`Serving`); and every row PENDING has a notice that is still good for it
(`Announces`). A notice is spent on INSERT rows as soon as its request comes to the edit, although the message is acknowledged only at
the end (`Spent`): the procedures move INSERT rows first, and a row staged after that needs a notice of its own,
which its handler puts into the outbox with the answer.

**`ComplaintServiceProofs`**, for any texts, officers, slots and pool:

| Theorem | Statement |
|---|---|
| `TypeCorrect` | `Spec => []TypeOK` |
| `NotOverruledUnseenThm` | `Spec => NotOverruledUnseen` |
| `NoGapThm` | `Spec => NoGap` |
| `CreatedMeansCompleteThm` | `Spec => CreatedMeansComplete` |

They rest on `ServiceAssumption` and `NoneAssumption`. Types alone are not inductive: a
request writes to a complaint by an identifier it got, and on rows it saw, some steps
earlier. `Knows` says that the identifier is one and that the rows are still there; it
survives the steps of others because no row is ever deleted (`Extends`,
`KnowsOn`). `XrefStep` reduces the properties of the assignments to the three
actions that write them.

**`ComplaintRecordProofs`**, for any officers, values, attractants and events:

| Theorem | Statement |
|---|---|
| `LastGivenStandsThm` | `Spec => []LastGivenStands` |
| `ChosenAreKeptThm` | `Spec => []ChosenAreKept` |

They rest on `RecordAssumption`. The first is an argument about stamps, the numbers of the events that
gave a field its values. A stamp is on its way once (`StampInv`); a page knows the stamps of what
it read, and none of those is still on its way; so what a page read under the stamp that the
field has now is what the field holds now (`ReadInv`), and a form that writes it back changes
nothing. For attractants, `KeptInv`: for each chosen one a statement that adds it is under way, or
there is an active row that no statement under way points to. Statements may fail at any point: the lemmas
`FailureIsTyped`, `FailureKeepsFields` and `FailureKeepsRows` say that this disturbs no field and no attractant but those of the
lost statements.

The first attempt at this proof did not go through, for a reason the run's bound had hidden: a draft that stays
behind when both reloads after a save fail belongs to an older reading than the one the page
shows next, so the history variable `overruled` compared the form with the wrong one. `base` now keeps
what the draft was made from, and section 3 describes the case.

**`CaseFileProofs`**, for any officers, complaints, texts, items, requests and failures:

| Theorem | Statement |
|---|---|
| `TypeCorrect` | `Spec => []TypeOK` |
| `AnnouncedIsSavedThm` | `Spec => []AnnouncedIsSaved` |
| `PageIsCurrentThm` | `ASSUME Alone PROVE Spec => []PageIsCurrent` |
| `PendingIsRequiredThm` | `ASSUME Alone PROVE Spec => []PendingIsRequired` |
| `ClosesFinishedThm` | `ASSUME Alone PROVE Spec => ClosesFinished` |

They rest on the assumption of `CaseFile`. `AnnouncedIsSaved` alone is not inductive, since what is announced is
read off an answer. The invariant says of every request under way what it may carry for what it asks
(`Carries`), and that an answer of a mutation that reports success was preceded by its change (`Truthful`).
The run has one officer; the theorem has any number of them on the same case files, and answers of every kind (`Reply`).

The other three hold of one officer (`Alone`: there is one browser), for as long as no request fails, and
the assumption is needed: nobody tells a page what a second officer saved, and a section whose reload failed
stays as it was. `QuietInv`, which TLC confirmed with up to three writes before it was proved,
says why neither the order of the replies nor the requests that follow them matter:

- `Shape`: a write, the search before it and a change of status are under way alone; a review has beside
  it only the reads that were sent with it.
- `FreshAnswer`: an answer holds every section as the case API has it. Only a form or a status asked for
  beside a review may be older than the review, and then only in the identifier and in what a review changes.
- `SectionsInv`, `CaseInv`: a section of the page, or the identifier of the case, that is not current will be
  brought by a request under way; so when none is, the page is current (`AtRest`). Deleting equipment is the
  exception that made the invariant longer: its reply is not taken from the case API, the store removes the item
  by itself, and `Deletes` says that the result is the same.
- `Grounded`: an update or deletion names a case file that is there, so none is refused; a request to close was
  sent while the case file held what closing asks for, and being alone it is served while it still does.
- `ReviewOn`, `RequestInv`, `PendingInv`: a status of pending review is written only after the case file asks
  for a review. The delicate case is a review that is created without being required, which leaves the
  status as it is: the section offers to create one only where none is required (`RequestInv`), so the
  status was not pending.

**`AnimalOutcomeProofs`**, for any number of animals, drugs and changes:

| Theorem | Statement |
|---|---|
| `TypeCorrect` | `Spec => []TypeOK` |
| `SavedIsCompleteThm` | `Spec => []SavedIsComplete` |
| `EditsCanBeSavedThm` | `Spec => []EditsCanBeSaved` |
| `ShownInPlaceThm` | `Spec => ShownInPlace` |
| `AuthorizationStaysThm` | `Spec => AuthorizationStays` |

They rest on `AnimalAssumption`. Validation asks the components React's references reach, so the heart of
the invariant is that the references of a form that is open reach exactly its items (`RefsMatch` in `FormOK`). Order
numbers and identifiers are those `NewId` and `NextOrder` give: distinct in the edit form (`Distinct`), bounded (`Bounded`), while the
form for a new animal may have equal ones, which is why `ShownInPlace` claims nothing of it. The lemmas on
`Above` and `Rank` say that sorting by them is a bijection, and what adding, changing and removing an item
does to everybody's place.

**`ComplaintSearchProofs`**, for any complaints, places, size of a page and bounds:

| Theorem | Statement |
|---|---|
| `TypeCorrect` | `Spec => []TypeOK` |
| `ListPageExists` | `Spec => []PageExists` |
| `PlaceFiltersAgree` | `Spec => []FiltersAgree` |
| `ShownIsAskedThm` | `Spec => []ShownIsAsked` |
| `MapIsCompleteThm` | `Spec => []MapIsComplete` |
| `CountsAreCloseThm` | `Spec => []CountsAreClose` |

They rest on `SearchAssumption`: every zone has a community and every region a zone.
None is inductive. A list that is asked for returns to page 1 only
when its answer changes the total, so `OnPage` adds that every page a request under way asks for
is one the list may be on, and `Shape` what the page, the store and requests look like; `ReceiveEffect`
is the heart of it. For the filters, `PlaceOK` keeps a community that meets region, zone and community at once
as a witness: a region or zone that is offered has one below the filters that stay, and
clearing a filter keeps the one there was. For what is shown, every request under way asks for what
the page shows (`Asked`), because the overlay keeps the officer from changing it meanwhile; that is why the order of
the answers does not matter. For the numbers, `Holds` says of each answer so far how far from
the truth it can be: as many complaints as have changed since it was sent.

**`AttachmentsProofs`**, for any files, contents of COMS, saves that go on at once and failures:

| Theorem | Statement |
|---|---|
| `TypeCorrect` | `Spec => []TypeOK` |
| `UploadsAreWantedThm` | `Spec => []UploadsAreWanted` |
| `RemovalsAreFlaggedThm` | `Spec => []RemovalsAreFlagged` |
| `DeletesAreAskedThm` | `Spec => DeletesAreAsked` |

They rest on `AttachmentsAssumption`. `UploadInv`: a file that was removed before a save took it is among no files
to add and in no selection that is still being drawn, and no slide or selection shows a choice whose
own slide is still to be drawn, so it cannot be removed before. It says so of the choices whose name
decodes to itself (`Plain`); a removal that throws leaves no card from which to save. `DeleteInv`: what is shown or was removed, and COMS
still holds, is in the list of the store, also by way of a selection that will bring its slide back. It needs to be in the list of an answer under way too; nobody clicks while
that is, and what COMS holds only shrinks but for uploads, which enter the list as well. The properties
as first written, without "still holds", were false: another page may delete an attachment
this list still has.

**`CodeTablesProofs`**, for any values, codes, overlapping transactions, browsers and tables:

| Theorem | Statement |
|---|---|
| `CodesAreNotSharedThm` | `Spec => []CodesAreNotShared` |
| `CachedIsCurrentThm` | `Spec => []CachedIsCurrent` |

The first needs only that every mapped code is one of the table (`MappedAreCodes`): the primary key then admits
no code that is mapped. The second rests on `CodeTablesAssumption`, of which it needs that no table belongs to both
systems. It holds of browsers that wait for nothing, so the invariant `IInv`
says what is true while they wait: `Asks`, a browser knows no version ahead of the server's and asks for
it once per visit; `Arrives`, a change it knows by its version has come, or a reload is under way
that cannot miss it, and no older answer is; `Hidden`, a browser that does not know the version of a system
counts on none of its tables. A change of a table has a version no browser knows
(`ChangeKeeps`), a loss is counted (`LossKeeps`), and a version that went up asks before it is taken
(`ReceiveVersionKeeps`).

**Only model-checked.** Liveness (`EventuallyLogged`, `EventuallyShown`, `EndsUnlessExhausted`, `UserGetsBack`,
`ChangesArrive`): fairness is out of the prover's reach. The safety and action properties of the runs are all
stated by a theorem.

## 5. Plan

Done: all modules of section 2, and a module of proofs for each but the abstract
`ComplaintFeed`. Left, in the order of importance:

1. A restart of the broker in `WebeocPipeline`, and how much history repairs it.
2. Two officers on one case file: what closing can promise then.
3. A complaint's own attachments, saved with its form.

## 6. Not modelled, and why

* The broker's restart: its stream is kept in memory, so it loses everything not
  yet handled. The later polls of the history window repair what they cover, as after a
  crash of a pod.
* Formatting and truncation of values in the procedures, except for the ten characters of
  a code; the positions and phone numbers of a complaint behave like the fields that are modelled.
* A complaint's own attachments, which its forms keep: the same carousel and the same thunks as for
  the outcome, saved with the form instead of the card.
* Sorting inside a query, and what filters other than place, status and officer do: conditions of
  one statement.
* The report for the document service, geocoding, authentication and the CRUD of offices, persons and
  officers: stateless, read only or single statements.
* Components of the frontend that only present what the store holds.
