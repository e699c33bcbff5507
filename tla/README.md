# Formal model of the legal-documentation application

TLA+ models of the parts of this Django application where concurrent requests, files outside the
database and crashes meet, and of the checks it applies to what users hand in, with TLC
configurations that check them on small instances and proofs that TLAPS checks for instances of any
size. `PROJECT.json` lists the runs, the mutants that show each property can fail, the source lines
behind every definition, the hazards and the theorems.

    tlc -config Cases.cfg MCCaseRecords.tla      # one run
    tlapm CaseRecordsProofs.tla                  # one module of proofs

## 1. The system

A single-organization Django monolith over PostgreSQL in which administrators keep civil-matter
cases and generate Word documents from approved templates. Requests run in worker processes at
READ COMMITTED, there is no transaction per request, sessions live in the database, and template
and artifact files live in a private directory that no transaction covers.

| Component | State | Operations | Interacts through |
|---|---|---|---|
| Case records (`apps/cases/services.py`, `views.py`) | `CaseRecord` row with status and revision | create, edit, relationship edit, archive, restore | row lock, compare-and-swap on the revision, audit events |
| Case relationships (`apps/cases/forms.py`, `models.py`) | participants, representations, assignments, hearings | one page of formsets per category | validation of all rows before any is saved, unique constraints |
| Reference data (`apps/cases/services.py:504-776`) | courts, entities, addresses, officials | create, update, cascading deactivation | foreign keys, `clean()` reads of parents |
| Document drafts (`draft_services.py`) | one `DocumentDraft` per case, type and schema | create, update, get | case row lock, draft revision |
| Template versions (`services.py`, `views.py`) | `TemplateVersion` rows and files | upload and validate, activate, deactivate | advisory lock per type, private storage |
| Generation reservations (`generation_reservations.py`) | `GeneratedDocument` rows in state generating | reserve by idempotency key | case lock, draft lock, template lock |
| Artifact pipeline (`generation_artifacts.py`, `core/storage.py`) | attempt rows, final and staging files | render, store, verify, finalize, clean up, record a failure | attempt row lock, file system |
| Workflow pages (`workflow_views.py`, `history_views.py`) | what a page shows and its key | draft page, confirmation, generate, retry | reserve, then generate, in one request |
| Downloads (`downloads.py`) | audit events | look up, check, audit, stream | attempt rows, files |
| Reconciliation (`reconciliation.py`) | report | verify rows, list files, remove old staging files | rows and files read at different times |
| Accounts and sessions (`apps/accounts`) | users, groups, session rows | login, expiry, password and membership changes | session rows, copies of them in requests |
| Audit (`apps/audit`) | append-only events | record, list | joins the transaction of its caller |
| Package and template validation, formatters | none: pure functions | validate a package, a template; format an amount, a passage | verdicts used by uploads and rendering |
| Registry, output validation, selectors, lists, dashboard, middleware, configuration, front end | none | read and render | |

What is hard here, and the properties that make each component correct:

* *Case records.* People post forms made from pages of any age. Core fields and transitions use an
  optimistic compare-and-swap, relationships a row lock; both must agree that nobody overwrites
  what his page did not show, and that an archived case stays as it is.
* *Case relationships.* Rows refer to entities and officials that change between saves, and to each
  other; a page must not get stuck, and what is saved must be selectable.
* *Template versions.* Transitions decide from rows they read, under an advisory lock; at most one
  version is current and a reservation takes the current one. An upload is a file plus two
  transactions and may stop between any two steps.
* *Drafts and reservations.* A page reads case, draft and template one after the other, a
  reservation reads them again under locks: one attempt per idempotency key, holding what the page
  showed, and a resubmitted key that finds its attempt whatever has changed since.
* *Artifact pipeline.* A row says that a file exists; the file is written before and removed after
  transactions that may fail, race or be answered wrongly. A generated row must keep its file, an
  orphan must be explained, and a caller must be told what is committed.
* *Reference data.* Nothing active hangs from something inactive, although edits read and validate
  without locks and write whole rows while deactivations take whole families of rows.
* *Downloads, reconciliation.* What is read at two moments is compared as if it were one: a lasting
  breach must be reported, an alarm must be real, and bytes leave only after they are on record.
* *Sessions.* Requests work on copies of a session and write all of it back; limits hold at their
  boundary, and what has ended stays ended.
* *Validators and formatters.* The verdict is put together from stages and scopes; it must be that
  of the whole package or template, and a formatted value must read back as what it was.

Every action below leaves permission checks out: they read tables that the modelled components do
not change. `config/urls.py` routes nothing to Django admin, so edits through it are no step of
the program.

## 2. Modules

| Module | What it is |
|---|---|
| `AttemptLifecycle` | abstract: a generation attempt is decided once and everybody hears that decision |
| `GenerationArtifacts` | the artifact pipeline, `MCGenerationArtifacts` its instances, `GenerationArtifactsProofs` its theorems |
| `PrivateFiles` | the pipeline with a reconciliation and downloads beside it (EXTENDS `GenerationArtifacts`), with `MCPrivateFiles` and `PrivateFilesProofs` |
| `ActiveTemplate` | abstract: at most one current version, never again once withdrawn, reservations take the current one |
| `TemplateVersions` | uploads, transitions and the template half of reservations, with `MCTemplateVersions` and `TemplateVersionsProofs` |
| `SharedRecord` | abstract: a record is a log of changes, extended only by those who have seen all of it |
| `CaseRecords` | one case with the sessions that edit it, with `MCCaseRecords` and `CaseRecordsProofs` |
| `DocumentDrafts` | the draft of one type in one case under the lock of the case row |
| `DocumentGeneration` | drafts, templates, reservations and the pages that lead to them (EXTENDS `DocumentDrafts`), with `MCDocumentGeneration` and `DocumentGenerationProofs` |
| `ReferenceData` | courts, entities, addresses and officials with their edits and deactivations, with `MCReferenceData` and `ReferenceDataProofs` |
| `AccountSessions` | the sessions of one account with logins, requests and account changes, with `MCAccountSessions` and `AccountSessionsProofs` |
| `CaseRelations` | the relationship pages of one case |
| `PackageValidation`, `TemplateValidation`, `LegalFormatters` | pure algorithms beside a definition of what they are to compute |
| `MCDocumentContents`, `DocumentContentsProofs` | one instance for `CaseRelations` and the three modules before it; theorems about all four |

Definitions marked "Mutant" are no part of a specification: each is a plausible bug of the
definition that follows it, used to show that some property would notice.

### GenerationArtifacts

A request is one call of `generate_artifact`; it builds one fresh storage key, so the request names
the key. A transaction of the code locks one attempt row and is one action (`FinalizeCommit`,
`MarkCommit` with their settled and failing variants); every file operation is an action of its
own (`OpenStage`, `Link`, `Unstage`, `Verify`, `Erase`), so requests interleave there. `pc[r]`
follows the code; `row` and `audit` are committed data, `seen` is what the request last read,
`tracked` is its `cleanup_keys`. Rendering and its validators are one step that succeeds or fails
with a category the called functions raise. `Crash` kills a worker, `WriteBack` and `HostFailure`
model a directory entry that the machine loses, and the constants `LostAck` and `HostLoss` switch
the two faults that break a promise of the code. `Unsuited` is the set of requests in a process
whose configured storage is not the private one.

### PrivateFiles

The readers take their steps between those of the pipeline. `BeginScan` reads the references in one
statement; `VerifyReference` then opens one file at a time, `BeginInventory` and `List` take one
directory entry at a time, and `List` removes the staging files that nobody holds (`Stale`), as the
command does after its age limit. `report` is what it has counted and `atStart` a history variable:
what was wrong when it read the references. A download (`Ask`, `ReadArtifact`, `HandOut`) keeps the
file it has opened although the entry may go. `Replace` is an operator restoring other bytes, which
is what the command is there to find; it is no step of the program.

### TemplateVersions

One document type, since types share nothing. An upload `u` names its row and its file and walks
through `Propose`, `Store`, `Clean` (the queries of `full_clean`), `Insert`, `Settle`, with `Undo`
as the cleanup of a failed upload and `Kill` between any two. A session views a page (`View`,
`Show`, or `ViewGeneration` for the page that names the version to generate from), posts it at any
later time (`Submit`, `Misconfirm`), takes the advisory lock (`Lock`), reads (`Read`) and decides
(`Activate`, `Deactivate`, `Reserve`, `Conflict`). The row locks and the partial unique index that
the code holds besides are left out on purpose: what is shown holds by the advisory lock alone.
The verdict of the validators is either outcome.

### CaseRecords

A session views a page for one of four goals. The relationship page reads the revision first
(`View`) and its rows later (`Show`), as its querysets are evaluated while the page is rendered.
`Post` may be repeated after a conflict, because the answer shows the same form with the same
revision. Core edits, archive and restore load the row without a lock (`Load`) and then update
where the revision still matches (`Swap`, `Mismatch`); relationship edits select the row FOR UPDATE
(`Lock`), save (`Save`) or roll back (`Reject`). `Refuse` writes the failure event in its own
transaction. `Unlocked` is PostgreSQL making an UPDATE wait for a selected row. Values are
abstracted to the session that wrote them, which is what "overwritten" is about; the four
relationship categories are one. A `Swap` or `Save` may be answered with an error although it took
effect; `Fail` ends a request anywhere with an error.

### CaseRelations

A save holds the case row from its revision check to COMMIT (that is `CaseRecords`), so it is one
step here: the rows its page showed are the rows there are. `Posts` are the edits, additions and
removals one page can send, `Valid` is what its formsets accept, and `Outcomes` saves row after row
under the unique constraints. `Elsewhere` is what nothing holds meanwhile: entities and officials
become selectable or cease to be. A page edits one category or all of them; in the latter a post
may change a participant and its representation together. The changed rows are saved one after the
other (`SaveRows`, in every order, since the order of the page depends on columns left out) and then
the new ones (`AddRows`), each under the unique constraints. Entities, officials and roles are finite
sets (`RelationsAssumption`).

### DocumentDrafts and DocumentGeneration

A session is a browser tab with at most one request. `Open` and `Fill` are the two reads of the
draft page (case, then draft), `Save` its post with the unlocked look at the draft, `Lock` the case
row, and `Create`, `CreateTwice`, `Update`, `UpdateStale`, `Refuse` what the service does with it;
what lies between the lock and COMMIT is one step, as the lock keeps the others out. `EditCase` and
`ShelveCase` are `CaseRecords` as it looks from here: they wait for the row lock and raise the
revision. `DocumentGeneration` adds the offer that a page makes (a fresh key, the facts and template
it shows), `Resend` (the same form in a second tab or sent again), `Confirm`, `OpenHistory` and
`Retry` of a failed attempt, and the reservation: `Reserve` takes the case row and looks for the key,
`Snapshot` checks draft and template and inserts the attempt, `Decline` answers with a conflict.
`Work` decides the attempt or leaves it undecided, as `AttemptLifecycle` promises of the pipeline;
`Activate` and `Withdraw` are what `ActiveTemplate` promises of the templates. Payloads are the
session that wrote them, facts the revision of the edit that last changed them.

### ReferenceData

A session makes one request (`Post`) to create, update or deactivate a row of one of the four
tables; `refs` holds them all, and the foreign keys of a row are its `links`. The view validates
the form (`Screen`), the service loads the row without a lock (`Load`), validates again (`Check`)
and saves (`Write`): every column, `is_active` as it was loaded, and an event only if the form
differs from the loaded row. A deactivation locks and re-reads its row (`Lock`) and takes its
dependents along (`Deactivate`), and its lock, which `Locked` derives from the session that is at
that point, also holds up new references to the row, as PostgreSQL's foreign key checks do.
`Write` is one step because the row it locks is the only one it changes; so the model does not have
the deadlock of two officials who exchange courts while both courts are deactivated, which
PostgreSQL ends by failing one of the four requests, a `Fail` here. `overtaken` is a history
variable: the sessions since whose load another request has committed. Unique codes and identity
numbers are left out (a violation is a `Fail`), but not the one official per person, since an
official's person can change hands between `Check` and `Write`.

### AccountSessions

A login draws a fresh key and so names its row. `Authenticate`, `LogIn` and `EndLogin` are the form's
check, the success event with the new row, and the response that fills the row in. A request loads an
unexpired row (`Load`), is turned away, expired or let through (`TurnAway`, `Expire`, `Admit`) on its
copy, and writes the copy back (`Respond`) or flushes the row (`LogOut`). Django saves with
`force_update`, so a row that is gone is not written again (`Save`). An account change lists the
unexpired sessions (`BeginChange`) and deletes them at its commit (`EndChange`). `usedAt`, `bornAt`,
`loadedAt` and `raced` are history variables that no step reads.

### PackageValidation, TemplateValidation, LegalFormatters

`validate_docx_package` is one action per stage, the two formatters are one action each.
`validate_template` is its two loops (`InspectParts`, `ParsePart`) and, between them, the visits of
`_ContractVisitor`: its recursion is a stack of calls (`visits`), each for the address of a node with
the names that are local there, and one action is one visit. A package is its entries with what the checks tell apart: a name and its spelling,
sizes, what the bytes are, the root of its XML. A template is the layout
of its tokens and syntax trees, each a function from the addresses of its nodes; an amount is its groups
of three digits; a passage is its characters. Each module ends with a definition of what it is to be
right, written without looking at the stages: `Conforms`, `Sound` with `ReadPaths`, what a listener
understands (`Heard`), what a reader of the document sees (`Reading`).

What is submitted is any bytes: `IsPackage` says of the fields of a package only what their types
are, so that the theorems are about everything that can arrive. `IsTemplate` says of a tree that an
address leads from the root over children, and that the first child of a loop is what it goes over,
as Jinja's `For` lists them; `ContractAssumption` says of the contract what the registry insists on
(`registry.py:135`, `355`): names of two parts or more, none of them private. An amount has groups of 0 to 999, the
highest not zero (`AmountsAssumption`), as the repeated `divmod` leaves them; a passage is any sequence
of characters (`PassagesAssumption`), read with a look back by at most one line: `Lines` splits it
character by character, `Gaps` are the blank lines that `_PARAGRAPH_BREAK` matches, `Join` puts a line
to the paragraph before it. Checks of which the first that applies
decides are IF chains, because a CASE whose guards overlap does not say which of them applies.

## 3. What the runs show

| Run | Instance | States | Shows |
|---|---|---|---|
| `artifacts` | 3 requests, 1 attempt, symmetric | 193k | `GeneratedHasArtifact`, refinement of `AttemptLifecycle` |
| `artifacts_faults` | 2 requests of 2 users, 2 attempts, lost acknowledgements and host failures | 139k | what survives all faults: `ResponseIsCommitted`, `OrphanIsExplained`, `AuditMatchesRow`; `WorkSettlesAttempt` under fairness |
| `files` | 2 requests, one in a process without the private storage, 1 attempt, 1 download, all faults | 271k | `BreachesAreReported`, `AlarmsAreReal`, `DownloadsAreOnRecord` |
| `templates` | 2 uploads, 3 sessions, symmetric | 104k | `ChangesWereSeen`, `RepliesAreTrue`, refinement of `ActiveTemplate` |
| `template_uploads` | 2 uploads of one version, 2 sessions | 32k | `TemplateHasFile`, `OrphanUploadIsExplained`, `TrailMatchesStatus`; `EveryRequestEnds` under fairness |
| `cases` | 3 sessions, symmetric | 152k | `ArchivedIsFrozen`, `AuditTellsTheCase`, `RepliesAreTrue`, refinement of `SharedRecord` (AC-07) |
| `generation` | 2 sessions, 2 templates, 2 keys, revisions up to 2, symmetric | 1557k | `EventsTellTheChange`, `AttemptsAgree`, `ReservesWhatWasShown`, `ResubmissionFindsItsAttempt`, refinement of `SharedRecord` by the draft |
| `references` | 2 sessions, 2 courts, 2 entities, an address, an official | 161k | `OnlyOvertakenSeparates`, `OnlyOvertakenRevives`, `OnlyOvertakenIsSilent`, `DeactivationsAreWhole` |
| `sessions` | 2 logins, 2 requests, inactivity limit 2, absolute limit 3, 1 account change, symmetric | 3268k | `EndedSessionsStayEnded`, `LimitsHold`, `AnnouncementsNeedASlowRequest`, `SurvivorsWereLoggingIn` |
| `contents` | packages with every single defect and pairs of them, template trees of every node kind, 999 amounts of one group and those around every group boundary, passages of up to 4 characters, the relationship pages of a case with up to 3 rows | 102k | `AcceptsWhatConforms`, `UnpackingIsBounded`, `AcceptsWhatRenders`, `AmountsReadBack`, `SegmentsKeepThePassage`, `PagesCanBeSaved`, `SavedRowsAreSelectable` |

Two runs end in a violation, each a place where the code and its documentation differ:

* `artifacts_lost_ack`: when the acknowledgement of the finalizing COMMIT is lost, the request
  takes the published attempt for a failure and deletes its artifact (`generation_artifacts.py:361`).
* `reference_kinds`: `update_entity` makes the person of an official an organization, without any
  concurrency (`cases/services.py:603`).

The properties say what holds, and their exceptions say what does not. These are the places a
reviewer of the code should know:

* *Files.* `GeneratedHasArtifact` also fails with `HostLoss`, as `save_immutable` does not sync the
  directory into which it links the artifact (`core/storage.py:61`). A process without the private
  storage reports a failure for an attempt that another process has generated
  (`generation_artifacts.py:328`), so `AttemptLifecycle` is implemented only where `Unsuited` is
  empty. A reconciliation that runs beside a generation may report the artifact being finalized as
  an orphan, since it read the rows first (`reconciliation.py:262`): `AlarmsAreReal` is about missing
  and modified artifacts only.
* *Uploads.* The loser of two racing uploads of one version is told of a storage error and not that
  the version exists, because `full_clean` raises `ValidationError` where the handler expects
  `IntegrityError` (`services.py:568`, docstring at line 59). A version that a kill leaves "uploaded"
  is never validated again.
* *Drafts.* In the same way the loser of two racing creations of a draft gets an unhandled
  `ValidationError` instead of "draft already exists" (`CreateTwice`, `draft_services.py:350`;
  `LGD_001_SPEC.md:578`).
* *Reference data.* A request that was overtaken between its load and its write may leave an active
  official with an inactive court, make a deactivated row active again (after which deactivating it
  emits a second event), or overwrite a newer row without an event; `references` shows that nothing
  but such a request does. A lock on the loaded row and on its parents would end all of it.
* *Relationships.* Two rows that exchange their entity and role in one post pass the formsets and
  end in an `IntegrityError` (`OnlyExchangesCollide`, `cases/forms.py:488`). A representation of a
  participant that the same post removes is accepted, and makes the page invalid until it is removed
  as well (`cases/forms.py:456`).
* *Sessions.* The row of an idle session expires no later than the limits that the middleware checks,
  so its message and its audit event (`LGD_001_SPEC.md:607`, AC-04) are reached only by a request
  that was slow or held up (`AnnouncementsNeedASlowRequest`); an idle user simply meets the login
  page. A login that overlaps `deactivate_account` keeps its session, which works again after
  `activate_account` (`SurvivorsWereLoggingIn`, `accounts/sessions.py:81`).
* *Template contents.* A loop variable named like the first name of a contract path, and a loop
  variable used in the else branch of its own loop, are accepted although rendering reads something
  else (`Reuses`). In packages, the second size check in `_read_entries` can never fail: the
  directory has been checked by then. A NUL in an entry name, which `zipfile` cuts the name at, is
  looked for in the raw directory only if that scan can follow it; where `zipfile` can read the archive
  and the scan cannot (`odd`), the cut name is taken as it is (`NamesAreWhole`,
  `package_validation.py:339-364`, `580-586`).

### Bounds

The bounds are the constants; most models need no counter limit, because a request, an upload and a
session each run once and change a row at most once (a repeated `Post` follows a refusal). One
attempt with three requests has a winner, a loser that adopts its result and a third that finds
everything settled; two attempts of two users are enough for keys to be confused. Three sessions
give a decision, a decision from a page made before it, and one from a page made in between; two
uploads give a replaced and a replacing version, or the two that clash. In `ReferenceData` two
requests are an edit and what overtakes it; the tables begin with rows that earlier requests
created, each dependent present or absent, and the proofs are for any number of requests. In
`generation` tabs serve any number of requests, so revisions and keys are capped (`MaxCaseRevision`,
`MaxDraftRevision`, `MaxTokens`): two of each are a first state, a change of it, and pages of both;
a second key gives two attempts that might be mixed up. In `sessions` the clock goes to 3 with an
inactivity limit of 2 and an absolute limit of 3, which meets the one on an idle session and the
other on a session in use; `MaxChanges` is one: a survivor of a change is one of the first. In
`contents` the limits of a package are small numbers, each reached exactly and exceeded by one. The
proofs remove the bounds for the properties listed in section 4; where a model has caps, they prove
it for every value of the caps.

Symmetry is used in runs without liveness only, over sets whose members no definition tells apart.
Deadlock is checked except in `files`, `sessions` and `contents`: there a reconciliation, an account
or a validation that is over, or a clock at its bound, leaves nothing to do. Type invariants are not
run; they are proved.

### Fairness

`WF` for each request, upload and session that is at work: a worker thread that is neither killed
nor blocked takes its next step. Whether a user posts a page, or a worker is killed, is never
assumed. `WF` is enough for the sessions that queue on the advisory lock in `template_uploads`,
because each posts one confirmation, so nobody is passed over more than once per other session.

## 4. Proofs

Each `*Proofs` module proves `Spec => []TypeOK` first and then the invariants below for every value
of the constants. The only assumptions are the named ones of the modules (`ConstantsAssumption` and
`GenerationAssumption`: the empty values are no members of the sets they complete, and bounds are
natural numbers; `LimitsAssumption` of `AccountSessions`: both limits are positive and the inactivity
limit is the shorter; `PackagesAssumption`, `TemplatesAssumption`, `ContractAssumption`, `AstLimitsAssumption`,
`RelationsAssumption`, `AmountsAssumption` and `LimitsAssumption` of `PackageValidation`: the types
of what arrives, as section 2 says) and, where
stated in a theorem, that a fault does not occur.

*GenerationArtifacts.* `WellTyped` adds to the types that working requests have an attempt and
carry a listed category; without it a failed row could break the table's constraint. On it rest
`DecisionsStand` and `AuditIsHistory`, by the few actions that touch a row (`RowStep`).
`KeysBelong`, `FilesAreTracked` and `LosersHoldTheWinner` are then inductive, and give
`ResponsesAreCommitted` (with the private storage everywhere) and `OrphansAreExplained` under all
faults. Without lost acknowledgements and host failures `ArtifactInv` is inductive: a verified file
stays, because only its own request removes it and that request is past its cleanup when the row
names it. That gives `GeneratedKeepsItsArtifact`, and with it `PipelineImplementsLifecycle`: each
step decides one attempt, tells one caller, or maps to a stutter.

*PrivateFiles.* The inductive invariant of the pipeline also survives `Replace`, since it is about
who holds which file and not about its bytes. All else rests on what never comes back: a published key
stays published, a broken one broken, and a published key is never given to another file. So
`FindingsStand`: what the report says of an artifact remains true (`AlarmsStand`). For completeness,
`PassedIsReported` says of every key the scan is done with that it is in the report, or an error is,
or it was in order at the start or is no longer an orphan; it gives `BreachesAlwaysReported`.
`DownloadsAlwaysOnRecord` needs that a reader asked for a published key.

*TemplateVersions.* `TemplateInv` strengthens `OneActive` by who holds the lock (`LockIsHeld`), what
a session knows (`SessionsKnow`), that an upload in its insertion has no row yet
(`RowsFollowUploads`), and that what was read under the lock is current
(`DecisionsAreCurrent`): uploads commit meanwhile, but they never make a version active
(`UploadsLeaveActive`). From it, `DeciderKnows` says that a session about to decide sees the
active version its page showed; `NoUnseenChange` and `VersionsImplementActiveTemplate` follow.
The rows and the files of uploads need no lock. `StatusSteps` lists what a step may do to one row,
which is what `TrailsTell` and the part of `RepliesStayTrue` about other sessions' steps come down
to (`ToldForGood`: nobody takes back what a session was told). `FilesFollowUploads` says that a file
is there from the end of its storage until its own upload reaches the cleanup, which never has a
row: `RowsHaveFiles`, `OrphansAreExplained`.

*CaseRecords.* Neither "nothing is overwritten" nor "an archived case is frozen" is inductive: they
depend on what an old page or an unlocked row says about the present. `CaseInv` states it: the row
lock is held exactly while relationships are saved, and a page or loaded row is never ahead of the
case and *is* the case if it has its revision. A change raises the revision above every page
(`StillOlder`), and by the lock no other session is about to save; everything else concerns one
session (`LocalStep`). When a swap matches, the loaded row lies between the page and the case, so
it is the case (`LoadedMatches`) and its status check was valid after all: `NothingOverwritten`,
`ArchivedStaysFrozen`. `RevisionsAreEvents` makes the revision the length of the audit trail, which
is the refinement mapping of `CaseImplementsSharedRecord`. For `AuditTells` the properties are
restated of a log and a case (`Tells`): appending an event leaves what the events before it say
(`PastStays`) and makes it the last of its action (`PresentIsLast`), and the three steps that write an
event write the case to match (`EventOfTheStep`), the difference of an edit because the loaded row is
the case. That a set of events has a last one (`LastIsOnRecord`) is part of the invariant: each step
extends the trail by one event. `RepliesStayTrue` rests on each session's event
coming with its last step (`RecordsFollowSessions`, `Author`).

*DocumentGeneration.* `GenerationInv` is again about what old pages say of the present. Every page,
loaded row and attempt knows a draft that was (`DraftsArePast`, `PagesArePast`, `AttemptsArePast`:
`Version(n)` reads the n-th draft off the trail), so equal revisions mean equal drafts, and facts
shown with the current revision of the case are its facts. Whoever holds the case row has found it
active, unchanged since its page and without an attempt of its key (`LockedIsChecked`). A step that
does not hold the row leaves case, draft and attempts alone or only decides an attempt (the lemma on
step kinds), so the invariant is checked action by action against one fact each. From it follow
`DraftEventsTell`, `AttemptsAlwaysAgree`, `ReservedAsShown`, `KeysFindTheirAttempt`,
`ArchivedCaseStaysClosed` (AC-08) and, with the trail as the log, `DraftImplementsSharedRecord`.

*ReferenceData.* `ReferenceInv` says what a request may rely on: a locked row is active and has one
holder, a request to create is alone with its absent row, and `CurrentUnlessOvertaken`, that who has
not been overtaken knows the row it loaded, and its validation, as they are now. A commit overtakes
everybody else, so the invariant is kept with hardly a case (`CurrentStep`), and it turns the write
of such a request into an atomic one (`CurrentWrite`), which keeps `ActiveBelong`
(`CurrentWriteBelongs`), revives nothing and is on record: `SeparatedByOvertaken`,
`RevivedByOvertaken`, `SilencedByOvertaken`. `WholeDeactivations` needs the locks only.

*AccountSessions.* Copies of a session are what makes this hard: none of the four properties is
inductive. `LoginsHaveRows` says which login has a row of which kind; with the `force_update` of a
save it makes "ended" final (`EndedForEver`). `ClocksAgree` orders start, last use, save and expiry of
every row and copy, however they overwrite each other, and bounds them by the history variables:
`LimitsAlwaysHold`. `RowsOutliveCopies` says that the row of a loaded copy expires no earlier than
the copy reaches a limit; a copy that finds itself past a limit has therefore waited
(`OnlySlowRequestsAnnounce`). `SurvivorsAreExcused` follows a session through an account change:
listed, in the making (`raced`), or overdue (`SurvivorsWere`).

*DocumentContents: loops.* Packages, amounts and posts are gone over in loops, which the models write
as folds. The library's induction theorems take an operator as a parameter, which the provers cannot
instantiate, but its `WFMin` is about a relation: from it come `Least` (a nonempty set of naturals has a least member)
and `Climb` (what holds of 0 and of each next place holds of all). `FoldExists` gives the recursive
function behind a fold. So each fold becomes a history, its values place by place, and a claim
about it a climb along that history, for sequences of any length.

*PackageValidation.* `PackageInv` says at each stage what has been found out so far, about all entries
at once: after the directory, that names are unique and sizes within limits (`Opens`) and the inventory
is the package; after unpacking, what was read; after parsing, that every entry is harmless. The
loop over the directory passes over entries with a refused name before it counts their size, so what
it has seen is the package only as long as it has found nothing (`InspectFold`). The stages of the relationships and the
content types look up names in a dictionary, and agree with `Conforms` because every name then has
one entry. `VerdictIsExact` is what remains at the end, `UnpackingStaysBounded` what the first stages
establish before anything is unpacked.

*TemplateValidation.* What a visit gives depends on the node and on the names that are local when it
is visited, and these are handed down the stack. `Locals` reads them off the tree instead
(`CallsAreScoped`: every pending call has just these), so that a node is `Clean` or not, whatever was
visited before. `NothingIsMissed`, the core of `TemplateInv`, says that while nothing was found every
node of what was parsed is clean and noted, or below a pending call: a visit takes its node off, and
what is strictly below it is at or below one of its children (`UnderChild`), each of which is called
for or, what a loop over a placeholder goes over, settled on the spot (`ContractIter`). So `TemplateWalk`
needs no induction over trees, only over the steps of the visitor. It remains that a clean node is one that
rendering can use: `Locals` and the scopes of Jinja (`Bound`) differ by the else branches of loops,
and a loop might bind the first name of a contract path; without these two (`Reuses`),
`CleanIsDefined` compares them one kind of node at a time, and `AcceptsExactlyWhatRenders` follows.

*CaseRelations.* `RowsAreSound`: rows say what the forms let them say, representations name rows of
participants, and no two active rows say the same. `PagesAreNeverStuck` has two halves. A constraint stops a valid post only if a row takes
what another one of the post gives up (`ExchangesOnly`); in whatever order they are saved, the rows
end as one assignment would leave them (`EditedRows`). And a page whose rows that may no longer be selected are removed
passes (`ClearedPagesPass`). For `SavedRowsStaySelectable` the rows a post did not touch matter: the
formset validates them too (`KeptRow`, `OfferedIsSelectable`).

*Amounts.* `Hearing(from, words, to)` says that a listener who hears the words goes from one state of
mind to another; hearings compose. The words of a group say the group (`GroupHeard`), by its
hundreds, tens and units. It takes the group to be the first, or its hundreds to be said, zero or
not: otherwise a lone digit would get its place from the word before. A scale puts the group where
it belongs (`ScaleHeard`), "nghin ty" included; `AmountHeard` climbs from the highest group to the
lowest, those of zero being silent, and `AmountsAreReadBack` follows for all amounts of up to
`MaxGroups` groups, of which a run can go through few.

*Passages.* Lines are split first and squeezed and joined later, while `Reading` goes over the passage
once and asks for each visible character what is between it and the one before. What connects the two
is `Told`: what a sequence of lines tells, with a mark between two that are not blank, a blank instead
if paragraphs are wanted and the two are neighbours. `Follows` says of every prefix of the passage that
its lines tell what was read so far, and that they know what the next mark depends on (`Tracks`): whether
anything was shown, whether no break, one or more came since, and whether the last character is a
blank. It is kept by a break, by the "\n" of a "\r\n", by a blank and by a visible character
(`BreakStep`, `SwallowStep`, `SpaceStep`, `VisibleStep`), so it holds of the whole passage (`LinesTell`). Paragraphs
tell the same as their lines (`ParagraphsTell`, by `Progress` from line to line), since joining two lines by a blank
and squeezing is the same as squeezing both (`JoinsAre`). `EscapesReadBack` undoes the three replacements, of which
the first has to be that of the ampersand. `SegmentsSayThePassage` puts these together.

So every invariant and action property of a passing run, and every refinement, is proved. Only
model-checked is liveness (`WorkSettlesAttempt`, `EveryRequestEnds`): it needs fairness and ENABLED,
which are outside the prover.

## 5. Not modelled

* The comparison of a rendered document with its context (`output_validation.py`) counts tokens in
  the output of docxtpl; its verdict is one of the outcomes of `Prepare`.
* Dates, names, addresses and identifiers (`legal_formatters.py`) are fixed layouts of one value.
* Groups, permissions and policies: tables and predicates over them that every model takes as
  granted. The return address of a login is a string check.
* The reconciliation of template files goes through the same functions as that of artifacts; unsafe
  directory entries and a misconfigured root end the command before it counts anything.
* Unique codes, identity numbers and validity dates of reference data: one constraint or comparison
  each, refused in the same place as what is modelled.
* The registry and the form schemas are a table fixed at deployment; lists, selectors, dashboard and
  audit pages read; middleware, checks and health keep nothing; configuration, migrations, scripts
  and the front end are no part of the running program.
