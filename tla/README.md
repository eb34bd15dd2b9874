# A TLA+ model of the COESCD backend

The repository is a NestJS backend on Postgres and Redis with a Next.js frontend: document
management (EDM) with approval routes, registration and numbering, tasks, calls, chat, files,
maps and analytics for an emergency committee. This directory models the parts whose
correctness depends on order, overlap and failure, checks them with TLC and proves the central
ones with TLAPS. `PROJECT.json` lists runs, mutants, findings, hazards and theorems, and maps
every definition that models code to its lines.

## Inventory

Each component with its state, its operations, what it talks to, what is hard about it and where
it is modelled. Sizes are lines of TypeScript without tests.

| component | state | operations | hard | modelled in |
|---|---|---|---|---|
| EDM route engine (`edm/edm-route.service.ts`, 1.0k) | documents, routes, stages, stage actions, timeline | submitToRoute, executeStageAction + applyRouteProgress, override | check on a copy read before the transaction; READ COMMITTED; stages of one level decided at once | `RouteEngine`, `EdmLifecycle`, `EdmRoute`, `EdmRouteRaces` |
| EDM documents (`edm/edm-document.service.ts`, 0.9k) | documents, replies, file links | createDraft, updateDraft, archive, forward, responsible, reply, link | saves of stale copies | `EdmRoute`, `EdmRouteRaces` |
| EDM registration (`edm/edm-registration.service.ts`, 0.4k) | numbering sequences, registration journal, resolution tasks | registerDocument, updateRegistrationStatus, assignExternalNumber, createResolutionTasks | row lock, two unique indexes, first use of a scope | `NumberIssuer`, `EdmRegistration` |
| EDM templates (1.0k) | document and route templates, kinds, saved filters | CRUD, building stages from a template | replacing stages is delete, then insert; cascading save of a copy | `EdmTemplates` |
| EDM reports and alerts (0.9k + scheduler) | alerts | scan of deadlines by a cron job and on request, acknowledge, reports | check, then insert; two producers | `EdmAlerts` |
| EDM workflow engine v2 and its documents (`edm-enterprise`) | documents, workflow instances, assignments, transition log | start, transition, SLA check; update, archive | statements one by one without a transaction | `EdmWorkflow` |
| EDM document versions v2 | versions, current number | automatic and manual save, restore | number read, row inserted, document advanced, each for itself | `EdmVersions` |
| EDM collaboration gateway | presence in memory of one process | join, leave, cursor | keyed by user, not by socket | - |
| Task management (3.8k) | tasks, status history, assignments, delegation chains; Redis cache | create, change status, move, edit, assign (one or many; to a user, a department, a role), revoke, escalate (scheduler) | a scheduler that pages through rows it changes; saves of stale copies; a cache filled late | `TaskDesk`, `TaskEscalation`, `TaskDelegation` |
| Authentication (`iam/authentication`) with `axios.ts` of the frontend | users' refresh token ids, which run out, and rate limit counters (Redis); the tab's cookie and token | sign in, refresh, sign out everywhere, deactivate; interceptor | token rotation in separate calls; ids that run out; the interceptor refreshes through itself | `Sessions` |
| Users, bulk import (2.5k) | users; import sessions and results by idempotency key (Redis, both run out) | CRUD; dry run, apply | retry of an import that is still running, died or was long ago; users, departments and units that change between dry run and apply | `BulkImport` |
| Organisational units (0.3k) | a tree with the path of each unit | create, update, remove | the check for cycles and the refreshing of paths are many statements; children are counted before a removal | `OrgUnits` |
| Calls (0.8k + browser hook 0.5k) | calls, socket rooms, tab state | invite, accept, reject, hang up, relay of offers | awaits between check and save; several tabs; reconnects | `CallSignaling` |
| Chat (0.5k + browser hook) | messages, socket rooms, the list of a tab | join, history, message | history and messages overtake each other; reconnects | `ChatRooms` |
| Files (1.8k) | file rows, objects in S3, links | upload, presigned upload, complete, delete, link, share | store and table are written in two steps | `FileStore` |
| Authorization (`iam/authorization`) | roles, permissions, delegations | predicates | - | - |
| Notifications, GIS | messages, map features | insert and emit | delivery only | - |
| Analytics, analytics platform (4.1k) | disasters, data sets, KPIs | CRUD, aggregation, ingestion queue | arithmetic on data sets | - |
| Departments | rows | CRUD | a removal takes the department from users while an import puts them into it | the removal, in `BulkImport` |
| Legacy tasks and documents, facades | rows | CRUD | - | - |
| Ops, config, Socket.IO adapter over Redis, migrations, seeds | - | health, wiring, schema | flags in the memory of one process | one process is assumed |
| Frontend (30k) | React state | pages over the API | only the call, chat and HTTP clients keep protocol state | with their components |

How they interact: the HTTP controllers call `EdmService`, a facade over the EDM services; the
route engine asks the template service for stages, the registration service shares the numbering
sequences with it, and the reports service creates alerts for it. All of them share the
`edm_documents` row, which is the reason for most hazards: every service loads it, checks it and
saves the copy later. EDM events (`EventEmitter2`) reach a listener that only logs. Calls, chat
and notifications share the Socket.IO server and its `user:<id>` rooms, nothing else. The legacy
and the v2 EDM have tables of their own. Tasks, sessions, imports, units and files share no row
with each other that one of them decides on.

Properties that make them correct:

- route engine: the document and its route agree; approved means that somebody approved and that
  nothing is left to decide; the trail explains every stage; a document in route waits for
  somebody; the order and the policies are obeyed.
- numbering: a number belongs to one document; numbers of a scope have no gap.
- calls: one answer; no microphone before consent; every tab learns how a call ended.
- workflow engine: every step is reached by a recorded transition, and somebody can act on it;
  the version a document shows is its newest.
- tasks: every status was earned, every overdue task is marked and the marks are accounted for,
  a cached task is the task, at most one assignment is active and the task shows what the last
  assignments said.
- sessions: a user whom nobody disturbs and who comes back in time stays signed in, and every
  request is answered.
- import: a call that is repeated within the session does not go through the rows again, and an
  import does what it reports.
- alerts: one comes, and comes once. Templates: a submission gets the stages of one edit.
- units: a tree, with right paths, and no unit loses its parent to a removal nobody overlapped.
  Files: row and object agree. Chat: a tab shows its room.

One backend process is assumed throughout. The repository ships a Socket.IO adapter over Redis for
several, but the `isRunning` flags of the schedulers are per process, so with several processes
their ticks would overlap as scans on request do. What the models say about rows, locks and
Redis does not depend on the number of processes; what they say about ticks does
(`AlertsAreSingle`, `EscalationsAddUp`), and so does a restart that takes all calls with it.

## Modules

| module | what it is | code |
|---|---|---|
| `RouteEngine` | pure operators: opening stages, what an approval does to the stages, when a route completes | `submitToRoute` 127-180, `applyRouteProgress`, `override` |
| `EdmLifecycle` | abstract: status, version and number of one document, as an API client sees it | the promise of the EDM services |
| `EdmRoute` | one document and its routes, one request at a time; one action per handler | edm-route, edm-document, edm-registration services |
| `EdmRouteRaces` | the same handlers as load / begin / write / commit on row locks | the same, plus Postgres |
| `NumberIssuer` | abstract: a registry office that gives numbers in order | |
| `EdmRegistration` | numbering sequences, journal and document copies under overlapping requests | `assignExternalNumber`, `registerDocument`, `updateRegistrationStatus`, saves of copies |
| `EdmTemplates` | a route template and what a submission gets from it | `edm-templates.service.ts` |
| `EdmAlerts` | scans for deadlines, alerts and their acknowledgement | `edm-reports.service.ts`, `edm-alerts.scheduler.ts` |
| `EdmWorkflow` | one document of the second EDM on the seeded workflow definition, statement by statement | `edm-workflow-engine.service.ts`, `edm-documents.service.ts` |
| `EdmVersions` | the versions of one document of the second EDM | `edm-versions.service.ts`, `edm-documents.service.ts` |
| `TaskDesk` | task rows, the handlers that write them, the cache | `tm-task.service.ts`, `tm-task-cache.service.ts` |
| `TaskEscalation` | the desk together with the scheduler | `task-escalation.scheduler.ts` |
| `TaskDelegation` | the assignments and the delegation chain of one task | `tm-task-delegation.service.ts` |
| `Sessions` | refresh tokens of a user against one browser tab | `authentication.service.ts`, `axios.ts`, the AuthProvider |
| `BulkImport` | dry runs, sessions, apply calls, results by key, and the users and places they write | `users-bulk-import.service.ts` and its session store |
| `OrgUnits` | the tree of units and its paths | `org-units.service.ts` |
| `FileStore` | objects and rows of files | `files.service.ts`, the S3 storage |
| `CallSignaling` | calls table, gateway handlers, rooms, events on their way, browser tabs | `calls.gateway.ts`, `calls.service.ts`, `useCallsSocket.ts` |
| `ChatRooms` | messages, rooms, what a tab shows | `chat.gateway.ts`, `chat.service.ts`, `useChatSocket.ts` |
| `SecondEdmProofs` | theorems about `EdmWorkflow` and `EdmVersions`, and about both in `MCEdmWorkflow` | |
| `TasksProofs` | theorems about `TaskEscalation` and `TaskDelegation`, and about both in `MCTasks` | |
| `ServicesProofs` | theorems about `EdmTemplates`, `BulkImport`, `EdmAlerts`, `Sessions`, `ChatRooms` and `FileStore`, and, with `OrgUnitsProofs`, about all of `MCServices` | |
| other `...Proofs` | theorems about the module they are named after | |
| `MC...` | constants, plans and symmetry for TLC | |

`EdmRoute` and `EdmRouteRaces` extend `RouteEngine`, so the two models cannot drift apart in what
a verdict does; `TaskEscalation` extends `TaskDesk`. `EdmRoute` has the refinement to
`EdmLifecycle`, `EdmRegistration` the one to `NumberIssuer`, and `EdmRouteRaces` is tied to
`EdmRoute` by `UndisturbedIsAtomic`. Operators whose comment begins with "Bug:" are the mutants:
each is what a plausible slip in the code would make of the definition that follows it, and a run
that uses it violates the property `PROJECT.json` names. No specification uses them.

Components that share no variable are checked in one run: `MCTasks`, `MCServices` and
`MCEdmWorkflow` have a variable `part` that says which of them a behaviour is about; the others
stay as they began. Their states add up instead of multiplying, and a property of one part is
checked in all its behaviours and holds trivially in the others. Each part has a specification
of its own in its module, which the proofs are about.

The types of a module are one invariant. In `EdmRouteRaces`, `EdmRegistration` and
`CallSignaling` it is a conjunct of the property that leans on it (`VerdictsAreRecorded`,
`NumbersBelong`, `MediaNeedsConsent`).

"Disturbed", "muddled", "crossed" and the like are history variables that only properties read.
Where the code promises something only as long as requests do not overlap or fail, the property
says so with one of them, and says exactly how little it takes: that is the content of those
properties.

One assumption about TypeORM runs through all modules: `save` of an entity writes every column in
which the entity differs from the row at that moment. So a stale copy takes back what others
wrote, `sla_breached`, `deleted_at` and `current_version` included, and one whose row is gone is
inserted again.

### EdmRoute

`doc` is the `edm_documents` row (status, `current_route_id` as a version number, whether there
is an external number), `routes` the `edm_document_routes` rows with their stages, `actions` the
verdict rows of `edm_stage_actions`. `CommentStage`, `RejectStage`, `ReturnStage`, `ApproveStage`
are the four outcomes of `executeStageAction`; `ForceApprove` and `ForceReject` those of
`override`. The guard of a stage action is what the code asks: the stage is on the current route
and open. It does not ask for the state of the route or document, nor for the order of the
stage, and the model does not either.

What is left out: who acts. `assertDocumentScope` and `assertStageAssignee` let an administrator
do everything, so they never take a step away, only actors. Texts, dates, deadlines, timeline
rows, alerts and events are left out because nothing reads them back into a decision here. Two
documents share nothing but the sequences, so one document is enough. A plan may put several
stages in one order and group; the DTO accepts any integers.

Run `EdmRoute` (2.3 million states, two minutes): plans of up to three stages in up to two
orders, every policy, two submissions. Three stages in two orders are the smallest plans with
siblings on either level, and the engine never looks further than the current and the next
order; two submissions are needed for a return and a replaced route. What it shows:

- `DocumentMatchesRoute`, `ApprovedIsSettled`: see the proofs below.
- `AuditBacksApproval`: the trail has exactly one verdict for a stage that was decided, and no
  route approves itself. The second is not what the documentation promises (see the findings);
  it is what is left when stages may be decided out of order and after a rejection.
- `HistoryIsKept`: a replaced route never changes, a closed stage stays closed.
- `SomebodyIsAsked`: a document in route is in somebody's approvals inbox. The invariant names
  the only plans for which this fails: `parallel_all_of` with two groups in one order, where the
  second group stays pending until somebody acts on it unasked.
- `KeepsLifecycle`: refinement to `EdmLifecycle`.

Deadlock is not checked: an archived document with all its submissions used up may rest.

### EdmRouteRaces

A request loads the document outside any transaction (`Load`), reads its stage (`Begin`), writes
its first rows and keeps their locks (`Write...`), and commits. TypeORM's `save` writes the
columns in which the copy differs from the row; the model lets the whole copy win, which is the
same for the columns it has. Row locks are sets: `MayCommit` waits for holders, `DeadlockVictim`
aborts one of two transactions that wait for each other, and a version that is being inserted by
another transaction fails with the unique violation of `UQ_EDM_ROUTE_DOCUMENT_VERSION`. Reading
the stages and deciding is one step with the first write: what another transaction commits
between the two reads is seen either way in some other behaviour.

Two requests in flight, five in all, two stages under each policy (900 thousand states, half a
minute).
Two are enough for every pairwise overlap; the other three bring the document into the states in
which the overlap hurts. `alone` is a history variable: nothing was committed since the request
loaded. `UndisturbedIsAtomic` says that such a request does exactly one step of `EdmRoute`, so
everything shown for `EdmRoute` holds for requests that do not meet. For those that do, little
is left: `VerdictsAreRecorded` holds (every verdict a stage shows has its audit row, and somebody
approved what is approved), `DocumentMatchesRoute` does not,
and `ActiveRouteHasOpenStage` is a finding. Registration is left out here, since `EdmRegistration`
has it; the copies carry the number all the same. `edit` stands for the two handlers that save
the copy without a status of their own, `updateDraft` and `createResolutionTasks`.

### EdmRegistration

Two documents, two requests in flight, two types of which one may be journaled, two numbers per
type (2.3 million states, one minute). Two requests and two documents give every collision:
on the sequence row, on a sequence that does not exist yet, on the journal. A type stands for the
whole scope (department, type, year). The status is left out, so a document may be submitted or
edited at any time: more behaviours than the code has, and the properties hold for all of them.
`edit` is any save of a copy. The select and the update of `save` are one step.
`updateRegistrationStatus` is `ReadEntry` and `SaveEntry`: it reads the entry of the journal, waits
for the actor's row and saves its copy of the entry, so that a status change which overlaps a new
registration puts the number of the entry back to the old one.

One assumption about the library: the locked `findOne` of `assignExternalNumber` joins the
department, and Postgres refuses `FOR UPDATE` on the nullable side of an outer join. The model
takes the lock to work as the code intends; with another query the requests would fail instead,
which gives out no number.

`NumbersBelong` holds in spite of stale copies of documents and of entries, because what a stale
copy brings back is an older number of the same document. A document's number can be replaced,
and `OnlyStaleCopiesRenumber` says when. Document and journal may show different numbers of the
document afterwards; the property does not deny it.

### CallSignaling

Two users with one and two tabs, two calls, four requests, two gateway handlers in flight, one
reconnect (890 thousand states up to symmetry, half a minute). Two tabs of the receiver are needed
for a double answer, two calls for an event of one call to meet another. Every `await` between the
check, the read and the save of `updateStatus`, and the emits is a step of its own. `raced` records
calls on which two handlers overlapped: on those the code promises nothing (the last save wins).
`AnsweredOnce` and `KeepsCallLife` leave such calls out, so an answer that overlaps another or a
hang-up is a hazard no property covers; they are about the order of requests, tabs and reconnects.
`dropped` records tabs that reconnected. A tab's reaction to an event is one step, except for the
wait for the microphone and for TURN credentials, which is where `MediaReady` and `MediaFails` come
from. The browser sends only what its buttons can send.

### EdmWorkflow

`start` and `transition` run without a transaction, so each statement is an action: `Load` (the
instance with its assignments, and all the checks), `MarkActed`, `RecordTransition`, `Move`,
`SyncStatus`, `Clear`, one `Assign` per assignee, `AssignDone`. `Fail` ends a request between any
two of them and leaves what was written: an error, or a restart. `ReadDocument` and
`SaveDocument` are `updateMetadata`, which saves a document it read earlier and puts its old
status back. The definition is the one the migration seeds; the code has no operation that
changes it. A definition without a `department_head` or a fixed user does not reach the other
branches of `resolveAssignees`. Who may pass `requirePermission` is left open, which allows more
than the code does; that only an assignee acts on a step is checked by the engine and modelled.

Run `EdmWorkflow` (1.6 million states with `EdmVersions`, 45 seconds): an owner, two reviewers of
whom one is the approver, two requests in flight, five in all. Four requests take a document from
start to signed, five also through a rejection back to a step it has been in; two in flight give
every overlap of a pair. `disturbed` is a history variable: two requests overlapped or one failed.
What it shows: whatever happens, the log leads (`TrailExplainsSteps`): a document is never in a step
that no recorded decision leads to, so a failure loses the move, never the reason for it; and a
signature is backed by a reviewer's and then an approver's decision (`SignedWasApproved`). Without
disturbance the log is one walk, status and step agree (`CalmWalk`), and everybody the definition
names can act, also after a rejection brought the document back (`StepIsStaffed`; it is the deletion
of acted assignments that makes this true). With a disturbance neither of the two holds, and nothing
in the code repairs it.

The SLA check is not modelled. It escalates only what `definitionSnapshot.escalation` names, and
`start` copies `steps` and `slaConfig` only, so it writes nothing.

### EdmVersions

`current` is `current_version` of the document, `history` the rows of its versions, `saver` the
saves between two of their statements. A manual save reads the document, inserts the version
after the current one, and advances the document; the unique index refuses a number that is
taken. An automatic save looks for the row of the current version and writes over it, or inserts
it. `Restore` is a manual save of an old content; its two reads are one step, since a row is only
changed while it is current. `UpdateDocument` and `SaveCopy` are `updateMetadata`. The first
version is saved by `create` after the document says 1, so it gets the number 2; that is the
code. Soft deletion is left out: it hides the document from every handler.

It is the second part of the run `EdmWorkflow`: two saves in flight, four in all. Two give every
overlap, and four an old number that comes back after newer versions. `CurrentIsNewest`: only a
save that died before it advanced the document, or a copy that put the number back, parts the
current version from the newest. Afterwards every manual save meets the unique index and is
refused; nothing in the code repairs it.

### TaskDesk, TaskEscalation, TaskDelegation

`TaskDesk` has the rows of tasks, the cache of `findOne`, and the requests between two statements or
calls to Redis: `changeStatus` and `bulkChangeStatus` (which sets no dates), soft deletion, moving,
editing, and the assignment as far as it writes the task. `bulkAssign` writes a history row for
every id it was given, also for a deleted task that it did not find (`Listed`); an id that no row
ever had is refused by the foreign key. `past` holds the history variables. `TaskEscalation` adds
the scheduler: `Tick`, `FindPage`, `MarkPage`, `LogPage`, `TickFails`. `Pages` is what a query with
an order, an offset and a limit may return when due times are equal. `TaskDelegation` has the
assignments of one task, its chain rows, and the three fields in which the task shows a user, a
department and a role. An assignment names one or several of them (`Wishes`); `SaveAssignee` writes
those it names and saves the others as they were read, so a task that goes from a user to a
department shows both. `BulkAssign` writes all three on the task and no assignment. `EditTask` and
`SaveEdited` are the handlers that save a copy of the task without its relations, of which only the
role is a column. The id of a chain row goes into a reference to assignments, so the database
refuses an assignment whenever a chain row is unrevoked; the model has that refusal, and the branch
of `revoke` that gives a task back to its last holder never runs.

Run `Tasks` (1.2 million states, two minutes with the liveness check): two tasks with
one request, or one with two; a page of one, so that the offset skips; the clock moves once; one
failure. Two tasks are needed for a page that skips, two requests on one task for a stale copy.
Or one task with three requests to assign it to a user, a role or both, alone or in bulk, to
revoke and to edit it; a department is treated like a user here. Three requests are an assignment,
its revocation and another, or an edit on either side. What it shows:

- `StatusIsEarned`, `CompletionIsDated`: what a stale copy may bring back is a status the task
  had, with the dates it had.
- `EscalationsAddUp`: every mark has its history row, and a second one only when a stale copy took
  a mark away.
- `CopiesKeepUp`: the history tells the status, and the cache is the row; of a deleted task it may
  tell an assignment that did not reach it. The property names the
  writers that do not invalidate (`moveToColumn`, assignment, the scheduler), a `DEL` that fails,
  and a reader that a writer overtook.
- `HolderIsShown`: no assignment is active but the last, and the task shows in each field what the
  last assignment that names one said, unless `bulkAssign` wrote it since. The second assignment
  of a task is refused after the first has been taken back, so a task can show somebody without an
  active assignment, and one of a department leaves the user before it shown: the property allows
  both, since the code does both without overlap or failure. What it excludes is that the task
  shows in a field anything else than it was last told there.
- `OverdueTaskIsMarked`: see below.

Left out, and seen while modelling: `createdBy` is not loaded where closing asks for it, so only
an administrator can close a task; `sla_deadline` is never set, since the event that would set it
is never emitted.

### Sessions

`stored` is the token id Redis keeps for a user, `cookie` and `access` what the browser holds,
`active` the user's flag, `requests` the requests in flight. A refresh is `Limit`, `FindUser`,
`Validate`, `Invalidate`, `Insert`, `Reply`: one call to Redis or Postgres each. An inactive user
and an id that is not the stored one are answered with 401; without its cookies a refresh never
gets there, since the CSRF guard answers 403. The stored id runs out (`IdExpires`; the storage
sets it with `EX`, the time of the refresh token), and the cookie, which is as old, after it
(`CookieExpires`). The interceptor sends its refresh through the instance it is installed on, so
the 401 of a refresh is answered with a refresh: `depth` counts these. The limiter's 429 ends the
chain.

First part of the run `Services`: two requests, a limit of two refreshes (thirty in the code),
the access token runs out once, the window of the limiter moves once, two other events
(`MaxBad`). Two requests that run out together are what overlaps; more than two add no new pair.
Two refreshes are one and the one that answers its 401. The window does not move while refreshes
run: it is a minute long and its thirty refreshes take less.
`UndisturbedStaysSignedIn`: a user who has signed in and is active, who comes back before the id
runs out, and whose refreshes neither overlap nor get lost, is not sent to the sign-in form. Two
requests that expire together do sign the user out, and so does a day without a refresh: the first
is a fault of the code, the second what the time to live is for, and both count as a disturbance.
`RequestsSettle`: see below.

### BulkImport

`DryRun` checks a file against users, departments and units and keeps it in a session of half an
hour; `Call`, `ReadSession`, `Lookup`, `ReadIndex`, `ReadPlaces`, `SaveRow`, `Audit`, `Store` are
the steps of `apply`. `sessions` are all those of one actor, because a result is kept by actor and
key, whatever session it is of. `SessionEnds` and `ResultDrops` are the times to live, which are
the same: a result is stored after the sessions that were there, so it goes after them, and that
is all the model takes from the clock. `RowFails`, `CallFails` and `Crash` end a row, a call or
the process. `Administer` is anybody else who edits users; `RemovePlace` removes a department or a
unit, and Postgres takes it from its users (`ON DELETE SET NULL`,
`20260218165000-CoreDomainExplicitBaseline.ts` 205-222,
`20260222120000-IamOrgScopeDelegationPhase1.ts` 156-171). A place that is gone when `apply` reads
them is left empty without a word (`Found`); one that goes later makes the row fail.

One file of two rows, of which one makes an administrator; one place; two dry runs, two calls, one
trouble. Two dry runs and two calls are a key that meets another session, a call that repeats one,
and two that overlap.

- `AppliedOnce`: a call that repeats one that has been answered, with the same session and the
  same key, does not go through the rows again, unless it is held up between the session and the
  result until both have run out. This is less than `docs/bulk-user-import-spec.md`
  promises: "repeated apply with same key returns same operation result" (161) and "Re-running
  same file with same `idempotencyKey` is safe" (226). Running a file again means a dry run and so
  another session. Under the key of the first, and while its result is kept, such a call is
  answered with the result of the first session and its own rows are not looked at; when that
  result has run out, the rows are gone through again. And calls that overlap, or follow one that
  died before its result, are not told from new ones.
- `ImportTakesEffect`: what the result reports is true of users nobody else touched: who is not
  among the failures has the values of the file, the role only if the session allowed it, and the
  place only if it was there as the run read the places, else none. A row that lost its department
  this way is reported as applied. And every saved row is audited or among the failures.

Left out: the policy checks that document lists. Nothing in the code does them but for a warning.

### EdmAlerts

`open` are the stages whose deadlines count, `unread` the alerts nobody has read, `scans` the
running scans. A scan looks for an alert and inserts it in two statements; `Tick` starts one when
no other tick runs, `AskForScan` any time. The alert that `applyRouteProgress` asks for is left
out: it has not loaded the assignee, asks for the recipient 0, and no such user exists. One stage,
due at hour two, with one person who is also the superior, three hours, a scheduler and one scan
on request: that gives all three kinds and every overlap of two. `AlertsAreSingle`: nobody has an
unread alert twice but for scans that a request started while another ran. `AlertComes`: see
below. The scan includes stages that stayed open on rejected routes, and creates an alert again
once it was read while the deadline stands; both are the code.

### EdmTemplates

`template` is the row with the edits its stages come from, `edits` the updates between two
statements. The save cascades to the stages the copy was read with, and is one step. Three edits,
two at once. `PlanIsOneEdit`: a submission gets the stages of one edit, the newest, or nothing,
unless two updates of which one replaces stages overlapped. An update whose stages are refused
leaves the template without stages, since they are checked after the old ones were deleted; the
property allows it.

### OrgUnits

`units` are the rows with parent, name and path; `turns` the requests between two statements.
`update` reads the unit and the new parent, climbs to the root (`Climb`), saves (`SaveUnit`), and
walks down, one child after the other (`FindChildren`, `SaveChild`). `remove` counts the children
(`RemoveUnit`) and deletes in another statement (`DeleteUnit`). The foreign key of the parent is
the one of migration `20260222120000-IamOrgScopeDelegationPhase1.ts` (75-83), `ON DELETE SET NULL`
(the migration that would make it otherwise, `AutoMigration`, is not among those that
`database/data-source.ts` runs): a child that was created between the count and the deletion
becomes a root and keeps the path it had. Three units, two names, two requests at once, three in
all, from a chain of three: that has all a move can meet, a step makes it a root with two below
it, and the third request is the move that meets what a failed one left. Paths are at most three
long, which only cuts off behaviours on a cycle. `TreeIsKept` is about steps: none makes a cycle
as long as two updates do not overlap, an update nobody disturbs leaves every path below its unit
right, also those a failure broke earlier or a removal left behind, and only a removal that
overlapped with another request takes a unit's parent away. Two moves that overlap can make a
cycle; after that, the climb and the refreshing never end.

### FileStore

`objects` is what S3 has, `fileRows` the table, `filing` the requests in flight. `UploadFile`,
`SendObject`, `InsertFile`; `CreatePresignedUpload`, `PutByUrl`, `CompletePresignedUpload`,
`LookAtObject`, `InsertFile`; `SoftDelete`, `DeleteObject`, `MarkDeleted`. A failure may come
between any two. Keys hold a random UUID and are independent, so one key, with two sizes and three
requests. `FilesAreStored`: an active file has its object with the size of the row, a deleted one
has none. The property leaves out a key that the client put again with a URL that outlives the
check, and an active row whose deletion stopped half way, until it is repeated.

### ChatRooms

`saved` is the table of messages, `sending` those saved and not emitted, `wire` what is on its way
to a tab, `listed` what it shows. A tab opens a room, joins it when its socket is not in it from
the start, asks for the history, and appends what arrives; it loses its connection, changes rooms,
meets restarts. The hook joins the rooms that begin with `dm:`; the page offers no others besides
the global one and the user's department, in which the gateway puts every socket, so that is the
same. A socket the tab closed
delivers nothing (socket.io). Tabs do not meet, so one; two rooms of which one has to be joined, a
history of two, three messages, two changes. Three messages over a history of two give one that
the history leaves out. `TabShowsRoom`: a settled tab shows the newest messages of its room, each
once and none of another room. A message that is emitted between the reading of a history and its
reply is lost from the list, which the property names and the code does not prevent.

The run `Services` has all seven parts: 676 thousand states, three minutes, most of them for the
liveness of two (import 306 thousand, sessions 150, units 128, chat 40, alerts 23, templates 18,
files 11).

Deadlock is not checked in `EdmWorkflow`, `Tasks` and `Services`: the bounds on requests and time
end every behaviour.

## Fairness and liveness

Most steps are taken by a person, and the code gives no person a reason to act: a document may
stay in route for ever. What must not happen there, a document in route with nobody to act, is an
invariant (`SomebodyIsAsked`, `ActiveRouteHasOpenStage`). Three things the code does by itself:

- `OverdueTaskIsMarked`: a task that is overdue does not stay unmarked. Weak fairness of the
  scheduler (`Tick`, `FindPage`, `MarkPage`, `LogPage`): the cron job fires for ever, and every
  statement returns or throws. Ticks skip pages, may fail, and lose marks to stale copies; what
  makes it true is that the offset starts at zero every time and that `isRunning` is reset.
- `AlertComes`: a stage that calls for an alert gets it. Weak fairness of the alert scheduler, for
  the same reason. A scan that a request started may stop anywhere.
- `RequestsSettle`: every request of a page is answered or refused. Weak fairness of the answers
  to each request: the server and Redis answer or the connection breaks, which is a refusal too.
  Nothing else is fair; in particular the window of the limiter need not move.

Requests, failures, edits and the clock are never fair. No symmetry is used in the two runs that
check liveness.

## Findings

Each is a run that violates one property quoted from the repository; `PROJECT.json` has the
quotes.

| run | what the code does |
|---|---|
| `EdmRouteAllOf` | an all_of route that was rejected or returned completes when the stages that stayed open are approved |
| `EdmRouteAnyOf` | from the second order on, one approval does not close its siblings, also when every stage is approved in its turn: the approved stage of the first order still counts |
| `EdmRouteSequential` | a stage can be decided before its turn |
| `EdmRouteRacesStuck` | two approvals of one level at the same moment leave the route active for ever |
| `CallSignalingRinging` | a call the caller gave up keeps ringing at the receiver |

## Proofs

All theorems hold for every value of the constants that the assumptions named in the modules
allow: any number of users, requests, tasks, keys, any bound.

`EdmRouteProofs` (`StagesAssumption`, `RouteAssumption`): `TypeCorrect`, `RouteAgreement`
(`DocumentMatchesRoute`), `ApprovalSettles` (`ApprovedIsSettled`), `RefinesLifecycle`
(`KeepsLifecycle`), `AuditExplains` (`AuditBacksApproval`), `HistoryKept` (`HistoryIsKept`),
`DocumentsAreAsked` (`SomebodyIsAsked`). The inductive invariant is `TypeOK /\
DocumentMatchesRoute /\ ApprovedIsSettled`. The first two are needed for each other: that
`current_route_id` is the last row comes from the numbering of versions, and that a submission
replaces a returned route from the agreement of the rows. `ApprovedIsSettled` needs no
strengthening beyond them, but it carries the refinement: a stage decision is possible only on an
open stage, so never on an approved or archived document, which is what `EdmLifecycle` says of
`DecideByStage`. Its one interesting case is `ApproveStage`: when `Completes` holds, skipping the
siblings left nothing open, and opening the next order, the lowest of an empty set, changes
nothing. The lemmas on `SkipSiblings`, `OpenNext` and `SkipAll` say this of any plan. For the
audit trail, `TrailInv` adds that no stage of a route that is neither any_of nor overridden is
skipped: with `ApprovedIsSettled` every stage of an approved route then has a verdict. `Rewrites`
says what all handlers have in common, that closed stages stay and that each stage which gets a
verdict gets a row, and gives both theorems. That somebody is asked is not inductive by itself:
`Asking` adds that the lowest order of a route that is not any_of has no pending stage, and only
open and approved ones, so that the level the engine takes for the current one is always the
lowest. `LeastNumber`, by well-founded induction from the library, says that there is a lowest.

`EdmRouteRacesProofs`: `RacesKeepTheTrail` (`VerdictsAreRecorded`),
`UndisturbedRequestsAreAtomic` (`UndisturbedIsAtomic`). A transaction fixes all it will write when
it writes its first row, and commits it later. So `RacesInv` says of every pending write what has
to be true of the rows after its commit, whatever was committed in between: a closed stage has its
row among those that are written (`RowsOf`), a document that will be approved is backed by them or
by the rows that are there (`SavesDoc`), and a submission holds the key of the version it inserts
(`Inserts`), so two never insert the same. Stale copies are harmless because what is said of a
copy (`Sound`) speaks of rows that only grow. For the second theorem `AloneInv` says that a
request during which nothing was committed has the document row as its copy, and that what it will
write is what `EdmRoute` computes from the rows. The step that commits is then, field by field,
the step of `EdmRoute` for the same handler. With it all that is proved of `EdmRoute` holds of a
document as long as its requests do not meet.

`CallSignalingProofs`: `CallLifeKept` (`KeepsCallLife`), `MicrophonesNeedConsent`
(`MediaNeedsConsent`), `OneTabAnswers` (`AnsweredOnce`), `NoScreenIsLeft` (`ScreensAgree`).
`CallsInv` has five parts. `Base`: whatever speaks of a call, an event, a screen, a room or a
handler, belongs to one of its two parties. `Calm`: on an undisturbed call one handler is at work,
and what it checked and read is still what the row says; from this alone comes the life of a call.
`Consent`: an event that opens a microphone is sent about calls that were accepted, and stays true
as `startedAt` of an undisturbed call is never taken back. `Rooms`: while a call is pending, or its
receiver's answer is being handled, no tab of the receiver is in the room. `Screens` is about the
order of events in an inbox: a tab that shows a call, or will when its inbox is empty
(`WillShow`), is in the room, and when the call is over the handler that ended it has still to
tell the room. `AnsweredOnce` and `ScreensAgree` are the cases in which nothing is left to come.

`SecondEdmProofs`, first about `EdmWorkflow`: `WorkflowTypeCorrect`, `LogLeads`
(`TrailExplainsSteps`), `SignatureIsBacked` (`SignedWasApproved`), `CalmLogIsWalk` (`CalmWalk`),
`CalmStepIsStaffed` (`StepIsStaffed`). `Inv` is `Shape /\ Log`: what a request between two
statements knows is either in the log or about to be, and the step it will write is one the log
already explains. For the calm properties, `CalmInv` is `Inv /\ (disturbed \/ Quiet)`, where
`Quiet` says what the one request in flight has written, by its place in the sequence of
statements. Then about `EdmVersions`: `NewestIsShown` (`CurrentIsNewest`). `VersionsInv` is the
shape of the rows and, unless muddled, `InStep`: no request read a number above the current one,
and only the save about to advance the document has a row above it, at the next number. It is the
unique index that makes this true when saves overlap. `VersionsTypeCorrect` adds `Bounded`: a
version number is at most two above the saves so far, one that a request has read at most one, and
what a version holds was saved. With `WorkflowTypeCorrect` it gives
`SecondEdmTypesCorrect` (`SecondEdmTypeOK`) of `MCEdmWorkflow`.

`TasksProofs`, first about the desk and the scheduler: `StatusEarned` (`StatusIsEarned`),
`CompletionDated` (`CompletionIsDated`), `EscalationsCounted` (`EscalationsAddUp`). The difficulty
is that a copy read long ago may be saved at any time. `TaskInv` therefore says `CopyOK` of every
copy in flight as well as of the row, and `CopyOK` speaks only of history that grows (the statuses
a task has had, whether it was changed in bulk, escalations written or lost), so a copy stays
right however old it gets. `Covered` counts the escalations including the page that is marked and
not written yet. `CopiesUpToDate` (`CopiesKeepUp`) rests on it: `CopiesInv` says that on an
undisturbed task one request at most is between its read and its history row, that its copy is the
row until it is saved, and that the history is one row behind afterwards; and that a cached task is
the row, or known to be stale, or about to be dropped, since a request that invalidates drops all
it writes (`Covers`). Then about the delegation: `HolderShown`
(`HolderIsShown`). `HolderInv` says, unless muddled, that only the last assignment may be active, and
which fields of the task are right (`Right`: as the last assignment that names the field says), by
the place of the only request in flight: an assignment that has inserted its row leaves open only
the fields it names, and the copy it saves is the task.
`TasksTypesCorrect` (`TasksTypeOK`) is about both in `MCTasks`: `DeskBounds` says at which
statement a request is, and that cache, history and clock stay in their bounds; that its copies are
rows is in `TaskInv`, and the delegation has its shape in `HolderInv`.

`OrgUnitsProofs` (`OrgUnitsAssumption`): `TreesAreKept` (`TreeIsKept`). Two arguments.

- No cycle. While no two updates overlap, `Uncrossed` says of the one that climbs that there is a
  set of units, closed under parents but for the one it reads next, which contains its new parent
  and not its unit. Units created meanwhile are leaves, and deletions only take parents away: neither
  disturbs the set. When
  the climb reaches a root the set is closed, so a cycle after the save would have to lie in it and
  outside of it at once (`AcyclicGrows`). An update that refreshes paths saves copies, and may give
  a unit back a parent that a removal took from it. `Walked` says that nothing worse happens: with
  `F` for the parents at the time it set out, every unit has its parent of that time or none, and
  every copy has the one of that time.
- Right paths. Of an update that nobody disturbs, `Orderly` says that the units it has read and not
  saved, or is about to read, form a frontier: none is below another, a copy carries the right path
  of its parent, which is below none of them, and a unit at or below the updated one has the right
  path or is below one of them. When the walk ends the frontier is empty. If earlier updates that
  overlapped left a cycle, the invariant is the other disjunct, `Endless`: the frontier meets a set
  in which every unit has a child, so the walk never ends, and nothing is claimed of it.
- Nobody left behind. A removal that no request overlapped deletes with the children it counted,
  which were none (`Undisturbed`).

That the trees to start from are forests (`IsForest`) is an assumption on `FirstUnits`: the foreign
key gives each parent its row, and a unit is created under one that is there. `Below(u)` is the
smallest set with `u` that has the children of its members. That needs no recursion, so the lemmas
about it (`BelowBelow`, `BelowParts`, `CycleIsAbove`) need no induction. `OrgTypes` is the type of
the rows and requests (`OrgBounds`), for the theorem about `MCServices`.

`EdmRegistrationProofs` (`RegistrationAssumption`): `NumbersOwned` (`NumbersBelong`),
`RenumberedByStaleCopies` (`OnlyStaleCopiesRenumber`), `RefinesIssuer` (`IssuesInOrder`). `RegInv`
is `Rows`, `Locks` (whoever holds the row of a sequence holds it alone and writes the number after
the one in the row), `GivenOut` (nothing beyond the sequence has an owner) and `Own`, which says of
every copy in flight, of a document or of an entry, what the property says of the rows. A number
about to be committed has no owner yet by `GivenOut`: under the lock because of `Locks`, on an
insert because the unique index lets only one insert find the scope absent. So a commit is `Give` of
`NumberIssuer` and takes no number away, and old copies may be saved at any time.

`ServicesProofs`, six services in one module, each with an invariant of its own, and the types of
seven:

- `OneEditOffered` (`PlanIsOneEdit`). `TemplateInv`: unless two requests were mingled, the stages
  and the copies about to be saved come from the newest edit, and whoever replaces is alone.
- `ImportedOnce` (`AppliedOnce`, under `BulkImportAssumption`: a file has rows, as the validation
  asks, and no two of them share an e-mail). `KeysKept` is the heart: a session that has not ended
  has, for every key it was applied under, a result that was kept when the session was there. It
  survives `ResultDrops`, whose guard is that such sessions have ended, and another session's
  result under the key, which is kept later still. So a call that repeats one and has read its
  session finds a result (`Repeating`).
- `ReportIsTrue` (`ImportTakesEffect`, under the same assumption). `Faithful` says of a calm run
  what it knows of the users: each row's user is as its index has him, or has by now what the row
  asks for (`InEffect`, with the places as the run found them); and each row behind it failed or
  has taken effect. Whoever else writes a user, another run or Postgres when a place is removed,
  ends the calm of the runs and results it may contradict; its own saves do not spoil what it
  knows, as no two rows share a user. `TrueOf` is the same for results.
- `OneAlert` (`AlertsAreSingle`). `AlertInv` counts the unread rows of an alert and the scans about
  to insert it: one, and one more for every scan that was met. It is an argument about the
  cardinality of the set of scans: at most one comes from the cron, and of two all have met.
- `CalmStaysSignedIn` (`UndisturbedStaysSignedIn`). `SessionInv`: unless disturbed the user is
  active and there is one refresh at most, the page waits for it, and it carries the id that Redis
  keeps, until the handler has replaced that id by the one in the answer; and with no refresh
  running the cookie is that id, so that `CookieExpires` cannot happen before `IdExpires`.
- `TabsShowRooms` (`TabShowsRoom`). `ChatInv`: list, history and wire of a tab are about its room,
  and a newest message that was emitted, and not while the history was on the way, is `Coming`: in
  the history on the wire, or in a message behind it, or, with no history on the wire, in the list
  or a message.
- `RowAndObjectAgree` (`FilesAreStored`). `FilesInv` adds four facts: `Ready` (whoever is about to
  insert a row has the object, since a deletion needs a row first), `Emptied` (a deletion that got
  to the row has removed the object), `OwnKey` (the key of an upload through the backend belongs to
  that request), `Made` (a row or a request is only about a key that was made).
- `ServicesTypesCorrect` (`ServicesTypeOK`), about all behaviours of `MCServices`: one lemma for
  each part, from its invariant and what its bounds need. Two of them say something of the code.
  `SessionsTypes`: the interceptor answers the 401 of a refresh with a refresh, and the chain is
  never longer than the limiter allows and one more. `Fits` gives the reason: the depth of a refresh
  is at most what the limiter has counted (one more before it is counted), it counts before it
  lets one through, and its window moves on only when no refresh is running. `AlertsTypes`: no more
  scans were met than requests started, counting with them the scans that may yet be met (`Unmet`).

Model-checked only: the liveness properties `OverdueTaskIsMarked`, `AlertComes` and
`RequestsSettle`, as liveness under fairness and `ENABLED` are out of the prover's reach. What
`SessionsTypes` proves is the finite part of `RequestsSettle`: that a chain cannot go on for ever.

## Plan

Every safety property of the passing runs is proved. Worth doing next: the progress of tasks made
from a resolution.

## Not modelled

- Permission checks (`iam/authorization`, scopes of documents): predicates without state of their
  own. The models let everybody act whom the code lets act in some configuration.
- Notifications, GIS, departments but for their removal, legacy tasks and documents, KPI and
  disaster records: one statement per operation, or relays that keep nothing.
- The collaboration gateway: presence in the memory of one process, lost with it, and shown to
  people only. It is kept by user, so the first of two tabs that closes removes both.
- Analytics: arithmetic over data sets. The synchronisation of disasters names columns that the
  table of disasters does not have, so it cannot succeed as it stands.
- The SLA check of the workflow engine (see above), and a role nobody holds, which leaves a step
  without assignee: configuration, and no code reacts to it.
- The pool of database connections: inside its transaction a verdict asks the alert service for a
  second connection (`edm-route.service.ts:924`). With as many verdicts at once as the pool has
  connections they wait for each other. It is listed as a hazard without a property, since pool
  size and timeouts are configuration.
- Reports, lists, search, exports, audit queries: they read.
- Migrations, seeds, health, configuration, wiring, and the pages of the frontend.
