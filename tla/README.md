# TLA+ verification of BookedAI

TLA+ models of the parts of the BookedAI platform where concurrent requests,
background workers, asynchronous page code and external services touch the same
state, the TLC configurations that check them on small instances, and theorems
about them checked by TLAPS. Paths are relative to the repository.

## 1. Inventory

The platform has three layers.

* A FastAPI backend (`src/backend`). Every HTTP request runs in one SQLAlchemy
  session (`db.py`, `get_session`), that is in one PostgreSQL transaction at READ
  COMMITTED, and yields to others at each `await`. Workers are started by
  cron-like HTTP calls and open sessions of their own.
* A Next.js admin console (`src/app`, `src/lib`). Its repository
  (`src/lib/db/admin-repository.ts`) speaks to PostgreSQL through Prisma and
  opens no transaction: every statement commits by itself.
* React single-page applications (`src/frontend`). Their handlers are asynchronous
  functions over the state of one page: they run to the next `await` without
  interruption, and whatever is shown by then is what an answer finds.

No part shares memory with another; they interact through tables and HTTP, and
with Zoho, Stripe and the messaging providers through HTTP.

| Component | State | Operations | Interacts with | What is hard | What makes it correct |
| --- | --- | --- | --- | --- | --- |
| Chess schedule slots (`repositories/chess_schedule_slot_repository.py`, `api/v1_chess_slot_handlers.py`) | `chess_course_schedule_slots`: capacity, enrolled_count, status, meeting room | create (one or a recurrence), update, cancel, reserve, release, attach meeting | bookings, Zoho Calendar | races for the last seat; edits during a reservation; releases after a cancellation | enrolled_count between 0 and capacity; a seat per booking; one room per cohort |
| Booking intents (`api/v1_booking_handlers.py`, `service_layer/lifecycle_ops_service.py`, `repositories/booking_intent_repository.py`) | `booking_intents`: status, metadata | create, reschedule, cancel, status update, regenerate meeting | slots, outbox, CRM, mail | a caught exception aborts the transaction; metadata written back whole; row-lock deadlocks | a booking has its seat; every request ends |
| Automation callbacks (`service_layer/booking_mirror_service.py`) | booking and payment mirrors | callback | bookings, payments | late and repeated callbacks | no finished state is undone |
| Outbox (`workers/outbox.py`, `repositories/outbox_repository.py`) | `outbox_events`, audit log | enqueue, dispatch, replay | every orchestrator; Zoho notes | overlapping runs; effects outside the transaction; replay against dispatch | recorded outcomes are true and audited |
| Job runs (`workers/scheduler.py`) | `job_runs` | start, finish | every worker | the failing run rolls its own row back | a run tells its outcome |
| Sales pipeline (`src/lib/db/admin-repository.ts`, `src/app/admin/*/actions.ts`) | customers, leads, services, bookings, payments, `audit_logs` | create, edit, annotate, archive, convert a lead, set a payment status | tables | six statements of a conversion without a transaction; read-modify-write of notes and dates; a separate audit statement | one customer per lead; bookings for the lead's customer; a truthful audit log; nothing lost |
| Access control (same repository) | `user_roles`, `role_permissions` (deleted softly), users | create a user, save a user's role and status, save a role's permissions | tables | revoke and grant are two statements; a unique index that counts deleted rows | access as saved; one role per user |
| Homepage search and booking (`frontend/src/apps/public/HomepageSearchExperience.tsx`) | query, shortlist, guidance, selection, conversation, result | search, share a position, select, book, follow up, Home | booking API, browser | overlapping searches whose answers nothing orders; late enrichment of a booking | shortlist, guidance and booking belong together; one submission; each question answered |
| Booking assistant dialog (`components/landing/assistant/BookingAssistantDialog.tsx`) | conversation, catalog, choice, form | open, close, ask, choose, submit | booking API, browser | an answer rewrites the last message; a catalog that arrives late; fallbacks | replies under their questions; locks that open again |
| Customer portal (`apps/portal/PortalApp.tsx`) | booking shown, composer, outcomes, locks, access tokens | look up, retry, request, switch reminders, ask | booking API | answers in any order about any booking | one request at a time; outcomes alone; waits that end |
| AI Mentor slots (`api/v1_ai_mentor_student_handlers.py`) | `aimentor_time_slots` | reserve, confirm, release, cancel | Zoho Calendar, bookings | two transactions with Zoho in between | no seat held for nobody; no seat freed twice |
| Payments (`service_layer/stripe_webhook_service.py`, `payment_lifecycle_service.py`) | `payment_intents`, `idempotency_keys` | webhook, manual confirmation | bookings, outbox | redelivered and reordered events, two keys for one payment | paid once; paid is not undone |
| Inbound messages (`api/route_handlers.py`) | `webhook_events`, `idempotency_keys` | webhook | conversation | redelivery while the first is in progress | one reply per message |
| CRM synchronisation (`repositories/crm_repository.py`) | `crm_sync_records` | push, retry | Zoho CRM | retries after partial success | no duplicate record |
| Reminder, feedback and retention workers (`workers/*.py`) | marks in metadata | tick | mail | overlapping ticks between send and mark | at most one mail |
| Academy (`service_layer/academy_service.py`) | assessments, subscriptions, agent actions | a linear pipeline per row | bookings | little | actions in order |
| AI cost breaker, rate limiter (`core/ai_cost_breaker.py`, `rate_limit.py`) | counters in memory | charge, check | language models | windows and limits | spending stays near the budget |
| Workspace and billing settings (`src/lib/db/admin-repository.ts`) | JSON per tenant | save a part | tables | read-modify-write | no part lost |
| Sandbox store, handoff sessions, tokens; search, matching, conversation | expiring records, none | create, read, query | front end, language models | expiry; numeric and textual | - |
| Tenant workspace, AI Mentor applications, marketing pages, n8n, deployment | - | user interface, configuration | - | - | - |

`PROJECT.json` repeats this list with what is modelled, and lists the main hazards
one by one, each at its line with the properties that cover it or the reason
none does yet. Smaller ones, not listed there: two deliveries of one event race
for an idempotency key (`idempotency_repository.py:61`); two ticks of the feedback
worker send one mail twice (`feedback_request_worker.py:226`); the "failed" row of
a job run is rolled back with it (`scheduler.py:44`); a cancelled booking never
gives its seat back (`lifecycle_ops_service.py:1917`); a late callback overwrites a
cancellation (`booking_mirror_service.py:527`); a payment created as refunded has no
refund date (`admin-repository.ts:2905`); tenant settings are read and written back
whole (`admin-repository.ts:1853`, `2455`); a denied position brings back its
prompt (`HomepageSearchExperience.tsx:2767`); a booking intent that cannot be
hydrated falls back to a second booking (`BookingAssistantDialog.tsx:4381`); a
portal request whose answer is lost is recorded twice (`PortalApp.tsx:854`).

## 2. Modules

| Module | What it is |
| --- | --- |
| `SeatPool` | abstract specification: what a table of bookable sessions promises |
| `ChessSlots`, `MCChessSlots`, `ChessSlotsProofs` | slots, bookings and the requests that touch them, statement by statement; instances; theorems, the refinement of `SeatPool` among them |
| `DeliveryQueue` | abstract specification: what an outbox promises, delivery at least once with every outcome on record |
| `Outbox`, `OutboxProofs` | outbox, its producers, its dispatch runs and their job runs, replay; theorems, the refinement of `DeliveryQueue` among them |
| `AdminPipeline`, `MCAdminPipeline`, `AdminPipelineProofs`, `AdminPipelineSafetyProofs` | the tables of the sales pipeline under repository calls, statement by statement; instances; type correctness; the other theorems |
| `AdminAccess`, `MCAdminAccess`, `AdminAccessProofs` | the join tables of access control; instances; theorems |
| `HomepageSearch`, `MCHomepageSearch`, `HomepageSearchProofs` | the search and booking page, await by await; instances; theorems |
| `BookingAssistant`, `MCBookingAssistant`, `BookingAssistantProofs` | the dialog, await by await; instances; theorems |
| `PortalApp`, `PortalAppProofs` | the portal page and its calls; theorems |

### Rows and transactions (`ChessSlots`, `Outbox`)

A row has a committed version (`slots`, `bookings`, `events`), the version its
current writer has drafted (`slotDraft`, `bookingDraft`, `draft`) and the
transaction that holds its lock (`slotLock`, `bookingLock`, `lock`). A SELECT sees
committed rows and the transaction's own drafts. An UPDATE takes the lock and
keeps it to the end of the transaction; when another one holds it, the UPDATE
waits and evaluates its WHERE clause again on the newest version, as READ
COMMITTED does. If the clause already fails on what the statement sees, it
touches nothing and does not wait. `WaitsFor` and `DeadlockVictim` are
PostgreSQL's deadlock detection.

### ChessSlots

`slots` is keyed by (tenant, service, starts_at), the unique index of the
table; "absent" is a row not inserted. A booking keeps the status classes the
code tells apart, `scheduleSlot` (metadata.schedule_slot_id, written at
creation), `slot` (metadata.slot_id, written by a reschedule) and its meeting.
`Renewed` is a meeting made anew by the regeneration endpoint. `pc[w]` is the next
statement of request `w`, `req[w]` its arguments and what it has read.

| Action | Code |
| --- | --- |
| `BeginCreate`, `ReserveSeat`, `InsertBooking` | `create_booking_intent`: look the slot up, `reserve_capacity`, Zoho, `upsert_booking_intent` and `attach_meeting_metadata` |
| `BeginReschedule`, `ReleaseOldSlot`, `ReserveNewSlot`, `RejectBadSlot`, `AssignDate` | `orchestrate_booking_rescheduled`: read the context, `release_capacity`, `reserve_capacity`, `update_slot_assignment` |
| `BeginCancel`, `BeginStatusUpdate`, `BeginCallback`, `BeginRegenerate`, `ReadMetadata`, `WriteMetadata` | `sync_callback_status`, `update_zoho_meeting_metadata` and `update_slot_assignment` with a slot: the metadata is read by one statement and written whole by the next |
| `BeginPublish`, `CreateSlot` | `create_tenant_chess_course_slots`: one upsert per start, one transaction |
| `UpdateSlot` | `update_slot` and its commit; cancelling a slot is a case of it |
| `Commit`, `RejectAborted`, `Crash`, `DeadlockVictim` | the ends of a request |

A reschedule catches the exceptions of its statements. PostgreSQL has then
aborted the transaction, so every later statement fails and is caught too. The
request is at "aborted" until the handler's commit, which first flushes the
conversation events that `orchestrate_communication_touch` added to the session;
that INSERT fails as well, and the handler answers 502 (`RejectAborted`).

### Outbox

A dispatch run is one session: `ListPendingEvents`, then for each event
`AppendEntry` (the audit entry), `HandleFeedback` (the Zoho note of a
booking_feedback.recorded event) and `UpdateEventStatus`, then `FinishRun` with
the job_runs row. `Abort` is an error or the death of the process; `Rollback`
does not take back notes. `EnqueueEvent` is a producer's commit, `RequeueEvent`
the operator's replay.

### AdminPipeline and AdminAccess

`pc[r]` is the next statement of request `r`; a statement is atomic and
commits. `Fail` ends a request anywhere and leaves what it has written. The
actions carry the names of the repository's methods. A mutation is `findFirst`,
a write by id, `appendAuditLog`; `convertLeadToBooking` is `findService`,
`getCustomerById`, the whole of `convertLeadToCustomer`, `bookLead`,
`winLead`, each with its own audit entry. The columns of a customer or a
service are not told apart; of a lead are kept whether it is won, its customer
and its notes (a note stands for the request that added it), of a payment which
dates are set. `audit[x]` is what the newest entry says of row `x`.

`AdminAccess` keeps one state per possible join row: never inserted, live, or
deleted, since the unique index covers the deleted ones (`KeyIsFree`). A save is
`findHolder`, `updateUserStatus` (users), `revokeAll`, `insertGrants`, `readBack`,
`appendAuditLog`.

The variables `raced` and `interrupted` are history: the rows that two requests
worked on at once, and those on which one failed. They delimit what the code
can promise without transactions; the properties say what holds on all others.

### The pages

In each of the three modules an action is what runs between two awaits, and the
record of an asynchronous call keeps what its closure captured.

* `HomepageSearch`: `runSearch` up to its first await (which may hold the query
  for clarification), `agentAnswers`, `liveReadAnswers`, `legacyAnswers`,
  `legacyFails`; the position (`useCurrentLocation`, `positionGranted`, which
  searches again, `positionDenied`); `handleBookingSubmit`, `bookingCreated`,
  `bookingFails`, and the calls of `runPostBookingAutomation`, the last of
  which is `queueHandoff`: it hands the booking to revenue operations, or fails and
  marks it for manual review, on the page only and only while it is shown; `returnToHomepageSearch`. The effect that confirms a
  booking in the conversation is part of every action that makes a new result
  (`Announce`). `crossed` is history: another search or the Home button crossed
  the last search; `ShortlistOfQuery` speaks of searches that nothing crossed,
  `GuidanceOfShortlist` of all.
* `BookingAssistant`: `sendChatMessage` waits for a catalog if there is none
  (keeping the conversation it saw in `snapshot`), `begin` writes the question
  and a placeholder, `agentAnswers` and `requestChatReplyStreaming` rewrite it,
  `requestGeoContext` and `retryWithPosition` follow when a position may be
  asked for, `showShortlist` ends the message. The form goes through
  `bookingIntent`, `requestLegacyBookingSession`, `runPostBookingAutomation`,
  or falls back to `legacySession`; an event goes through `eventSession`. A
  closure sees the position of its render, hence `unlocated`. `disturbed` is
  history: two messages waited for the catalog together, or a catalog
  arrived under a message. Such a conversation may lose a message; the
  properties of the conversation say what holds of the others.
* `PortalApp`: a call under way is a record of its kind and of what its handler
  captured; `bookingLoaded`, `loadRefused`, `loadFails`, `requestAccepted`,
  `requestFails`, `remindersDisabled`, `remindersFail` and `careAnswers` are the
  continuations. `filed` and `stopped` are what the API has recorded, also when
  its answer is lost. `tokens` are those in sessionStorage and `expired` those
  whose date is past (`tokenExpires`): `getPortalAccessToken` forgets an expired
  one and sends none. An answer comes in two steps, as `fetchWithTimeout` limits
  the first only: `headersArrive`, then the continuation that needs the body; a
  failure may come before or after. The portal's four kinds of request run through the same
  lines and are a constant.

## 3. Runs

| Run | Question | Result |
| --- | --- | --- |
| `ChessSlotsBooking` | Do seats, bookings and rooms agree when two requests race for a slot the operator publishes, resizes and cancels? | `SeatsMatchBookings`, `BookingTakesSeat`, `SharedRoom` hold |
| `ChessSlotsEditing` | Does the count stay in range while slots are edited and cancelled under bookings that move? | `TypeOK`, `SeatsWithinCapacity`, `CancelledSlotFrozen` hold |
| `ChessSlotsLive` | Does every request end, however locks cross, and do the committed slots behave as a pool of seats? | `RequestsEnd`, `ImplementsSeatPool` hold |
| `ChessSlotsOverbooking` | Are there at most `capacity` live bookings on a slot? | no: a reschedule to a full slot goes through with a warning |
| `OutboxDispatch` | Is what rows, audit log and job runs record true when runs overlap, fail, abort and meet replays, and does every run end? | `AuditTrail`, `ProcessedIsNoted`, `ImplementsDeliveryQueue`, `RunTellsOutcome`, `RunsEnd` hold |
| `AdminPipeline` | What do tables and audit log keep saying of each other when three repository calls interleave and fail? | `ConversionMakesOneCustomer`, `LeadMatchesBookings`, `AuditTellsRow`, `DatesAndNotesKept` hold on rows that no two requests worked on at once |
| `AdminAccess` | Which access do holders end up with? | `AccessAsSaved`, `OneRolePerUser`, `NoLeftoverGrants` hold: a save that names a grant the holder ever had is refused, after everything was revoked, and saves that overlap may join their grants but leave no older one |
| `HomepageSearch` | Does what the page shows belong together when searches, bookings and Home overlap? | the eight properties hold |
| `HomepageSearchStale` | Does a query that ended with nothing to show clear the shortlist? | no: the answer of an earlier search fills it again |
| `BookingAssistant` | Do conversation, guidance and locks survive overlapping answers, catalogs and failures? | the six properties hold; only an event leaves the form locked |
| `PortalApp` | Do locks, outcomes and notes stay with their request while tokens expire, and does every wait end? | the six properties hold; every wait ends unless the body of an answer is awaited |
| `PortalAppStalled` | Does the time limit of 30 seconds end every call? | no: it ends with the headers, and a body that stalls leaves the locks of its call |

Each run that finds a violation quotes, in `PROJECT.json` under "findings",
the line of a docstring, document or migration that promises otherwise.

`SeatsMatchBookings` counts every booking made, cancelled ones too: a cancellation
never calls `release_capacity`. It holds without reschedules only.

Known from the models, without a run of their own: a booking made with a seat
leaks it at its first reschedule (creation writes `schedule_slot_id`, the
reschedule reads `slot_id`); a moved booking keeps its old room; a reschedule
writes back the metadata it read; a failed event is taken up again by an
operator's replay only; on a raced lead or user the properties of the admin
console fail, as the guards on `raced` say, except for `NoLeftoverGrants`, which
is about the races.

### Bounds

* `ChessSlots`: two workers, as each hazard is between two requests (a race, a
  lost update, a deadlock). Two bookings and a slot of capacity 1 or 2 let the
  last seat be contended and the slot be resized at its limit. Two slots let
  moves cross; the seeded slots include full ones. `Workload` restricts each run
  to the requests its question is about; the runs together fire every action.
* `Outbox`: two runs over two events in a page of two, one of them with a
  consumer; `MaxAttempts` = 2 counted failures before replays stop (the code has
  no such bound), so that an event can fail, be replayed and be processed or fail
  again.
* `AdminPipeline`: three requests of every kind, on one lead and two customers,
  two bookings, a service and a payment: two conversions with an archival in
  between, or an edit that crosses both. Each request is made once.
* `AdminAccess`: two saves on rows left by any earlier saves (`Init` holds every
  such state), so that longer histories need no more requests.
* `HomepageSearch`: two searches and two bookings. A third search adds nothing
  to a pair that overlaps, since the page keeps only the last one's marks. The
  run takes the live build; `isLiveReadMode` is a constant and the theorems hold
  for both values.
* `BookingAssistant`: two messages, two forms, two services.
* `PortalApp`: two bookings, one of them with a token and named by the link,
  and `MaxCalls` = 3 calls (the code has no such bound): the load of the link and
  two that follow or cross it. Two kinds of request stand for the four. The run
  that finds a violation has one booking and two calls.

Deadlock is checked in the runs of `ChessSlots`, `Outbox` and `PortalApp`; in
the others every call is made once, and the system stops when they are used up.

### Fairness

* `ChessSlots` and `Outbox`: strong fairness of each worker's steps: a request
  is a task of the event loop and its HTTP calls have timeouts, so it takes its
  next step if it can; strong, because a row lock may be taken by others many
  times before it is granted, and PostgreSQL grants locks in the order they were
  asked for. Weak fairness of `DeadlockVictim`: PostgreSQL looks for cycles after
  deadlock_timeout. Nothing is assumed of clients, operators or crashes.
* `PortalApp`: weak fairness of `fetchWithTimeout(c)`: within 30 s the headers
  of an answer come or the call fails (`shared/api/client.ts`). The timer is
  cleared then, and nothing limits the wait for the body, so none is assumed:
  `LocksOpenUnlessBodyStalls` says so, and `PortalAppStalled` shows the call that
  never settles. Nothing is assumed of the customer.
* The other modules state safety only.

## 4. Proofs

Assumptions: the named ones of each module, which TLC evaluates. They tell
special values (NULL, no holder) from the values they stand beside, keep row ids
of different tables apart and counters positive. The sets of workers, slots,
rows, requests, searches, messages, calls and so on are arbitrary.

| Theorem | Statement |
| --- | --- |
| `ChessSlotsProofs`: `TypeCorrect`, `NoSlotOverfull`, `CancelledStaysFrozen`, `SlotsImplementPool`, `BookingHasSeat`, `CohortSharesRoom`, `SeatsFollowBookings` | `TypeOK`, `SeatsWithinCapacity`, `CancelledSlotFrozen`, `ImplementsSeatPool`, `BookingTakesSeat`, `SharedRoom`, and `SeatsMatchBookings` for every workload without reschedules |
| `OutboxProofs`: `TypeCorrect`, `OutcomesAudited`, `ProcessedHasNote`, `OutboxImplementsQueue`, `RunsTellOutcome` | `TypeOK`, `AuditTrail`, `ProcessedIsNoted`, `ImplementsDeliveryQueue`, `RunTellsOutcome` |
| `AdminPipelineProofs`: `TypeCorrect` | `TypeOK` |
| `AdminPipelineSafetyProofs`: `OneCustomerPerLead`, `BookingsMatchLead`, `AuditIsTrue`, `DatesAndNotesStay` | `ConversionMakesOneCustomer`, `LeadMatchesBookings`, `AuditTellsRow`, `DatesAndNotesKept` |
| `AdminAccessProofs`: `TypeCorrect`, `SavedAccessStands`, `UserHasOneRole`, `NothingLeftOver` | `TypeOK`, `AccessAsSaved`, `OneRolePerUser`, `NoLeftoverGrants` |
| `HomepageSearchProofs`: `TypeCorrect` and `GuidanceFitsShortlist`, `ShortlistFitsQuery`, `EveryQuestionAnswered`, `FormLockHolds`, `ConfirmedOnce`, `AutomationFitsBooking`, `SpinnerHasSearch`, `BookingsFollowedUp` | `TypeOK` and all properties of the run |
| `BookingAssistantProofs`: `TypeCorrect` and `ReplyUnderItsQuestion`, `PlaceholderAnswered`, `ChatLockHolds`, `GuidanceFitsSelection`, `SubmissionsDoNotOverlap`, `LockLeftByEvents` | `TypeOK` and all properties of the run |
| `PortalAppProofs`: `TypeCorrect` and `RequestsDoNotOverlap`, `OutcomeShownAlone`, `NoteKeepsMode`, `SwitchTellsTruth`, `SpinnerHasCall`, `TokenForgottenOnlyIfSent` | `TypeOK`, all safety properties of the run and `RemindersOffMeansStopped` (a switch that says off is backed by reminders that were stopped) |

Hardly any of the properties is inductive; each proofs module defines `IInv`.

* `ChessSlotsProofs`: the properties speak of committed rows, and a commit writes
  what statements decided earlier. `SlotLocks` says that the draft of a locked
  slot differs from the committed row by one move of the pool (`SeatMove`) and
  keeps the enrolments of a cancelled slot and a room once given. The crux is a
  reschedule that releases and reserves the same slot: between the two statements
  the draft must be exactly `Released` of a releasable row, which the conjunct
  for "reserve" records and the lemma `ReleaseThenReserve` uses. `BookingLocks`
  says that a booking about to appear has its seat in the same transaction,
  `Fresh` that nobody else works on it, and `Control` what each statement may
  rely on. The theorems on steps follow from the commit and the edit alone
  (`CommittedUntouched`, `CommittedMoves`). `SeatsFollowBookings` counts, and needs
  `SeatsOwed` beside `IInv`: whoever locks a slot makes one booking for it in the
  same transaction, or leaves its enrolments alone and makes none. Its hypothesis
  that no client reschedules is needed: a reschedule moves a seat and leaves
  `scheduleSlot`.
* `OutboxProofs`: `RowLocks` says that the draft of a locked event is one marking
  of the committed row by a run that holds its audit entry, and the note if it is
  to be processed; `AuditedAreLocked` that a run has locked every event it has an
  entry for but the one at hand; `AtHand` describes that one. At its commit a run
  has therefore an entry for exactly the rows it holds (`FinishSettles`), which is
  what `DeliveryQueue` asks: one entry per outcome. An event that two runs took may
  be processed, and delivered, twice, or fail after it was processed; the queue
  allows both, and no replay of it.
* `AdminPipelineProofs`: types are not inductive alone; `Shape` says which row a
  request is about at each of its statements.
* `AdminPipelineSafetyProofs`: nothing stands still in a table that any request
  may write between two statements of another, so the proof begins with what a
  statement leaves alone. `Frame` says that it writes only rows its request works
  on or inserts, deletes none, and claims no row of another unless that row
  counts as raced from then on. With `Alone` (two requests share raced rows only)
  and `Existing` (a row that is inserted is nobody's yet), a row that was not raced
  is as its request left it (`Undisturbed`). So what a conversion found of the
  lead's customer holds until it links one (`Progress`), a customer made from a
  lead is the lead's or about to be (`Linked`), an audit entry that is owed is so,
  and so is the last one made when none is owed (`EntriesTrue`), and notes and dates
  read before an update are still those of the row (`SeenIsCurrent`; `BlankBefore`
  for a row that is inserted). `LeadMatchesBookings` is a conjunct of its own
  induction. `EditsTold`, `InsertsTold` and `LinksTold` carry the audit log: what
  each statement writes against what its entry will say.
* `AdminAccessProofs`: `Alone` (a holder that was never contended has one request
  at most), and `Progress`: what that request has made of the holder's rows,
  statement by statement (after "revoke" none is live, after "grant" just those
  asked for). `Leftover` is about holders that are contended too: once one of the
  saves at work has deleted the rows, the live ones are among those that some save
  at work asked for (`NothingLeft`).
* `HomepageSearchProofs`: `LastSearchRuns` ties the running searches to the query
  shown unless it was crossed; `BookingShown` and `NotYetAnnounced` relate the
  result, the lock and the announcement.
* `BookingAssistantProofs`: for each await of a message, what the conversation
  ends with and where its placeholder may be (`Unanswered`, `PendingLast`,
  `PendingAbove`, `Settled`), with lemmas on what an appended or rewritten
  message leaves alone (`LeavesOthers`).
* `PortalAppProofs`: `CallsMade` (a new call overwrites none, a request carries a
  mode and a note of its own), `NothingShownYet` (no outcome is shown while a
  request is on its way) and `SwitchBacked`. `TokenForgottenOnlyIfSent` needs
  `TokenSent`: a load or lookup about a booking whose token is still stored
  carries it, as asking for an expired one has removed it.

Only model-checked: `RequestsEnd`, `RunsEnd` and `LocksOpenUnlessBodyStalls`, since liveness under
fairness is out of the prover's reach. Every other property of a passing run is a
theorem.

## 5. Not modelled

* In `ChessSlots`: the CRM, mail and message side effects of the
  orchestrators, payment state and portal tokens. The outbox event of a
  reschedule stands and falls with its commit and is not a variable of its own.
* `scripts/chess_pre_create_zoho_slot_meetings.py` attaches rooms in advance; it
  imports names `db.py` does not define, so it cannot run at this commit.
* In `Outbox`: `available_at`. It decides which events a full page holds, which the
  model leaves open.
* Tenants: every statement filters by tenant, and rows of different tenants
  never meet.
* In `AdminPipeline`: the mock store that answers without a database, the Zoho
  calls the actions make after the repository returns, columns no property
  reads, and `createService`.
* In `HomepageSearch`: the payment that returns from checkout, voice input,
  ranking. In `BookingAssistant`: filters, voice, layout. In `PortalApp`: the
  academy report.
* The HTTP API between the pages and the backend: a page may be answered or not,
  and what the API did is recorded in `PortalApp` only.
* The tenant workspace, AI Mentor applications and static pages are by far the
  largest files of the repository: panels of independent forms over single
  calls, typed wrappers of those, and content. They hold little control of their
  own, and the modules here cover a small share of the repository's lines.
* The other components of section 1 without a module.

## 6. Plan

1. `AiMentorSlots`, refining `SeatPool`: a reservation in two transactions with
   Zoho in between, release on failure, repeated cancellation.
2. `Payments`: Stripe events redelivered, reordered and concurrent, the
   idempotency table with its unique index, the mirrors on the booking.
3. The composition of a page and the booking API: lead and intent posted
   together, timeouts after which the server has booked, the legacy fallback; and
   of booking lifecycle and outbox: one event per cancellation.
4. Tenant settings: read-modify-write of one JSON value.
5. CRM retries, and the workers that send and then mark.
