# A verification of RelayNest

RelayNest is a self-hosted API and dashboard in front of WAHA, an HTTP gateway to WhatsApp. Operators
schedule one-time texts, send texts at once, run campaigns to WhatsApp groups, and watch the delivery
evidence WAHA sends back over a webhook. This directory holds TLA+ models of the parts whose correctness
depends on the order of asynchronous steps, at the server and in the browser, the TLC configurations that
check them on small instances, and proofs checked by TLAPS for every instance. Source paths below are
relative to `src/apps/api/src/` unless they start with a directory of the repository's root (`docs/`,
`tests/`) or with `web:`, which stands for `src/apps/web/src/`.

Contents: 1 the system, 2 the plan, 3 the modules and the code, 4 what the runs check, 5 fairness,
6 what is proved, 7 disagreements with the documentation, 8 what is not modelled.

## 1. The system

The API is one Node.js process over PostgreSQL. Nothing in it runs in parallel, but everything is
asynchronous: each `await` of a database statement or of a WAHA call lets every other request, the
scheduler's ticker and the webhook run. Several processes may share the database (leases are written for
that). So the unit of atomicity is one SQL statement, or one transaction, together with the synchronous
code around it, and that is what one action of a model is. The web application has the same shape: an
event handler or an effect runs to its end, and between two of them any answer of the server may arrive,
in any order, or never.

| Component | State | Operations | Works with | Hard behaviour | What makes it correct |
|---|---|---|---|---|---|
| Durable scheduler (`scheduler/`, `db/repositories/scheduling.ts`, `scheduled-http.ts`) | rows of `scheduled_jobs` and `dispatch_attempts`; the ticker's running flag | schedule, send now, edit, cancel, delete, tick = recover expired leases, mark missed, then claim-gate-send-settle up to a quota | gate and transport (calls), HTTP handlers (rows), WAHA | leases that end before a call does, crashes between send and settle, concurrent claims, retries, stale reads | a message is handed over at most once; the recorded state agrees with the provider; settled jobs stay settled; every overdue job leaves the queue |
| Messaging (`messaging*.ts`, `db/repositories/messaging.ts`) | `contacts` (consent), `messaging_safety`, answers of immediate sends in memory | prepare (resolve contact, save, check limits), schedule, send now, change consent, gate, transport | scheduler, WAHA | consent withdrawn between any two awaits, limits counted before they are used, a dispatch that serves another request | consent is the operator's last decision; an opt-out stops queued messages; limits hold up to what overlaps |
| Campaigns and follow-ups (`campaigns*.ts`, `campaigns/`, `db/repositories/campaigns.ts`) | `campaigns` (state, job id), handled reactions in memory | schedule, cancel, remove, transport with its marks, reaction trigger | scheduler, webhook, contact groups, WAHA | two tables kept in step by sequences of awaits; the transport's mark before the settling; cancel racing a claim | the campaign's row is never ahead of the provider nor behind its settled job; a withdrawn job is never sent |
| WAHA webhook (`waha/webhook*.ts`, `db/repositories.ts`) | `normalized_events`, `dispatch_attempts.state`, `sessions.status`, promise chains and newest event times in memory | ingest: find session, insert, then update evidence, status or trigger | WAHA (events), scheduler (provider ids), sessions, campaigns | late, repeated, reordered and concurrent deliveries; failures after the insert; restarts | evidence is the highest ack whatever the order; no answered status is lost; one trigger per reaction; every delivery is answered |
| Session lifecycle (`waha/sessions.ts`, `app-session-service.ts`, `waha/session-http.ts`) | `sessions`, `session_grants`, sessions at WAHA | create, update, start, stop, restart, logout, pair, delete, grant | WAHA, webhook, campaigns | WAHA changed and the row not, or the reverse; status stored by two writers; rows that refer to a deleted session | rows stand for sessions at WAHA; a row shows the newest status; the two policies of authorisation agree |
| Chats and messages of a session (`waha/sessions.ts`) | none of its own | list chats with names, list messages with mentions | WAHA | batched lookups that settle in any order, some with errors | each chat under its own name and phone; a mention shows its own label |
| WAHA client and connections (`waha/adapter.ts`, `config.ts`, `url-policy.ts`) | timer and signal of each call | HTTP calls with a timeout | WAHA | a lost answer cannot be told from a lost request; timers, aborts and answers race | every wait is timed; an outcome says what happened; in doubt the message is `unknown` |
| Accounts (`auth/`) | `users`, `user_roles`, `auth_sessions`, `auth_rate_limits` | bootstrap, login, logout, create, disable, enable, reset password | every HTTP handler | concurrent bootstrap, failures counted by concurrent logins, disabling during a login | one bootstrap; passwords examined exceed the limit by overlap only; only administrators of all a user's scopes change it |
| Contact groups (`contact-groups*.ts`, its repository) | `contact_groups`, members | create, add, remove, delete | campaigns, contacts | a check in one statement and its use in another; deletion in two statements | who was let into a group acts on that group; a reaction finds every member at its own session but for a delete that stopped halfway |
| Retention (`retention/`) | policies, preview tokens in memory | preview, purge | history rows | statements that interleave with the scheduler; a preview that is stale when confirmed | a purge nobody disturbs deletes as many rows as were previewed; nothing dangles; what comes back (a message sent again, a consent withdrawn) comes back in the known ways only |
| Notifications (`notifications/`) | settings, `notifications` rows | save settings, send a test | SMTP, Telegram | masked secrets saved by concurrent forms; retries around an SMTP dialogue | the secret is the one typed last; a notification recorded as sent was handed over |
| Backup (`backup/`) | none of its own | export, restore | every table | a restore into a database that moved on | a restore is all or nothing and keeps references |
| Message history (`sent-history.ts`, its repository) | none of its own | pages, search, detail | scheduler's rows, grants, contacts | four statements per page and pages read one after the other while rows come and go | only one's own jobs; statements that agree; no row skipped |
| Time of schedules (`wall-clock.ts`, web: `components/view-support.tsx`) | the stored instant and zone; the dialog's fields | parse, show, edit | scheduler's rows | clocks put forward and back; fields that are edited while a save is under way | the first instant that shows the wall clock; saving untouched delays nothing |
| Dashboard (web: `dashboard-controller.ts`, `session-`, `operations-`, `admin-controller.ts`) | what each part of the screen shows, tokens of calls under way | load, refresh, act, preview and purge | HTTP interface | answers that come after the scope, the window or the user changed | the screen is of the scope above it; a purge is of what was previewed where it is |
| Recipients and composer (web: `recipient-selector*`, `message-composer.tsx`) | number, contact, consent, text | look up, grant, withdraw, submit | contact and send calls | a lookup or a consent answered late | consent shown is consent held; the text names the verified contact |
| History page (web: `schedule-history-*`) | page, filters, dialog | list, open, edit, cancel, delete | message history | answers about a job that another one replaced | shown is what is asked; deleted is what was confirmed |
| Chat directory (web: `chat-directory.tsx`, `chat-history-overlay.tsx`) | chats, messages, timers | choose, open, retry, warm | chats of a session | a ladder of timed retries, warming in turn | shown is what is chosen; empty only after the ladder |
| Session page (web: `session-page.tsx`, `session-connect-panel.tsx`, `session-auto-link.ts`) | list, panel, run of the linking | link, start, poll, QR, pair, delete | session lifecycle | a run that outlives what it is about | the panel is of its session; one start for each panel; one session polled |
| User page (web: `user-access-*`, `admin-pages.tsx`) | list, modal, one slot per change | create, disable, enable, reset, grant | accounts | answers that close another modal, lists out of order | the table is true once nothing is under way |
| Analytics (`analytics/`) | none of its own | figures of a window | rows of the scheduler and the webhook, grants | sessions authorized in turn; tables read apart while they change | only granted sessions; tables that agree as far as they can; windows that add up |
| AI approval | none | compute | nothing | none | pure |

Shared state ties them together: a campaign's or a message's job is a scheduler's row; the scheduler's `complete`
stores the provider's message id without which the webhook's update of evidence finds no row; the webhook starts
campaign follow-ups; operators and the webhook both write a session's status; a purge deletes rows the scheduler
works on. The hazards listed in `PROJECT.json` name the lines where each interaction can go wrong. Four more were
met that no property covers: the quota of a tick leaves jobs to later ticks, behind earlier ones
(`scheduler/ticker.ts:44`); a follow-up is dispatched past the gate (`messaging-runtime.ts:78`); a campaign whose
job ended in recovery keeps its state (`campaigns.ts:194`); a reaction is stored and its trigger fails, when the
retry is a duplicate (`waha/webhook.ts:352`). Section 7 says what the code does there. Where a property of a hazard
allows what the code does (a row left by a failed removal, an audit row that throws after a delivery, a session
issued behind a disable), the hazard's note says what it allows and what it excludes. Analytics read their tables
apart while they change (`analytics/runtime.ts:95`); that is covered, by `AnalyticsInv` within `ReadsInv`.

## 2. The plan

Written, in the order of their importance to a message: `Scheduler` with the abstract `Delivery` it
implements; `Webhook`; `Campaign` and `Messaging`, which compose `Scheduler`; `Sessions`, which has the
status events of `Webhook` with WAHA's own table of sessions; `Accounts`; `Archive` (retention and backup);
`ContactGroups`; `Notifications`; `WahaClient`; `Chats`; `SentHistory`; `ScheduleTime`; `Analytics`; then the
web application, `Dashboard`, `HistoryView`, `Recipient`, `ChatDirectory`, `SessionPage` and `UserAccess`.
The first four components are run alone; the others are instances of `MCParts`. All of them are proved
about (section 6).

Left: quiet hours across midnight and the order in which the gate refuses, as operators; the campaign page
once the router shows it; the media of messages.

Every safety property the runs check is a theorem (section 6). What remains model-checked only are the two
liveness properties of the scheduler and `DeliveriesAnswered`.

## 3. The modules and the code

Every definition that translates code is listed with its lines under `map` in `PROJECT.json`. Operators
whose name starts with `Mut` are plausible mistakes; the specification does not use them. Each property is
shown to have teeth by putting one of them in place of the definition it varies.

### Scheduler.tla

| Variable | Code |
|---|---|
| `job` | `scheduled_jobs`: state, attempts, scheduled_for, next_attempt_at, lease_owner, lease_expires_at, recovery_code |
| `attempt` | `dispatch_attempts.state`, by job and attempt_number |
| `run` | the local variables of each `runOnce` in progress, by lease owner: the ticker, or an immediate send |
| `tick` | the ticker's `running` flag, the time `recover` read, the jobs dispatched so far |
| `deleting` | DELETE requests between their read and their removal |
| `now` | what `new Date()` returns |
| `accepted`, `faults` | history: messages taken by the provider, exceptions and crashes so far |

`runOnce` is six actions: the claim (`TickerClaim`, `ImmediateClaim`), the gate (`GateAllows`,
`GateDenies`), the transport (`TransportAccepted`, `TransportRefused`) and `Settle`, which is `complete` or
`fail` with their condition on the lease. A provider may take a message and the dispatch still hear a
timeout (`unknown`) or a malformed answer (`failed`): `TransportAccepted` allows each. A retryable failure
is never the report of an accepted message, and today WAHA's classifier reports none at all; the retry code
exists and is modelled under `RetryableFailures`. `Throw` is any awaited statement that rejects, `Crash` a
restart of the process: in both the lease stays in the row.

Notes for a reader who compares: the claim reads the clock just before its transaction, and the two are one
step; claims serialise on row locks; `acknowledged` is never written to `scheduled_jobs`, so the state is absent
from `job`; the webhook is the second writer of `dispatch_attempts.state` (`db/repositories.ts:129-141`), so an
attempt whose message has an id may move to what an ack says while its job stays `submitted` (`Acknowledge`; what
the webhook does around it is in `Webhook`); idempotency keys are unique, so a job is its key, and a
repeated request is the same job; a deleted row keeps its last columns in the model, as history, which no
action reads; the scheduler's own `edit` is not wired to the HTTP handler, which calls the raw repository,
so `Edit` leaves `nextAttemptAt` alone.

### Delivery.tla

What the scheduler promises, in three variables: the phase of each job, the jobs some dispatch works on, and
the messages sent. `ImplementsDelivery` maps the scheduler's rows and dispatches to it.

### Webhook.tla

| Variable | Code |
|---|---|
| `handler` | the closure of each `ingest` in progress and the await it is at |
| `chain` | `dispatchUpdates`, the promise chain of each message |
| `stored` | `normalized_events` |
| `evidence` | `dispatch_attempts.state`; `unlinked` until `complete` has stored the provider's id |
| `session` | `sessions.status` and `status_occurred_at` |
| `latest` | `latestSessionEvent`, lost in a restart |
| `now`, `calls` | the session's last change at WAHA, the changes whose operator's call waits to store them |
| `answered`, `applied`, `triggered`, `faults` | history |
| `stale` | history: the last change before which a call stored the status of an earlier one |

WAHA is external: it may deliver any event to any idle handler at any time, again and again. A handler is five or so
actions, one per await. Ack levels are the numbers WAHA uses (-1 to 4) and `AckState`, `Rank` and `Advanced` are the
mapping and the guarded UPDATE. The row's update and the assignment to `latestSessionEvent` after it are one step. A
change of the session's status is WAHA's own (`ProviderChange`) or an operator's (`LifecycleCall`), whose answer the
API stores later with the time of storing (`LifecycleSave`): change k happens at `Instant(k)`, and what is stored
before the next change has the time between the two. The check of a reaction's emoji and the lookup of its campaign
are in `Campaign`. The second path of `ingest`, for a store without the atomic insert, is never taken by the
application and is left out, as are signature and schema checks, which change nothing.

### Campaign.tla

Composes `Scheduler` with the rows of `campaigns` (`campaign`), the progress of create and cancel requests
(`creating`, `cancelling`), reactions that have read their campaign (`reacting`), and the state a transport is about
to write (`mark`). Every action is one of the scheduler's with its effect on these, or changes only these. What any
request may do to a campaign's job besides, its edit among it, is `SchedulerOnly`. The job of campaign c is called
c; `AttachSchedulerJob` sets `campaign[c].job`. A campaign without a WAHA group has no job and stays scheduled. The
transport writes the campaign before the scheduler settles the job, so `SettleMarked` waits for the mark. The gate
always allows keys that start with `campaign:`, those of follow-ups among them, and the campaign transport serves
both; for a follow-up the id it extracts is no campaign's and the write of its mark throws.

### Messaging.tla

Composes `Scheduler` with the row of one contact and its consent (`contact`), the progress of `prepare` and the
contact it read (`request`), what a gate or a transport has read (`seen`), and the remembered answers (`told`). The operator may grant or withdraw consent
between any two steps. The windows of the counts (a day, five minutes, the pacing interval) are longer than
a run of the model, so the three limits are one `Budget` on submitted jobs; quiet hours, cooldown, the
provider's timelock and capping, and failures of the calls that ask for them, are refusals that may come at
any time (`Deny`, `GateBlocks`). `contacts.save` updates the row of a known contact and leaves its
consent alone, or inserts one with the consent the request read (`SavedConsent`): so a request that read the row
before a purge deleted it (`PurgeContact`) brings the consent of before back; `overtaken` is the history that says so.
All messages are to one contact of one session, the worst case for every
property here.

### Sessions.tla

`session`, `granted` and `referred` are rows of `sessions`, `session_grants` and of what else refers to a
session; `waha` is WAHA's own table, `events` the status events on their way, `request` the local variables
of each request; `lost` and `overtaken` are history. A lifecycle call reads the row and the grants (`Begin`), calls
WAHA (`CreateAtWaha`, `Lifecycle`, `Update`, `Pair`, `DeleteAtWaha`), whose answer may be lost (`heard`), whatever
became of the row or the grant meanwhile, and then runs each statement
(`CreateRow`, `CreateGrant`, `UpdateRow`, `SaveStatus`, `RemoveRow`), each of which may throw. WAHA changes by
itself (`Spontaneous`); `StatusEvent` is the webhook's update with its comparison of times. The two policies
of authorisation, the session service's and `authorizeSessionAction`, are operators compared by
`PoliciesAgree`. `Ops` is the operations an instance offers: start, stop, restart and logout differ in the status they
ask for and in who may, so an instance has one of them.

### Accounts.tla

`user` joins `users` and `user_roles`, `token` is `auth_sessions`, `limit` the address's row of
`auth_rate_limits`, `lock` the bootstrap's advisory lock, `request` each request in progress; `bootstrapped`
and `examined` are history. Login is the limiter's check, the read and comparison, the recording of a
failure or the clearing of the row, and the new login session; an administrator's change is its checks and
then its statements, a failure of an audit row among what `Throw` stands for.

### Archive.tla

Retention and backup over the rows they touch: `job`, `attempted`, `referred`, `contact`, `policy`; `previews`
are the tokens in memory, `purge` the transaction in progress, `backup` one exported document. `Preview`,
`PurgeCount`, `PurgeSelect`, `PurgeAttempts`, `PurgeJobs` and `PurgeContacts` are the statements, between which the
rest of the system schedules, claims, delivers, deletes and decides (READ COMMITTED). Attempts and jobs are deleted
by two statements: a job claimed between them has an attempt again, by whose reference the second fails and the
transaction rolls back. `Restore` inserts where nothing conflicts and rolls back when a reference is missing.

`Schedule` refuses only a taken idempotency key, and a job that is purged or deleted frees its key, so the
same request may be sent again under a new job; `SentAgainOnlyWhenLost` says that nothing else makes it so. A
lookup of a contact (`FindContact`) saves what it read later (`SaveContact`) and, when a purge came between, inserts
the consent of before; `ConsentIsGiven` names that (`overtaken`) beside a restore. One purge, one document and
`MaxLookups` lookups are followed; `Categories` is which policies an instance has, for jobs and contacts have no
statement in common but the preview's.

### ContactGroups.tla

`group`, `member`, `contacts` are rows, `used` the groups campaigns refer to; `joined` and `emptied` are
history. No operation is a transaction: the grant is read, a contact found, and a member inserted or removed
in statements of their own; `Delete` empties and then drops. `addMember` takes a contact of any session of the scope,
while `hasMember` asks for one of the reaction's session (`HasMember` has the session as a parameter). `ContactGone`
is the purge, `ContactSaved` a lookup that stores the contact again.

### Notifications.tla

Two machines. Settings: forms read the row, resolve the mask and write, concurrently. Deliveries: `SendTest`
inserts a row, `BeginAttempt` starts one of three attempts, which is an SMTP dialogue (`Envelope`,
`BodyWritten`, `Quit`) or a series of chats (`SendChat`), then the row and the audit row. `received` counts
the copies each destination got.

### WahaClient.tla

One call of `request` or `downloadFile`: fetch, body and error detail are awaited under a timer and, for some
operations, a caller's signal; `Breaks` is the promise that rejects once either fired. `carriedOut` is what
WAHA made of the call.

### Chats.tla

`projectChats`: `inFlight` and `queue` are a batch of lookups (`FirstOf`) and what waits behind it; `phones` and `names`
what they found; `view` the answer. `Mention` replaces the LIDs of a message's text one after the other;
`Prefix` says which LID begins another's digits, the only thing the replacement looks at.

### SentHistory.tla

A page of the history is `ReadJobs`, `ReadTotal`, `ReadNames` and `AnswerList`, a detail `ReadJob`, `ReadNames` and
`AnswerDetail`; between two of them another request may do anything to a job, a grant, a role or a contact's name
(`GrantMade`, `SessionRemoved`, `LoggedOut` and the actions beside them). The reader asks for the pages of one
listing in turn; `stayed`, `lost` and `grown` are what the reader cannot know. A page is a set of jobs chosen by
rank: the newest first means that as many are `Above` a row as the offset says. A search is the code's: the newest
rows only, filtered and paged in memory.

### ScheduleTime.tla

`job` is the stored instant and zone, `shown` and `form` the dialog's schedule and its two fields, `request`
the request under way. A zone is an offset before and after one transition; wall clocks and instants are
integers. `Probed` and `Parsed` are `parseLocalWallClock` with its two probes, `Filled` what the dialog shows of
a schedule.
An accepted edit fills the dialog anew with the schedule it answers, be it the one shown before.
`Day` stands for the 24 hours of the second probe and is longer than any offset, as in the code.

### Analytics.tla

`Ask` fixes the window, `Authorize` takes the sessions one after the other, `Read` is one of the statements that
run at once, and `Answer` gives `projectAnalytics` of what they read. Between them `claimDue`, `complete`,
`fail`, `ack`, `insert`, `cancel`, `remove`, `removeSession` and `Grant` are what the scheduler, the webhook and
other requests do to the rows, no more than the figures tell apart: an ack tells the attempt and not the job, and
only `complete` gives an attempt its message. `messageIdentity` is the envelope's id, because the webhook stores
the whole body (section 7). Rows have no order in the model, for the figures are sizes of sets and sums over
them (`SumFunction`). `uptimeMs` is a pure function and is compared with its meaning for all short
histories.

### Dashboard.tla

The four controllers as slots of a screen: each shows a kind, a value and the scope it is of, and each call
under way carries what its answer is compared with. Slots whose calls carry a token (`Tokened`) and those
whose calls carry nothing (`Free`) are told apart as in the code; `previews` and `deleted` are the server's side
of a purge; `agreed` is what the user saw and confirmed, and where.

### HistoryView.tla, Recipient.tla, ChatDirectory.tla, SessionPage.tla, UserAccess.tla

One page each: the state of its hooks, a set of calls under way, what the server holds, and history that says
what the page could not know. An effect of React is part of the action that triggers it (`Reload`, `Rendered`);
a cleanup that makes an answer count for nothing removes the call; a slot that is overwritten by a late
answer is overwritten in the model. `Serve`, `Refuse`, `Lose` and `Fail` are the server and the network: an
answer may be late, refused or lost after the deed. A modal of the user page takes the pointer and not the keyboard,
so filters and pages may be reached behind it (`Reached`).

### MC modules

`MCScheduler`, `MCWebhook`, `MCCampaign` and `MCMessaging` define the functions and symmetry sets the
configurations name, and nothing else. `MCIngest` runs three instances of `Webhook` in one: acks, changes of
status by WAHA and by operators, or a reaction. The kinds of event have rows, queues and history of their own in
`Webhook`, so a behaviour of all, seen by the state of one kind, is one of that kind's instance, except that faults and
handlers are shared: what more of them could do is beyond the instance's bounds, as is a third change with more than
two requests and one fault. Idle handlers take deliveries in order, for they are alike. The theorems of section 6 are of
`Webhook!Spec` itself, without these bounds.

`MCParts` instantiates the sixteen modules from `Sessions` on. They share no state with each other, so an interleaving of
two is a behaviour of each alone with stutters, and a behaviour of `MCParts` takes the steps of one part,
chosen at first by `part`. The variables of the other parts hold `None`, which keeps the symmetry of requests
and users effective. Several parts may be instances of one module with other constants.

## 4. What the runs check

| Run | Instance and bounds | Question |
|---|---|---|
| `scheduler_safety` | 2 jobs, 3 lease owners, 2 attempts, clock 0..1, lease 1, 2 faults | at most one delivery, one dispatch per job, truthful states, no colliding attempt row, settled is final, DELETE removes only settled jobs, refinement of `Delivery`, the inductive invariant |
| `scheduler_liveness` | 1 job, 2 lease owners, 3 attempts, clock 0..4, 2 faults | overdue jobs leave the queue, attempts end |
| `webhook_ingest` | 3 handlers, 2 faults; a read receipt and an error of one message; or 2 changes of status by WAHA or operators, and a third with 2 requests and 1 fault; or 1 reaction | evidence is the highest ack, answered statuses are reflected, the row converges unless a call stored an earlier status since, one trigger per reaction, every delivery is answered, the inductive invariant |
| `campaign_safety` | 1 campaign and 1 follow-up, 3 lease owners, clock 0..2, 1 fault | campaign and job stay in step, withdrawn jobs are safe, every step is a scheduler's step, the inductive invariant |
| `messaging_safety` | 2 messages, budget 1, 3 lease owners, clock 0..1, 1 fault | consent, opt-outs, bounded overshoot, the inductive invariant |
| `parts` | below | the other components |
| `scheduler_late`, `scheduler_edit`, `webhook_early`, `campaign_race`, `messaging_answers`, `messaging_budget` | as small as the behaviour allows | one disagreement each, section 7 |

The parts of `parts`, each property of the run being the conjunction of the invariants its module states:

| Part | Instance | Invariants |
|---|---|---|
| `logins`, `accounts` | 2 users, 2 requests; 1 token, a window of 1, blocks of 2, clock 0..2, 1 failed statement; or 2 tokens and a clock that stands | one bootstrap commits; no user lacks roles; passwords examined exceed the window by overlap only; accounts change only by administrators of all their scopes (`ChangesByAdmins`, an action property) |
| `sessions`, `overlapping calls` | 1 name at WAHA, clock 0..3; 2 rows, 1 request, stop, delete, update and the passkey; or 1 row, 2 requests, stop, delete and update | references have their rows; a row without a session at WAHA is a delete half done; the policies agree; `StatusShown` |
| `texts`, `files` | 2 calls, one with a signal | waits are timed, outcomes are true, in doubt is unknown |
| `jobs kept`, `contacts kept` | 2 jobs of one idempotency key; or 2 contacts and 1 lookup; batches of 1, 1 token, clock 0..2 | an undisturbed purge deletes as many as were previewed, once per token; nothing dangles; a message goes out again only after a restore or the deletion of its job, a consent withdrawn comes back only by a restore or a lookup that a purge overtook |
| `groups` | 1 group, 2 users, 2 contacts with one phone at 2 sessions, another phone, 2 requests | references, unique names, a request acts on its user's group, a reaction finds each member at its session |
| `settings`, `delivery` | 2 forms, 2 secrets, 3 saves; or 3 attempts over each channel, 2 chats | the secret is the one typed last; attempts are bounded; sent means handed over |
| `chats` | 3 chats, batches of 2, 2 LIDs | lookups bounded, views true, mentions true |
| `sent history` | 3 jobs of 2 sessions, pages of 1, 2 changes | only own jobs, statements agree, nothing skipped, repeated only after growth |
| `west`, `east` | 2 zones on each side of UTC, clocks put forward and back | first instant stored, refused only if skipped or overlooked, instants kept, saving untouched delays nothing |
| `figures`, `readers` | 1 session, 1 job, 2 attempts, clock 0..1; or 2 sessions and changing grants; 1 change during a request | only granted sessions; jobs and attempts agree one way or the other, whichever was read first; retries are attempts; adjacent windows add up; a rate is of messages taken; uptime is the time active |
| `loading`, `controls`, `purging`, `alerts` | 2 scopes, 2 calls of the user under way | the screen is of its scope; administrators' slots; spinners wait for answers; the last call is shown; a purge fails closed |
| `history` | 2 jobs, pages of 1 | shown is what is asked, a deleted job was confirmed and stays gone, verdicts are cleared |
| `recipients`, `numbers` | 2 sessions and a number; or 2 numbers, 2 calls | verified is chosen, consent shown is held, pending is answered, texts agree |
| `chat directory` | 2 sessions, 2 chats, 4 attempts | shown is chosen, empty only after the ladder, warmed in turn |
| `two linked`, `linking`, `commands` | 2 sessions, 1 poll, 2 panels | the panel is of its session, one start per panel, one session polled |
| `users`, `enabling`, `new users`, `grants` | 2 users, pages of 1, 2 lists | the table is true at rest, one change at a time, failures shown later, changes sound |

Why these bounds are enough to be interesting. Two jobs and three lease owners are the least in which one
sender takes another's job while a third dispatch is in flight; a lease of one unit on a clock that moves
is the least in which recovery overtakes a pending call; two attempts are one retry and its exhaustion; two
faults let a crash follow an exception. Three handlers hold two deliveries of one event and a newer event
at once, which is what the ordering properties need, and a chain of three has a head, a middle and an end.
Three changes let a stale event land between two newer ones. Two requests, two scopes, two sessions or two
calls of a page are the least in which one answer overtakes another and is about something else; a page of
one row makes the offset move with every row that comes or goes; clocks that move by two units of a grain of
two show a repeated and a skipped minute. The proofs of section 6 do not depend on any bound.

Bounds are guards: the clock and the provider's changes stop at `MaxTime`, faults at `MaxFaults`, calls under
way at `MaxCalls` or `MaxLists`, panels at `MaxMounts`, saves at `MaxSaves`, other requests' changes at
`MaxChanges`. Attempts, batches, page sizes, the lives of tokens, the quota of a tick and the lease are
constants of the program. Symmetry over jobs, requests or users is used where no liveness is checked.
Deadlock is checked except in `campaign_safety`, where a follow-up's worker, whose mark always throws, has no
step left once `MaxFaults` throws have been used, and in `parts`, where calls to WAHA and clocks end: both are
bounds and not the program.

## 5. Fairness

Only the two liveness questions assume any.

- `Scheduler!FairSpec`: weak fairness of the ticker (`setInterval` fires again whatever a tick met, and its
  errors are caught), of each dispatch (every awaited call returns or rejects: the WAHA client has a
  timeout, the database driver reports a lost connection), and of time. No fairness of operators, of
  immediate claims, or of faults. `MaxTime` cuts off what would happen later, so `OverdueLeavesQueue` and
  `AttemptsEnd` speak of deadlines within the bound.
- `Webhook!FairSpec`, and `MCSpec` of `MCIngest` with it: weak fairness of each handler, for the same reason.
  Nothing obliges WAHA to deliver.

`StatusConverges` needs none: it says what the row shows once WAHA has delivered and been answered.

## 6. What is proved

TLAPS checks the theorems of eight modules; they hold for every value of the constants that satisfies the
named assumptions of the module (distinct names, positive lease and attempts, natural bounds; `Messaging`
also assumes a finite set of jobs, since it counts them).

- `SchedulerProofs`. The invariant `IInv` joins the properties with what makes them inductive:
  `LeaseWhileAttempting` (a lease exactly while attempting), `DispatchesSound` (a dispatch in flight still
  holds the lease of the attempt it claimed, or its job was recovered to `unknown` or deleted since, and what it
  will report is true of the provider), `TickerInLoop`, `AttemptsCounted` and `DeletingSettled`. At-most-once
  delivery is not inductive by itself: a worker whose lease ran out could send a second time if its job could be
  claimed again, and it is `DispatchesSound` that excludes this, because recovery closes a job instead of
  queueing it. From `IInv`: `DeliveredAtMostOnce`, `OneDispatchAtATime`, `RecordedStateIsTrue`,
  `ClaimsNeverCollide`, `LastAttemptAgrees` (by `LastAgrees`, what it says of one job), and the action
  properties `SettledJobsStay` and `OnlySettledDeleted`, with one lemma per action.
  The same module proves the refinement, `SchedulerImplementsDelivery`: initial states map to initial states
  and every step to a step of `Delivery` or to none. A claim is `Start`, an acceptance `Send`, a settling
  `Land`, an exception or crash `Lose`, a tick's recovery or missed marking and a cancel or delete `Close`.
- `CampaignProofs`. Every step of a campaign is a scheduler's (`CampaignIsScheduling`), hence at most one
  delivery of every campaign and follow-up; then `CInv`, whose strengthening is `MarksAreTrue` (what a transport is
  about to write is what the provider did) and `WithdrawnJobs`.
- `MessagingProofs`. The same composition, and `MInv`: consent equals the last decision because the upsert of a
  known contact leaves it alone, and a request that carries a consent to insert has a row before it, or a purge has
  overtaken it (`SaversFindTheirRow`), which is the exception `ConsentIsLastDecision` names; the budget by
  `BudgetAccounted`, which adds what is past the check to what is submitted; the opt-out by `LapsedUnconsented`.
- `WebhookProofs`. `IInv`, with `ChainHoldsWaiters` (who waits is in its queue exactly once), `TriggerPending`
  and `StatusBeforeReply`, proves determinism of evidence, that no answered status is lost, and one trigger per
  reaction. `StatusCatchesUp` proves `StatusConverges` for any number of changes by WAHA and by operators: the
  row's time is that of the change whose status it has, of a call that stored it just after, or of a call that stored
  an earlier one late (`RowIsKnown`), and an answered change is not newer than the row; so once every change was
  answered, a row that shows another than the last was stored by a call since, which is what `stale` says.

The parts of `parts` are proved about in four modules. A module has a theorem for each component, about an
instance of it whose variables and constants carry its letter, for every value of those constants:
`ServerProofs` has the components of the server, `ReadProofs` those that read several sources (chats, the
message history, times of schedules, analytics), `PageProofs` the pages of the web application. `PartsProofs`
then takes the instances of the run itself: a behaviour of `MCParts` takes the steps of one part, so each
property of the run follows from the inductive invariant of its part. What the theorems assume of the
constants is one definition per component (`AccountsAssumption` and so on); TLC evaluates all of them, for the
instances of the run, as `PartsAssumption`. They say that `None` differs from the values a variable has beside
it, that ids that are compared are numbers from 1, that a group's phones are their own, and that bounds and
sizes are natural numbers, positive where the code divides by them or counts down from them; that chats, jobs,
sessions and message events are finitely many; that offsets of zones are shorter than 24 hours and, like
transitions, on full minutes. The limiter allows more than one failure and blocks for at least its window, as
its constants in the code do.

| Theorem | Property of the run | What makes it inductive |
|---|---|---|
| `AccountsHold`, `AccountsChangeByAdmins` | `AccountsInv`, `ChangesByAdmins` | the lock belongs to the bootstrap that is between its read and its commit (`UsersSound`); what was examined in the window is at most the row's count and the requests past the check (`WindowSound`) |
| `SessionsHold` | `SessionsInv`, `StatusShown` | what a request heard of WAHA is true or overtaken (`Heard`); rows and sessions at WAHA go in step with the requests between them (`Sound`); a row is behind the newest status only while an event or a request carries it (`Shown`) |
| `ClientHolds` | `ClientInv` | where a call stands says what WAHA did: a body follows a deed, a rejection its answer, and only a call that ended has an outcome (`StageSound`) |
| `ArchiveHolds` | `ArchiveInv` | what a purge counted, selected and deleted so far add up (`PurgeCounts`), unless something else changed the rows between; a job is sent once more only from a restored row (`SendsOnce`), jobs with one key are not stored together (`KeysDistinct`), and a lookup that would insert consent read the last decision, or was overtaken (`LookupsKnown`) |
| `GroupsHold` | `GroupsInv` | `MembersStay` is not inductive: who joined a stored group nobody emptied is a member (`JoinedAreMembers`), and a contact's member row is found by its phone and its own session |
| `NotificationsHold` | `NotificationsInv` | a form that read the row after the last save knows the secret (`FreshFormsKnow`); copies received agree with the step of the dialogue |
| `ChatsHold` | `ReadsInv` | a chat is asked for at most once by each of the two loops (`LidsAsked`, `NamesAsked`), a phone found is a LID's (`PhonesOfLids`), and a batch is no larger than its limit (`BatchBounded`) |
| `SentHistoryHolds` | `ReadsInv` | while none left the list, a job that stayed and was not shown yet is behind the pages read (`Pushed`); while none joined it, a job shown is before them (`Pulled`); with neither, a search pages over one set of hits (`Searched`); with nothing changed at all, statements are of one state (`Agreeing`) |
| `ScheduleTimeHolds` | `ReadsInv` | the answer a request carries is right for the fields it was made of (`RequestSound`) |
| `AnalyticsHolds` | `ReadsInv` | at any time whatever the jobs tell of attempts there is (`Covered`) and no attempt exceeds its job (`Bounded`); the table read first keeps the one or the other relation to a table that has only grown since (`Compared`) |
| `DashboardHolds` | `DashboardInv` | a call under way carries the scope, the window and the token it was made with (`RequestsSound`), one call has a slot's token (`OneTokenCall`), nothing is shown before the user is known (`Booting`) |
| `RecipientHolds` | `RecipientInv` | the page knows a contact only by an answer about the number it was asked for (`Known`, `ReadSound`), what is pending has one call (`ChangeSound`, `Single`) |
| `HistoryViewHolds` | `HistoryViewInv` | a page or a detail under way is the one asked for last (`ListsSound`, `DetailsSound`), what is deleted was confirmed in its own dialog (`Confirmed`, `OfSelected`) |
| `ChatDirectoryHolds` | `PagesInv` | a list under way is of the chosen session (`ListSound`), an attempt of the ladder is its only call or timer (`LadderSound`), what is warmed and what waits to be are apart (`WarmingSound`, `QueueSound`) |
| `SessionPageHolds` | `PagesInv` | the id linked last only grows, so a panel links each session once (`LinksSound`, `StartsSound`), a run belongs to an id its panel linked (`RunsSound`) |
| `UserAccessHolds` | `PagesInv` | late lists come first (`LateFirst`), so the last list that is not late was asked for after every change the page knows of (`YoungestTrue`, `ShownTrue`); by pointer a menu is open only while nothing else is (`ByPointer`) |

The last column names the definitions of the proof modules; each inductive invariant was first checked by TLC
as an invariant of its component. `PageShown` (a page of the table is not empty) needs that a finite set of
numbers has an element of every rank below its size (`OfEveryRank`): the least number that has more elements at or
below it is that element, and that a set of numbers has a least element is the library's well-foundedness of `<`.

`ReadsInv` has more to it than the steps of its state machines.

- Ranks. Pages of a set, each at its offset, follow each other without gap or overlap (`PagesInTurn`), a page
  with fewer rows than its size ends the set (`RowsCount`), what is above a row of the newest is among the newest
  (`RowsClosed`). So when none left the list, pages cover what stayed, and when none joined it they are disjoint.
- Times. Only two instants can show a wall clock (`ShownByOne`), the two tries find the earlier one
  (`EarliestProbed`) and miss only what `Overlooked` says (`NothingProbed`); cutting to the minute and reading again
  never delays (`CutAndReadAgain`).
- Sums. `SumIs`: a function on subsets that starts at 0 and grows by the value of whatever element is added is the
  sum the library's fold computes. With it every figure is the size of a set of rows (`FiguresAre`): attempts taken
  by state, jobs ended by state, pairs of a job and the number of a repeated attempt. Figures of adjacent windows
  then add up because the sets are apart (`WindowsMeet`), jobs and attempts agree because each row of one table
  names a row of the other, and the uptime is the number of units the session was active, for each such unit
  belongs to one status (`TimeActive`).
- Replacement. `ReplacedIs`: the label a mention ends with is that of the first LID mentioned that is known and
  equals it or begins it, and its own digits when there is none.

The last two are statements about recursive functions over all finite inputs. The library's induction theorems
cannot be used for them, but well-foundedness can: the set of sizes, or of positions, at which the statement fails
has a least element (`LeastOf`), and at the least one the equation of the recursive function contradicts it.

What attempts at these proofs found wrong in earlier versions of the models, each since corrected after the
source: ids of users and rows are random, so a creation may get any free one (`Accounts!AdminStart`,
`Sessions!CreateRow`), not the next; an update of a row by a request that was overtaken is noted as such
(`Sessions!UpdateRow`); `StatusShown` had two hypotheses it does not need; `TypeOK` of the dashboard left out the
kinds of what is shown. Pages of a listing became sets chosen by rank (`HistoryView`, `UserAccess`,
`SentHistory`), which is what `slice` and `LIMIT`/`OFFSET` do to a sorted list without repetitions, and rows of
analytics and batches of lookups became sets for the same reason.

Only model-checked: `OverdueLeavesQueue`, `AttemptsEnd` and `DeliveriesAnswered`. They are liveness properties under
weak fairness, whose proofs need ENABLED, which is beyond the prover.

## 7. Disagreements with the documentation

Each has a run that TLC must find violated; `PROJECT.json` quotes the documents.

- `scheduler_late`: a missed job may be sent late; the claim has no lower bound on the time and an
  immediate send, or a slow tick, claims between two recoveries.
- `scheduler_edit`: an edit to an earlier time does not take effect; `next_attempt_at` stays behind.
- `webhook_early`: an ack that overtakes the dispatch's own settling is stored, answered and never applied.
- `campaign_race`: a campaign cancelled before its job id is attached is sent.
- `messaging_answers`: an immediate send may answer `submitted` for a message that is still queued, because it
  dispatches whichever job is due first and answers with that one's outcome.
- `messaging_budget`: the gate counts before anything is settled, so overlapping dispatches exceed the budget.

Met while modelling, without a run of their own:

- a message WAHA took is recorded `failed` when the answer is malformed or an HTTP error
  (`scheduler/waha.ts:18`); `StateMatchesProvider` therefore claims nothing of `failed`;
- a campaign whose job is missed or recovered stays `scheduled`: nothing writes recovery states to
  `campaigns`, though CONTEXT.md:107-110 calls them visible;
- CONTEXT.md:70 subjects follow-ups to consent and safety gates, but their key starts with `campaign:`, which
  the gate lets pass and the campaign transport serves, to a chat named as a group (`campaigns.ts:309`);
- a reaction is stored before its trigger runs, so a failed trigger is not retried by WAHA's redelivery, which
  is a duplicate (`waha/webhook.ts:326-352`);
- an operator's start or stop stores its status with the time of storing (`waha/sessions.ts:554`), so a status
  event that happened before that is refused even if it is newer than the call: the row shows the older status until
  the next change, which `StatusConverges` (`stale`) and `StatusShown` (`overtaken`) name;
- a request reads the contact (`messaging.ts:79`) and saves it two calls to WAHA later; when retention purged the row
  between, `contacts.save` (`db/repositories/messaging.ts:103-121`) inserts the consent it read, so a consent
  withdrawn before the purge is back (`overtaken` in `Messaging` and `Archive`);
- disabling a user leaves its session grants in place, while README.md:37-39 says prior grants stay revoked;
- deleting or purging a submitted job lowers the day's count of submitted jobs and frees its idempotency key, so the
  same request is sent again.

Met while modelling the parts of the server:

- `parseLocalWallClock` (`wall-clock.ts:132-138`) refuses wall clocks that exist. Its comment says "Probe 24h
  behind the wall clock so both offsets adjacent to a DST transition are observed", but west of UTC both probes
  fall before a transition whose zone shows it later: in New York 03:00 to 06:59 of the day clocks go forward,
  and 02:00 to 05:59 of the day they go back, are answered `nonexistent_local_time`. `RefusedOnlySkipped` names
  the case (`Overlooked`);
- a purge of messages ignores the state of a job: one that waits for WAHA is deleted as any other; a restore
  into a fresh deployment, whose seeded connection or user has other ids, fails by a reference and rolls back;
- a failed login after its window ended starts a new row, blocked or not; a login checked before a failure is
  recorded is examined, so the limit is exceeded by what overlaps; session grants are revoked by no route;
- an SMTP server's answer to the body is awaited and not looked at; a QUIT that fails, a later chat that fails, or
  an audit row that throws inside the `try` may have every copy sent again;
- `addMember` takes a contact of any session of the scope (`contact-groups.ts:127-134`), but `hasMember` asks for one
  of the session the reaction came in at (line 51): a member of another session never triggers a follow-up there;
- deleting a group that a campaign uses removes its members and then fails by the campaign's reference; the
  dialog says "Campaigns using this group will keep their reference but the group will no longer be selectable"
  (web: `components/campaign-group-picker.tsx:480`);
- session rows: `session_messaging_safety` refers to a session without cascade and `sessions.remove` does not
  delete it; `update` writes the status without a time before it saves one with a time; two rows may have the
  name of one session at WAHA, and only one of them hears its events; a disabled connection still serves calls;
- the client takes WAHA's body for an operation without one as malformed, though the deed was done;
- a mention whose LID begins another's digits is replaced inside the other;
- a search of the history covers the newest rows only, and its total and "more" are of those;
- the webhook encrypts the whole body it received (`waha/webhook-http.ts:99`), envelope and payload, and what
  reads it back expects the payload alone: `analytics/projection-metrics.ts:57-64` and `analytics/runtime.ts:187`
  look for `id`, `fromMe` and `status` at the top, and so does the session service's history
  (`app-session-service.ts:101`). So a message's identity is its envelope's id and never meets the attempt that
  sent it, its direction is unknown, each message event counts as unknown and hides the failure rate, the status
  history is empty and the uptime 0. The tests store or pass bare payloads, for instance "the acknowledged state
  follows the message identity, not the envelope identity" (`tests/task-13-analytics-projection.test.ts`);
  `Analytics` models what is stored;
- a send that failed has no provider id, so analytics count it neither as failed nor as unknown: the failure rate
  is of the messages WAHA took and refused later (`RateOfTheTaken`), and the jobs' outcome `acknowledged` stays 0,
  for an ack tells only the attempt.

And of the web application, each a disjunct of the invariant that allows it:

- saving the dialog of a schedule untouched cuts the seconds, and moves the second showing of a repeated wall
  clock an hour earlier; what is typed while a save is under way is lost when its answer fills the form;
- send, schedule, preview, purge, session actions and saves have no check that the scope is still the one they
  were begun in; "Purge completed" may be shown in another scope; a category chosen after the preview is refused
  by the server;
- a dialog stays loading when its page failed; "Resolving..." stays beside the error of a lookup; a consent
  change whose answer is lost leaves the old consent on the page; each submission has a fresh idempotency key,
  so a text sent again after a lost answer goes out twice;
- an answer to Try again may be another chat's;
- a panel keeps what it shows (QR, pairing, live status) when another session is chosen; leaving the page and
  coming back, or losing the list for a moment, starts the linked session again without a click; a confirmation
  stays checked when the selection falls to another session;
- lists of users that are answered out of order are shown in that order; a grant does not read the list again; a
  change's error is shown in a later modal of its kind, for whichever user; the page says that grants and sessions
  stay revoked after disabling (web: `components/user-access-page.tsx:363`,
  `components/user-access-modals.tsx:314`), and `disableUser` (`auth/service.ts:203`) does not touch grants.

## 8. What is not modelled

`PROJECT.json` lists every component with its reason. AI approval computes and changes nothing.
The media of messages and the plain listings read once and keep nothing. Of analytics, contacts, safety events,
failure codes and the volume by method are counted row by row and left out. Encryption, HTTP parsing, schemas of
bodies, URL policy and logging are outside the models, which start from requests that passed them; the
authorisation of callers is modelled in `Accounts`, `Sessions`, `ContactGroups` and `SentHistory` only. Audit
rows are state of no model: what matters is that writing one can throw. Quiet hours, cooldown, timelock and
capping are refusals that may come at any time. Of the web application the campaign page, which the router
does not reach, the overview, the forms without state of their own, layout and wording are left out. Several
API processes are covered as far as leases and rows go (any lease owner may claim); the in-memory maps of the
webhook and the previews of a purge are those of one process.
