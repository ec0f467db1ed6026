# A TLA+ model of the WhatsApp API service

The service sends WhatsApp messages through Meta's Cloud API, runs bulk
campaigns and takes Meta's webhooks. It is a FastAPI application with
SQLAlchemy sessions on Postgres, Celery workers and a rate limiter on Redis.
This directory models the parts of it that keep state, checks them with TLC on
small instances, and proves their safety properties with TLAPS for all
instances. Source paths below are relative to the repository's `src/`
directory.

## 1. The system

| Part | State | Operations | Who touches it concurrently |
| --- | --- | --- | --- |
| Send API (`services/message_service.py`, `api/v1/whatsapp.py`) | rows of `messages` | `send_text`, `send_template` | all requests, webhook handlers |
| Meta client (`services/whatsapp_client.py`, `utils/retry.py`) | POSTs in flight | `_request` with `with_retry`, `_raise_for_status` | Meta, which may accept late |
| Authentication (`auth.py`, `api/v1/admin.py`) | rows of `api_keys`, their row locks | `authenticate`, `revoke_api_key` | requests of one client |
| Tenants (`services/tenant_service.py`, `api/v1/tenants.py`, `scripts/seed_data.py`) | slug, usage counter, limit, token, `deleted_at` | `resolve`, `assert_quota`, `increment_usage`, `soft_delete`, `create`, `update`, the seed script | every send, every task, the operators |
| Webhooks (`api/v1/webhooks.py`, `services/webhook_service.py`) | `webhook_events`, status and time stamps of `messages`, inbound rows | `receive_webhook`, `process_event` | repeated posts, sends, tasks |
| Campaigns (`services/campaign_service.py`) | `campaigns`, `campaign_recipients` | create, upload, start, pause, resume, cancel | tasks, webhook handlers |
| Workers (`tasks/*.py`, `celery_app.py`) | Celery's queue | `process_campaign`, `send_recipient` | several workers, redelivery |
| Rate limiter (`services/rate_limiter.py`) | Redis counters with a time to live | `acquire`, `reset_recipient` | all senders |
| Templates (`services/template_service.py`) | `templates` | `sync_from_meta`, template webhooks | syncs, webhook handlers, campaign creation |
| Listings (`utils/pagination.py`, `list_recipients`) | none of their own | a count and a select per page | everything that writes rows |
| Sessions (`database.py`) | a transaction and an identity map per request or task | commit, rollback | |

How they interact: an API request authenticates (locking its key's row),
resolves the tenant, asks the rate limiter, posts to Meta and commits one row
and one counter. A campaign's tasks do the same for a recipient and update the
campaign too. Meta's reports come back as webhooks, change the message, and
through it the recipient and the campaign.

What is hard about it:

* A session reads a row once, works on that copy and writes the changed
  columns later, after an `await` on Meta. Every counter is a read, a pause and
  a write (`autoflush=False`, READ COMMITTED, no `FOR UPDATE`).
* Where two sessions write one row, the first flush locks it to the end of the
  transaction, calls to Meta included.
* A POST is not idempotent, it is retried when its answer is lost, and Meta may
  accept what the client gave up on.
* Webhooks are repeated, reordered and handled in parallel. Celery delivers a
  task again when its worker is lost.
* INCR and EXPIRE are two commands, and either may fail.
* Tasks lock a recipient and then its campaign, webhook handlers a campaign and
  then the recipient.
* Lists are read in several requests, from Meta and by our clients, while they
  change.

What makes the parts correct is stated in section 3; the hazards, each at its
line and with the properties that watch it, are in `PROJECT.json`.

## 2. The modules

| Module | Models | Module composition |
| --- | --- | --- |
| `OutboundLedger` | what the send path promises: accepted and recorded messages | abstract specification |
| `MessageSend` | an API send with authentication, quota, client, retries | implements `OutboundLedger` |
| `DeliveryStatus` | webhook ingestion: events, inbound messages, status updates | |
| `Campaign` | uploads, life cycle, dispatch, tasks, roll-up of reports, row locks | |
| `TemplateCache` | template syncs, template webhooks, the check of campaign creation | gives `Campaign.Create` its approved template |
| `TenantDirectory` | the tenants table: slugs, limits, charges, deletions, tokens | charged by what `MessageSend` and `Campaign` commit |
| `PagedList` | paginated listings under change | |
| `RateLimiter` | `acquire` on Redis | its two answers are an input of the others |
| `MC*` | constants for TLC | extend the above |
| `MessageSend_proofs`, `DeliveryStatus_proofs`, `TenantDirectory_proofs`, `Campaign_proofs`, `TemplateCache_proofs`, `PagedList_proofs`, `RateLimiter_proofs` | theorems | extend the above |

Definitions with names such as `OpLoadUnchecked` next to `OpLoad` are faulty
variants of the definition that follows them. They are used in no
specification; substituting one for the original must make TLC report the
property that watches it, which shows that the property can fail.

### MessageSend

One session per request. `pc[r]` is how far the coroutine has come:
`idle`, `checked` (the key was read and is valid), `authenticated`
(`last_used_at` flushed, the key's row locked), `resolved` (tenant read, quota
passed), `posting`, `answered`, `committed` and the final ones: `sent` is the 201,
`refused` any error before the POST, `failed` one after it, `aborted` no answer. `snap[r]` is the usage
counter in the session's Tenant object, which `increment_usage` adds to.
`wire` and `accepted` are Meta's side: a POST that left the client is on the
wire until Meta accepts or refuses it, which may be after the client's timeout.
`rows` are committed rows only, for nothing else outlives a request: `Commit`
is the endpoint's `session.commit()`, which also releases the key's row, and
every other end is the rollback of `get_session`, the one after `record.status =
failed` included. `Respond` is the 201, a step of its own: a worker, a
connection or the commit's acknowledgement lost before it leaves a row without an
answer (`Commit` followed by `Abort`).

Taken as given: `resolve` reads the tenant from the database. The session did
load it before, with the API key, but the session's identity map is weak and
`AuthContext` keeps strings only, so the object is gone by then. The limit does
not change here; `TenantDirectory` has the changes of the limit. `Ledger` is the
instance of `OutboundLedger` with `accepted` for what was taken and `rows` for
what was recorded.

### DeliveryStatus

A post of a payload is a pair of payload and number. A payload is the list of
what `process_event` meets, in order: a change of field `messages` with the
number of tenants its phone number id gives, its inbound messages and whether
their values fit the columns, and then each of its statuses. `Receive` is Meta's
post and the signature check; `StoreEvent` is `store_raw_event`; `HandleChange`
is `_tenant_for_value`, which raises if there are two tenants
(`scalar_one_or_none`), with the inbound messages; `ApplyItem` is
`_apply_status_update` for one status, which raises if the time stamp is no
number. An item that raises ends the handling of the payload: `Saved` has the
inbound rows of the changes before it, those of later changes are never reached,
and the event is committed with the error. `LookUp` is what the look-up of a
tenant does to the session: it loads the tenant's messages (`lazy="selectin"`),
but rows the session changed stay as they are and others may or may not be in
its weak identity map still.

`Commit` is the flush at the end of `process_event` with the commit of the
endpoint, `DbFailure` a flush that fails, with which the event row is gone: for
a connection that is lost, which is not so at every post, or because a value
does not fit (`Unfit`), which is. `base` and `cur` are the session's rows as loaded and as
changed; `Flush` writes the difference. A time stamp column is modelled by
whether it is set. The row of a message may appear after Meta has reported on it
(`SendCommits`). The several queries of one selectin load count as one instant.
`found`, the statuses whose message was found, is for the property only.

### Campaign

`UploadLoad`/`UploadCommit`, `OpLoad`/`OpCommit` and
`ReportLoad`/`ReportCommit` are the read and the write of a session; `op[o]`
keeps the status an operation has read. A task is a pair of recipient and
dispatch; an execution is a task and the number of its run. `Load` is the
status check, `LockRecipient` the flush of `sending`, which waits for the row,
`Post` everything up to the POST, `RetryPost` the POSTs that `with_retry`
repeats although Meta took them, then `CommitSent`, `Refused` and
`CommitFailed` (recorded), `RateLimited` (rollback, Celery retries), `Raised`
(rollback, no retry), `Ack` (Celery acknowledges the message late, when the function
has `returned` or `raised` and all is over: `done` or `dead`) and `Crash` (a worker lost before that, after the commit included:
rollback of what is not committed, redelivery). A rate limit is our limiter's or
Meta's; `_raise_for_status` looks at the code before the class of the status, so
it may be a 5xx, after which nobody knows whether Meta took the message
(`TakenAfterAll`). Such executions, those with a timeout and those with an
exhausted `with_retry` are `doubtful`. A retry is published and the old message
acknowledged in one step here; a worker lost between the two leaves two copies of
the task, which behave as tasks of two dispatches do. `rec` has
the committed statuses of the recipients; `sending` is only ever flushed inside a
task's transaction and is the task's phase instead.

Locks: a task has its recipient's row from `LockRecipient` to its end and needs
the campaign's row to commit. A handler's flush goes by the tables' foreign
keys, the campaign first: `ReportFlush` takes its row if a column of it
changed, `ReportCommit` waits for the recipient's. `WaitCycle` is the state in
which each waits for the other; Postgres then aborts the handler
(`ReportAborted`: 500, and Meta posts again) or the task (`Raised` with
`DBAPIError`). A handler that holds the campaign's row keeps uploads, life cycle
operations and other tasks waiting. The tenant's row, which tasks update just
before the campaign's, only makes such a cycle longer and is left out.

`start()` always answers 409 in this build, so `WorkerStackStart` stands for the
worker stack that message names; it is external and takes the conditions
`start()` checks. `ReportLoad` is when the handler's session reads campaign and
recipient, with the message or before it, as collections of the tenant;
`ReportDropped` a report whose message is not committed. Each report is handled
once here, unless its handler was aborted; repeated ones are in
`DeliveryStatus`.

### TemplateCache

`meta` is the list at Meta, `rows` our table. A sync goes `SyncStart` (the
tenant is loaded and, by `lazy="selectin"`, its templates), `GetPage` until
there is no next page, `ListForTenant` (rows the session has are not read
again), `SyncCommit`. When a template changes at Meta while a sync reads, the pages
move (`moved`), and from then on any templates may be on a page (`Listings`):
some are missed, some come twice (`twice`) and are then inserted twice, which
the unique constraint refuses. `Written` is the net change a flush makes: a status that
equals the stale copy is not written. Two syncs that insert one template meet
at `uq_templates_tenant_name_lang`; the second is rolled back as a whole. A
notification is loaded and committed in two steps, may be posted again, and is
without effect if there is no row. Statuses that `TemplateStatus` does not know
(`IN_APPEAL` in the run) become pending in a sync and are ignored in a webhook.
`past`, the statuses a template ever had at Meta, is for the property only.

### TenantDirectory

A tenant is named by the request that creates it. Every request loads
(`CreateCheck`, `SeedCheck`, `Load`) and commits (`Insert`, `Commit`) in
separate steps, and `Flush` writes the changed columns only. A token is its
text and the layers of encryption around it; `Decrypt` returns what it cannot
open unchanged, as the code does. `Redeploy` changes `ENCRYPTION_KEY`. `highest`
(the highest limit a tenant has had) and `bulk` (its campaign messages) are for
`QuotaBound` only.

### PagedList

A client asks for page 1, 2, ... up to the number of pages in the last answer.
`Count` and `Select` are the two statements of a request. Rows join the list by
an insert or a change of status and leave it by a change of status, any number of
times, as a later report may take a status back.
`Selections` are all answers `ORDER BY created_at` allows; rows of one upload
are equal in it, as `now()` is the time of the transaction, and such ties are
excluded from the property: the database may return them in any order on each
page. `due` (the rows that matched all the time), `departed` (how often a row
left) and `raced` (how often one joined between a count and its select) are for
the property only.

### RateLimiter

Each Redis command is a step. `Tick` passes time and expires keys. `recent[b][n]`
is the number of approvals of bucket `b` since the n-th tick before now, for the
properties only. Sends let through because Redis failed are not counted as
approvals. A worker lost between two commands has the effect of `RedisError` on
the keys.

## 3. The runs

Passing runs, all with TLC's breadth-first search to the end:

| Run | Bounds | Shows |
| --- | --- | --- |
| `send` | 3 requests, two with one client key and the admin's; limit 1; 2 attempts; one error of each class | the counter exceeds neither rows nor limit (`UsageSound`); as long as all rows are of one client key it is exact, although it is written from a stale copy (`SoleKeyExact`); an answer tells the client whether there is a row (`AnswerTellsRow`); no POST is later than the recorded one; every behaviour implements the ledger (`RefinesLedger`); after its key is revoked a new request never sends; every request that is let in ends |
| `webhook` | one message, two inbound; a payload of two changes with an unreadable item between them, a payload whose first change is of no tenant of ours, each posted twice; failing commits | no stamp is ever lost (`EffectsKept`); a status has its stamp; when Meta was told so, inbound messages are stored, but for those behind an item that raised, and then the event says so (`InboundKept`); an event marked processed has been applied (`ProcessedMeansApplied`); a payload whose values fit is stored in the end (`EventuallyStored`) |
| `campaign` | two recipients, two uploads that overlap, failure reports, pause, cancel; the swap of recipients and uploads is a symmetry | lost updates only ever make counters too small; what is shown as sent was sent; an ended campaign is changed only by those who read it before (`EndedLeftByStaleOnly`) |
| `campaign_redelivery` | one recipient, two dispatches, one retry, one lost worker, one report | a task records its message once at most (`RecordedOnce`); it makes Meta take it again only after a lost worker or a POST in doubt (`DuplicatesNeedCrashes`); a deadlock needs a duplicate task (`WaitCycleNeedsDuplicate`); a task that starts after a message of its recipient was committed does not send (`SkipsWhatWasSent`); tasks end, and leave the recipient queued only if they raised (`TasksEnd`) |
| `templates` | two templates on two pages, two syncs, a change at Meta whose notification is posted twice, one known and one unknown status | no campaign for a template that was never approved; a sync that answered is complete; the cache heals once Meta rests and syncs succeed (`SyncsConverge`) |
| `tenants` | the seed script, a creation with its slug, two PATCHes, a deletion, a send, a task, one key | slugs are unique, the counter stays within the highest limit plus the campaign messages, limits and deletions stand, tokens are readable until a key is lost |
| `pages` | six rows with one tie, pages of two, three departures | a complete reading misses at most one row for each time one left the filter and each time one joined between the last count and its select |
| `limiter` | two callers, two buckets, faults and resets | at most twice the maximum per window, plus one maximum per reset; a full bucket empties unless a command failed |

The bounds are enough for the cases that matter: two sessions that overlap and
a third that comes after them, one retry and its exhaustion, one repetition of
each message, a limit that two requests compete for, a change at Meta before or
after a sync has read its page. Counters, retries, posts, crashes,
resets and changes are bounded by named constants in the guards. A tenant's key
is lost once at most. Payloads that are not signed, whose values do not fit or
whose phone number is that of two tenants are in the specification and in the
theorems, not in the `webhook` run. Deadlock is not checked because all requests,
tasks and posts may be over.

Runs that must fail document where the code and its own words differ. Each
checks one property that restates a line of the repository:

| Run | The line | What the code does |
| --- | --- | --- |
| `webhook_latest` | "Latest status by Meta wamid" (`api/v1/whatsapp.py`) | the last report handled wins; one that is early is dropped |
| `campaign_completed` | "Mark complete if everyone is done" (`webhook_service.py`) | delivered and read of one recipient both count |
| `campaign_cancelled` | "no further sends will happen" (`api/v1/campaigns.py`) | queued tasks still send |
| `limiter_leak` | "Fails open" (`rate_limiter.py`) | an EXPIRE that fails leaves a key that refuses for ever |

Observations made while modelling, without a run of their own:

* A message Meta took may have no row (its request failed or repeated the POST).
* A payload posted again inserts its inbound messages again (nothing looks for
  the wamid, and it is not unique), and lookups by that wamid
  (`scalar_one_or_none`) then raise.
* When the flush at the end of `process_event` fails, the commit fails too and the
  event row is gone; for a value that does not fit its column this is so at every
  post, though the comment in `receive_webhook` says that the row stays persisted
  with the failure recorded.
* An item that raises costs the payload all that comes after it, the inbound
  messages of later changes included. Meta gets a 200, and nothing handles the
  event again.
* Two tasks of one recipient that have both loaded it before either commits both
  send: the second waits for the row and does not look again.
* The counters are written from stale copies. What is checked and proved about
  them (`UsageSound`, `SentCountSound`, `TotalSound`, `QuotaBound`) is that they
  are never too large; that they may be too small, and that requests of several
  keys may together pass the limit by their rows, is how the code is.
* `messages_sent_this_month` is only ever added to: no code starts a new month.
* A 401 of Meta leaves a recipient queued without a task.
* A pause that overlaps with a cancellation can leave the campaign paused, and
  it can be started again.
* A sync that overlaps with a webhook can leave the older status, or write
  nothing where its stale copy shows no difference; the next one repairs it.
* `scripts/seed_data.py` takes a deleted default tenant for an existing one and
  skips, while `get_default` does not find it; creating it again by the API
  fails at the unique index.
* The limiter approves up to twice its maximum around an expiry.

Fairness. `MessageSend`: a request in the server goes on, because every POST
has a timeout, retries are counted and Postgres grants a free row lock; nothing
obliges a client to send a request, Meta to accept one or an operator to act.
`DeliveryStatus`: a handler goes on, a 200 reaches Meta in the end, and Meta
posts again after a 500 (the comment in `receive_webhook` relies on it); the
last post's commit fails only if the payload is the cause, which bounds how often
the database itself does.
`Campaign`: Celery runs what is queued, a POST ends (the client has a timeout),
Postgres grants a row lock that becomes free again and again (strong fairness:
its lock queue is first come first served) and breaks wait cycles; that an
execution fails is possible at every step and never relied on.
`TemplateCache`: a request in the server is served; nothing obliges anybody to
sync, so `SyncsConverge` has successful syncs as its hypothesis.
`RateLimiter`: time passes, and a coroutine inside `acquire` goes on.

## 4. The proofs

`tlapm` checks the proof modules for every value of the constants under the
named assumptions of the specifications. They say what the constants are and no
more; what they exclude besides wrong types:

| Module | Assumptions | What they exclude |
| --- | --- | --- |
| `MessageSend` | `KeyAssumption`, `LimitAssumption`, `AttemptsAssumption`, `AnswerAssumption` | a client key that is the admin's; no attempt at all; answers outside 400 to 599 |
| `DeliveryStatus` | `PostsAssumption`, `PayloadAssumption` | a payload with an inferred tenant whose change has none (the code falls back to it) |
| `TenantDirectory` | `JobAssumption`, `KeyAssumption` | limits and slugs the request schemas refuse; a key that is the value for "not set" |
| `Campaign` | `BatchAssumption`, `OpsAssumption`, `BoundAssumption` | a row inserted by two uploads (each row of a file is a new recipient), an infinite file |
| `TemplateCache` | `PageAssumption`, `BoundAssumption` | a list without a page |
| `PagedList` | `OrderAssumption`, `RequestAssumption`, `BoundAssumption` | an infinite table |
| `RateLimiter` | `BucketAssumption`, `CapacityAssumption`, `WindowAssumption`, `FaultAssumption` | a bucket without capacity or without a window |

The bounds on retries, posts, crashes, dispatches, departures, changes and resets are
arbitrary naturals in the proofs. Each proof module defines an inductive
invariant `IInv` (or several), shows that `Init` implies it and that each action
keeps it, one lemma per action or per group of actions with the same effect, and
derives the properties from it.

`MessageSend_proofs`. `UsageSound` is not inductive: it needs that a session
past `assert_quota` holds a counter below the limit and not above the number of
rows (`CounterInv`), which survives the commits of others because rows only
grow. `SoleKeyExact` needs more: while all rows are of one key, the copies that
its sessions hold are not stale (`ExactInv`), which holds because the key's row
lock lets only one of them be past `authenticate` and not yet committed
(`KeySerialised`, here a step of the argument) and the commit of a request with
another key ends the hypothesis. `AnswerTellsRow` needs that a row is that of
the request's current attempt, accepted, and only of requests that got as far as
their commit (`RowInv`, `SentInv`), hence that an answer is read only for an
accepted POST (`AnsweredInv`). `NoLaterAttempt` and the refinement need that no
POST is beyond the current attempt (`AttemptInv`). `IInv` is their conjunction
with `TypeOK` and the finiteness of `rows`. From it follow
`TypeCorrect`, `UsageIsSound`, `SoleKeysAreExact`, `AnswersTellRows`,
`RecordedIsLast` and, step by step, `SendRefinesLedger`: `MetaAccepts` is an
`Accept`, `Commit` a `Record`, all else a stutter. `RevokedKeysNeverSend` has an
invariant of its own for each request: from the moment an idle request's key is
revoked, it is `Outside`, with nothing on the wire or accepted, and no step of
its own or of another request lets it in.

`DeliveryStatus_proofs`. A stamp stays because `Flush` only adds stamps. That a
status has its stamp after a flush of a stale copy needs that the copy's status
has one and that the stamps a session started from are still in the row
(`CopyInv`). `InboundKept` needs that an acknowledged payload was answered by a
handler that committed (`AckInv`), with the inbound rows of all changes before its
place, and that this place is the end of the payload or an item that raised,
which is no change of ours (`HandlerInv`). `ProcessedMeansApplied` needs that
each status whose message was found could be read, and that its stamp is in the
row or in a changed copy that the handler will flush (`FoundInv`); a look-up
of another tenant in between keeps the changed copies (`LookUpCopies`). The steps
of a handler before its commit differ only in where they leave the session, and
one lemma (`HandlerStep`) covers them. Theorems:
`TypeCorrect`, `StatusesAreStamped`, `EffectsAreKept`, `InboundIsKept`,
`ProcessedIsApplied`.

`TenantDirectory_proofs`. `UniqueSlug` holds by the index, but only because no
flush changes a slug, makes a row or unmakes one; for that a session past its
load must work on a tenant that exists (`PhaseInv`), and a row must exist only
once the request that creates it is over (`ExistInv`). `QuotaBound` is not
inductive: the commit of a send writes a counter it loaded before other commits,
and needs that what it loaded is below its limit, and that limit and counter are
covered by the history as it has grown since (`QuotaInv`). `IInv` is the
conjunction with `TypeOK`. `ChangedFields` and `CommitFields` say what a commit
can do to a row, and `DeletionsStand` and `LimitsStand` follow from them step by
step. `TokensReadable` needs that, until a key is lost, a token is in clear or
under today's key, and that a request still running from an earlier deployment
found either today's key or none there (`KeyInv`). Further theorems:
`TypeCorrect`, `SlugsAreUnique`, `QuotaIsBounded`, `TokensAreReadable`.

`Campaign_proofs`. The counters are written from copies, so each needs a bound
on the copies: a task's `sent` and an upload's `total` are at most the messages
and recipients committed by now, and both sets only grow (`SentInv`,
`PresentInv`). That a committed total is still covered after the upload that
read it also needs that its own recipients are new, which is that recipients
come from uploads that are over and no two uploads share a row.
`TypeOK` itself is not inductive: that an execution's number stays within its
set needs that every execution but the present one was ended by a retry of the
task or by a lost worker (`ExecInv`). `DuplicatesNeedCrashes` needs to know which
phases have a message that was surely taken: the executions with one number at
most the crashes, and one more while the task has an answer or when it is over
(`ClearInv`), because every other way back to the queue (`RateLimited`) is from
an execution whose POST was refused, never made or in doubt. `RecordedOnce`,
`SkipsWhatWasSent` and `WaitCycleNeedsDuplicate` need that a task whose message is
committed runs no more, redelivered after a lost acknowledgement or not, because
the message is visible at its recipient in every status reports may give it
(`SentInv`).
`EndedLeftByStaleOnly` needs that pause and cancel never hold a final status
(`OpInv`). Theorems: `TypeCorrect`, `SentCountIsSound`, `TotalIsSound`,
`OutcomesAreBacked`, `RecordsOnce`, `DuplicatesAreBounded`,
`WaitCyclesNeedDuplicates`, `SkipsSent`, `EndedIsLeftByStaleOnly`.

`TemplateCache_proofs`. `CampaignWasApproved` goes back through every place an
old status can wait: what Meta shows, what a notification carries and what a
sync has read was true at Meta some time (`PastInv`), and only `APPROVED`
becomes approved on either way into the cache (lemma `StatusMaps`), hence
`ApprovedInv`. `SyncIsComplete` needs that a row a session has seen is still
there when it does not write it (`SeenInv`). Theorems: `TypeCorrect`,
`CampaignsWereApproved`, `SyncsAreComplete`.

`PagedList_proofs`. The rows a reading can still miss are those it was not given
and whose rank (the number of listed rows strictly before them) is below the
offset. No row gets there by a join, which only raises ranks, nor by a select,
which returns every row of unique `created_at` whose rank is on the page
(`SelectReturns`); a row that leaves lowers ranks by one, and as ranks of
rows with a `created_at` of their own differ (`RanksDiffer`), it pushes at most
one row over the offset (`SkippedInv`), each time it leaves. At the last page the offset covers the
count, and the list has outgrown the count by the rows that raced with the select
(`CountInv`), so the rows left beyond it are no more than those (`LateRows`).
Theorems: `TypeCorrect`, `ReadingsMissFewRows`. The proof showed that the bound
`TypeOK` first had for the page number was wrong for a table that never has a
row; it is now `MostPages + 1`.

`RateLimiter_proofs`. `SlidingBound` needs the present key's share of the
window: all that was approved since the key got its time to live was approved by
it (`TtlInv`), so when it expires, one window later, nothing older is left. The
rest of the window is one capacity for the key before and one for each key a
reset deleted (`WindowInv`). Theorems: `TypeCorrect`, `WindowsAreBounded`.

Only model-checked: the liveness properties `EveryRequestEnds`,
`EventuallyStored`, `TasksEnd`, `SyncsConverge` and `BackPressureEnds`, because
liveness under fairness is out of the prover's reach. The runs that must fail
are counterexamples and have nothing to prove. Every invariant and every action
property of the passing runs is a theorem.

## 5. Not modelled

* Message contents, phone number formats, the order of template variables and
  CSV parsing (a file is the set of rows it inserts): pure functions on strings.
* Single reads, and the list of templates, tenants and campaigns, which are not
  paginated.
* Calls of the client nothing uses (media, `mark_as_read`), contacts, which
  nothing writes, and `tasks/webhook_processor_task.py`, which nothing calls.
* Creating API keys: an insert nobody competes with. The template lists of a
  key are in the model by the two outcomes of the check.
* Settings other than `ENCRYPTION_KEY`, `ENABLE_MULTI_TENANT` and the default
  slug; logging, error rendering, health checks, middleware; the per-address
  limit of the HTTP layer, which is a library's.
* The connection pool and its limits, and the migrations as such.

## 6. Plan

Every safety property the runs check is proved. What is left:

1. An abstract specification of the webhook ledger (what was acknowledged and
   what is stored) that `DeliveryStatus` implements, as `OutboundLedger` is for
   the send path, with the refinement proved step by step.
2. The same for `TenantDirectory`'s counter and what `MessageSend` and
   `Campaign` charge to it.
3. The three hazards without a property (the month that never starts anew,
   inbound rows inserted again, the connection pool), which the code has no
   behaviour to state one about.
