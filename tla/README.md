# A TLA+ model of the control panel's backend

`src/` holds a license-key panel: a Flask/SQLAlchemy backend on PostgreSQL and
Redis with Celery workers, and a React frontend. Clients of resold software
*connect* with a license key; resellers and admins create keys for tokens and
manage them. This directory models the parts of the backend whose correctness
depends on the order in which concurrent requests touch shared rows, checks the
models with TLC and proves theorems about them with TLAPS.

All paths below are under `src/backend/` unless they begin with `src/`.

## 1. The system

### How it runs

`scripts/gunicorn.conf.py` starts 9 workers of 2 threads, each thread serving
one request at a time with a SQLAlchemy session of its own; a worker that takes
longer than 120 s is killed, and workers restart every 2000 requests.
Transactions are READ COMMITTED, nothing in the modelled handlers reads
`FOR UPDATE`, and `expire_on_commit` is on: an attribute is read from the row
once and then from the session until the next commit or rollback. This is the
source of most hazards: a handler decides on an **image** of a row that another
handler may have changed. Celery tasks are acknowledged late and redelivered
when a worker is lost (`core/celery_app.py:77`).

### Components

| component (main files) | state it keeps | operations | what makes it correct |
|---|---|---|---|
| Token balance (`services/balance/balance_service.py`, `routes/users/balance.py`) | `User.token_balance`, `TokenTransaction` rows | top up, deduct, transfer; charges by key and user creation | balance = initial + history; no overdraft; pay exactly for what is made |
| Key creation (`services/keys/key_crud_service.py`, `key_bulk_operations_service.py`, `routes/keys/management.py`) | `Key` rows | create one, custom, bulk | a key is durable iff its charge is; a returned key exists |
| User creation (`utils/user_creation_helper.py`) | `User`, roles, permissions | create with tokens and roles | the creator pays what the account gets |
| Seats of a key (`services/connect/device_manager.py`, `services/keys/key_validator.py`) | `Key.devices` (a list in one column), `DeviceInfo` rows, fingerprint | validate, activate, register a device | at most `max_devices` devices; list and rows agree |
| Connect protocol (`services/connect/connect_orchestrator.py`, `key_lookup_service.py`) | challenge, session, analytics, token | the pipeline of one connect request | a token only for a registered device of an active key |
| Key management (`routes/keys/*.py`, `services/keys/key_status_service.py`, `routes/keys/agent.py`) | `Key.status`, `expires_at`, `max_devices` | reset, pause, resume, extend, update, archive, delete; agents' bulk forms | the operation takes effect iff it is confirmed |
| Webhooks (`services/webhooks/`) | pending-task rows, logs | trigger, queue or store, retry | every event is queued at least once, and does not disturb the transaction it reports |
| Device update buffer (`services/connect/device_update_buffer.py`) | Redis sets and hashes | add, flush | no buffered update is lost |
| Analytics and activity buffers (`services/analytics/`) | Redis list, rows, fallback tiers | add, flush under a lock, clean up | each event is stored once |
| Background key tasks and task records (`tasks/key_tasks.py`, `services/tasks/task_service.py`) | task record in Redis, `Key` rows by batches of 50 | create, progress, finish | what the record reports is what was committed |
| Registration and invitations (`routes/auth.py`, `services/users/`, `services/projects/`) | `User`, `Project`, permissions, roles, `ProjectInviteCode` rows | register, register with a code, create, use and delete codes | a code admits one user; a refused registration leaves nothing |
| Files of a product (`services/files/`, `routes/files.py`) | `ProductFileConfig`, `ProductExtraFile` rows, files on disk, chunk marks in Redis and in `metadata.json` | upload, upload in chunks, replace, delete | a row has its file; the storage limit holds; a complete upload is accepted |
| Idempotency (`utils/idempotency.py`) | cached result per key | look up, execute, store | an operation is executed once per key |
| Sessions (`services/sessions/session_service.py`), heartbeat | rows, a Redis counter | open, end, limit | no more sessions than the limit; the counter equals the rows |
| Tier limits, counters, statistics cache | counts of rows | check, increment, recount, invalidate | limits hold; counters equal what they count |
| Authentication, RBAC, two-factor, security, cryptography, RLS | tokens, policies, keys | decide, encrypt, filter | decisions are functions of their inputs |
| Products, servers, settings, notifications, logs | configuration rows, external effects | CRUD | — |
| Frontend, example client, deployment | — | — | — |

`PROJECT.json` lists every component with its files and what is modelled of it.

### How they interact

- *Calls.* A route calls a service; services call each other in the same thread
  and share its session. So a callee's `commit()` or `rollback()` ends the
  **caller's** transaction: `trigger_webhook` does it to `create_key`
  (`services/webhooks/webhook_pending_task_service.py:65,71`), the assignment of
  permissions and roles does it to `create_user_with_roles_and_products`.
- *Shared rows.* All paying handlers share `User.token_balance`; all connects
  with a key, and everyone who manages it, share the `Key` row and its
  `DeviceInfo` rows.
- *Messages.* Routes enqueue Celery tasks; tasks write a status record the
  frontend polls; without a broker events are stored as rows and retried.
- *Buffers.* Connects add to Redis buffers that requests and scheduled tasks flush
  to rows.
- *Disk and Redis.* Uploads keep files and marks outside the transaction that
  inserts their row.

The hard behaviours are therefore: stale images and lost updates, a transaction
ended in the middle by a callee, an error after a commit, a worker killed
between two commits, row-lock order, buffers drained while they are filled,
redelivered tasks, and rows whose files change without a common transaction. `PROJECT.json` "hazards" lists them at their lines.

## 2. Modules

```
TokenLedger     what the billing promises       SeatPool       what the seats promise
     ^  implemented by                               ^  implemented by
KeyBilling      tokens and what they buy        KeySeats       connecting with one key
     ^  EXTENDS                                      ^  EXTENDS
MCKeyBilling, KeyBillingProofs                  MCKeySeats, KeySeatsProofs

KeyLifecycle    status, expiry, counters of keys        WebhookDelivery  an event on its way
WriteBehind     Redis buffers and their flushers        Registration     users, projects, codes
FileStore       rows and files of a product             (each with its MC module
                                                         and its Proofs module)

Totals          sums of numbers: rows, sizes, hits, sends;  EXTENDed by KeySeats, WriteBehind,
                WebhookDelivery and FileStore, and TotalsProofs by their Proofs modules
```

The modules cut the system along the rows it shares. A key meets three of them:
`KeyBilling` pays for it, `KeyLifecycle` has its status, expiry and counters,
`KeySeats` its devices; each leaves to the others what only they read. The
trigger of a webhook, which ends its caller's transaction, is part of
`KeyBilling`; what becomes of the event is `WebhookDelivery`.

Common to all: `req[r]` is one HTTP request, its `pc` the point up to which its
handler has come, and what its session holds is a field of it; `Threads` is how
many run at once; `MaxFaults` bounds failures, lost connections, killed
processes and, in `WriteBehind`, early expiries together. A step is what happens between two points at which another
process can be seen or be disturbed: a read of a shared row, a row lock, a
commit, a Redis command, a file operation. Variables marked *history* are read by
properties only, unless their comment says otherwise.

### KeyBilling: requests that spend or grant tokens

*State.* `balance` and `ledger` are the committed balances and the signed sum of
the committed `TokenTransaction` rows; `rowLock` says whose open transaction has
updated a User row; `req[r]` has the kind, what the client sent, and `seen`, the
balances in its session; `paid` and `goods` are what of the request is durable.
`fresh` and `clobbered` are history: which images are still the row's value, and
which rows were overwritten from one that was not. `LocksHeld`, a part of `TypeOK`,
ties each lock to a live handler that has written the row.

*Kinds.* The request kinds are the handlers: `createKey` (`create_key`),
`customKey`, `bulkCreate` (the synchronous branch), `updateKey` and `resetKey`
(their paid branches), `deduct`, `topup` (a reseller's, which transfers), `mint`
(an owner's or admin's), `createUser` and `adminCreateUser`.

*Actions.* `Authenticate` loads `current_user` (`middleware/auth.py`);
`Approve`/`Refuse` are everything up to the check of the balance, on the rows
the handler reloads (`Reloads`: `refresh(user)` before a purchase, the target of
a top-up); `FlushRow` is one UPDATE of the flush, in primary-key order as the
unit of work emits them; then the handler's way to its end:

| code | actions |
|---|---|
| `create_key` | `SignalQueued` (event queued), `SignalStored` (event stored: the caller's transaction is **committed**), `SignalNotStored` (storing failed: it is **rolled back**), then `CreateKeyCommits` or `CreateKeyReturns` |
| `bulk_create_keys` | `BulkCreateCommits`: one debit for all, some keys may not be made |
| `create_user_with_roles_and_products` | `UserSetupCommits`, `UserSetupEnds` |
| `create_custom_key`, `deduct_balance`, `topup_balance` | `HandlerCommits` |
| any exception after the flush | `HandlerFails` |
| worker killed | `Kill` |

A commit (`Commit`) writes `seen[u] + Delta` back, the absolute value computed
from the image, and only for rows the request changes. An amount of 0 touches no
row. `Answered` is nondeterministic after a commit because the handlers still
log and serialise expired objects, and answer an error when that fails.

### KeySeats: connecting with one key

*State.* `key` (limit, device list, fingerprint, active, activated), `infos`
(DeviceInfo rows per device), `req[r]` with the session's `image` of the Key row
and whether it is `loaded`; `maxLimit` and `swept` are history.

*Actions.* A connect goes `found -> bound -> live -> admitted -> listed ->
registered -> done`, in the order of `ConnectOrchestrator.process_connect_request`:
fingerprint (`BindFingerprint` commits), status (`RefuseInactive`), activation
(`Activate` commits), limit (`PassLimit`, `RefuseLimit`), `register_device`
(`ListDevice` commits the list, `InsertInfo` the row, `FindInfo` makes a missing
row good) and `IssueToken`. A commit expires the image and `Reload` reads it
again, so a request that commits early sees newer rows than one that does not.
Managers: `Reset` (single and bulk reset), `AgentReset`
(`routes/keys/agent.py:542`), `SetLimit`, `SetStatus`. `Written` models that
SQLAlchemy leaves out of the UPDATE an attribute set to its loaded value.
`Fails` is any exception or a dead worker. The rows counted by
`validate_device_limit` are `RowCount`, the `Total` of `infos`.

### KeyLifecycle: status, expiry and counters of keys

*State.* `row` are the Key rows of one project (status, owner, `expires_at` as
`expires`, and `armed`, which is `activation_started = False`), `active` the
columns `User.active_keys` and `Project.active_keys`, `now` the hour. The status is
one of the five numbers of `Key.status`: active 1, blocked 2, paused 3, archived 4,
and 0, which only the agents' form writes. `req[r]` holds the images of the keys and
of the counters that the request has loaded. `drifted`, `granted` and `usable` (the
connects whose key was usable in the database at a moment since they arrived) are
history.

*Actions.* `Arrive` loads the keys a request names. The status routes
(`pause`, `archive`, `resume`, `block`, single, bulk and by product) flush the new status,
which locks the row (`FlushStatus`), compute the counters from the images
(`Count`) and commit (`CommitStatus`); the agents' forms commit the status alone
(`AgentCommits`) and then, in a second transaction, recount the active keys of the
owners (`Recount`, `CommitRecount`). `CreateKey`, `MoveKey`, `DeleteKey` and
`ResetKey` leave the counters alone. `Extend` and
`UpdateDuration` write an expiry computed from the image. A connect checks the
key (`Refuse`, `Admit`) and activates it (`Activate`, which computes the expiry from
the duration alone) or goes on (`Proceed`). The commit of the activation, and that of
the device after it, expires the image: the row is loaded again (`Reload`), with what
others have committed meanwhile, before the token gets its expiry (`Serve`); nothing
checks the status again. `Tick` ends an hour; a
request sees at most one end of an hour, as gunicorn kills a worker after 120 s.

Four things the code does are in the model as they are: extending a key before
its first connect sets an expiry that the activation overwrites; `reset_key`
keeps `expires_at` and re-arms the key; `block_key` toggles; the project's counter
is never recounted.

### WriteBehind: the Redis buffers

*State.* Redis: `log` (the list of activities), `hits`, `products` and `hll` (the usage
hash, set of products and HyperLogLog of a key and day) with `listed` (their entry in
the set of those to flush), `recent` (the set of devices to update). PostgreSQL: `stored`,
`usage`, `deleted`. `flusher[f]` is a Celery worker in the periodic task or a
process of the API that flushes because of a request. `fed` is the one buffer that requests fill in a
behaviour: the buffers share nothing but the flushers' time. `owed`, `accepted`,
`connects`, `updates`, `expired`, `lapsed` and `incidents` are history.

*Actions.* `LogActivity`, `LogDirectly` (the RPUSH reports failure: the row is
written directly), `RecordUse`, `BufferUpdate` fill the buffers. A flush of the
list is `ReadBatch`, `InsertBatch`, `TrimBatch`; of the usage `ReadHash`,
`LoadRow`, `WriteRow`, and, one Redis command after the other, `ClearHash`,
`ClearProducts`, `ClearDevices`, `Unlist`, each of which may raise (`ClearFails`) with
the row committed; of the devices `ReadMembers`,
`WriteMembers` (or `WriteSomeMembers`, one group failing), `DropMembers`; each
with its failures, and `Kill` at any point. `ExpireLog`, `ExpireUsage` and
`ExpireUpdates` are the times to live of the keys, which run out whether or not a
flusher is at work; the keys of one key and day go in the order in which they were
renewed. `DeleteUser` the deletion of a user whose activities are buffered, which makes
their foreign key fail.

*Configuration.* `BeatRuns` says that a Celery beat sends the periodic task to
workers with an application context. No compose file starts one, and the worker's
module-level `celery_app` has no context; as shipped, device updates are never
flushed. The flushes that requests start do not depend on it.

### WebhookDelivery: an event from its trigger to the log

*State.* `task` (the WebhookPendingTask rows: status and `retry_count`), `queue`
(messages of an event in the broker), `broker` and `hook` (whether the broker
answers and the Webhook row is there), `sweeper` and `worker` (what each process
has loaded), `counted` and `logs`. `sends`, `troubles` and `excused` are history.

*Actions.* `TriggerQueued`, `TriggerStored`, `TriggerLost` are `trigger_webhook`
with and without a broker; `Select` and `NextTask` are the sweep over the rows
that are due, `Take`, `Publish`, `Complete`, `Retry`, `GiveUp`, `Postpone` and
their failures one task of it; `Send`, `LoadHook`, `Record`, `Acknowledge` the
Celery task, `Redelivered` the message of a lost worker. `CleanUp` removes old
rows, `DeleteHook` the webhook (refused by the foreign key while rows wait).
`BrokerFails` may come after the broker has taken a message.

*Configuration.* `Wired` says that the sweep is started by something that has the
services and an application context, the cron job the documents expect;
`scripts/scheduled_tasks.py` alone initialises neither. The delays between retries
are left out: a task is due whenever a sweep looks. The up to three HTTP attempts
of one Celery task are one step; the task's own Celery retries never fire.

### Registration: users, projects and invite codes

*State.* `user`, `project`, `code` are the committed rows, `req[r]` what was asked
for and the project of the code when it was validated (`seen`).

*Actions.* `/register` (`Register`) and `/register-with-invite`
(`RegisterWithInvite`) are chains of commits: `CreateUser` and `CreateProject`, or
`CreateUserAndProject` in one, `CreatePermissions`, `CreateRoles`, `Admit`, `UseCode`;
with a code that already belongs to a project, `JoinProject`, which always fails (§5).
`InitializeFails`, `AdmitFails` and `UseCodeFails` are the exceptions the code
swallows, `Fails` those it reports, `Dies` a killed worker. The owner creates and
deletes codes, which may also lapse.

What the chain leaves: when the project's name is taken, `/register` keeps the user,
so that name and email are spent and the retry is refused; a code that was bound to
a project and not marked used before a crash is still accepted and fails every
registration that comes with it; an error while marking the code used is only logged.

### FileStore: rows and files of a product

*State.* `rows` are the committed `ProductFileConfig` and `ProductExtraFile` rows,
named by the upload that inserted them; `disk` says which upload wrote the file at a
path; `upload` has the chunk marks of a chunked upload as Redis and as
`metadata.json` know them; an upload has two sizes, the one of its file (which the
first chunk announces, `assemble_file` verifies and the row gets) and the one the limit
is checked for (`claim`, which a chunked upload states in its request to finalize); `now` is the second that stamps the paths of configs and
chunked files.

*Actions.* An extra file looks up the row it replaces (`FindOld`), all check the
storage limit (`CheckLimit`, `RefuseForRoom`); then `RemoveOld` (the file),
`FlushDelete` (its row, uncommitted), `ClearPath` (a stale file at the path),
`SaveFile`, `PassSignature` or
`RefuseSignature`, `HashFile`, `StoreRow`. Chunks: `BeginUpload`, `SaveChunk`,
`Expire` (the Redis record's TTL), `Assemble`, `RefuseIncomplete`, `LoseUpload`.
Deletion removes the file and then commits the row's deletion. `RemoveOldFails`,
`ClearPathFails`, `SaveFileFails`, `AssembleFails` (the last two leave what was there, a
part of the file or nothing), `StoringFails` and `CutOff` are the faults; a read or write of the marks that fails
(`struck`) is only logged, as in the code.

What the code leaves: an extra file's path carries only its safe name, so two names
with one safe name share a file; two overlapping first uploads of one name leave two
rows of it for good, and each later upload replaces one and overwrites the file of
the other; a replacement refused or interrupted after the
old file went keeps a row without a file; two uploads of one second share a path;
a deletion of a row that was replaced meanwhile removes the new file; `finalize`
removes the file on any exception, also after its commit; other handlers leave a file
without a row. `check_storage_limit` also walks a directory in which no product's
files lie, so that the sum over the rows decides.

### Totals

`Total(f)` is the sum of the values of a function: the devices' rows that the seat
limit counts (`validate_device_limit`), the sizes that
`check_storage_limit` adds up, the hits of the rows of a day, the sends of the
events. It is defined without recursion, as the number of units (`Units(f)` has
`f[x]` elements for each `x`), so that a sum can be reasoned about: recursion and
folds are out of the prover's reach.

### TokenLedger and SeatPool

The abstract promises: tokens are spent, granted and transferred in indivisible
funded steps that are entered in the ledger; a device takes a seat only while
one is free and keeps it until a reset.

## 3. What is checked

| run | instance | shows |
|---|---|---|
| `billing` | 2 users, 2 requests of all ten kinds, both at once, prices {0,1,3}, 1-2 keys, balance 2 | type, `OverdrawnByAdminsOnly`, `LedgerExact`, `GoodsArePaid`, `ChargeBuysGoods`, `ChargedOnce`; `LedgerKept`: until the first lost update of any row every step is one of `TokenLedger`; `EveryRequestEnds` |
| `billing_lost` | 2 deductions at once | violation of `TokensConserved`: a deduction is lost from the balance |
| `billing_unstored` | `create_key` | violation of `ReturnedKeyExists`: a key is returned that was not stored |
| `seats` | 4 devices on 2 seats, 4 connects, resets and agents' resets, two at once, failures | type, `ListWithinLimit`, `OverbookedByRacersOnly`, `TokenNeedsRow` |
| `seats_serial` | 3 devices, 5 requests one at a time, failures | `InfoFollowsList`, and the requests implement `SeatPool` (`PoolSpec`) |
| `seats_agent` | connect and agents' reset | violation of `ResetFreesSeats`: a seat stays taken |
| `buffers` | 2 devices, 2 keys, 2 flushers, 3 activities, 2 connects, 3 device updates, batch and threshold 2, one fault or expiry | type, `LossNeedsOverlap`, `TwiceNeedsCause`, `UsageExact`, `UpdatesKept`, `ActivitiesFlushed` |
| `buffers_unique` | 3 connects of one day, 1 flusher | violation of `UniqueOfTheDay`: the day's unique devices fall |
| `lifecycle` | 2 keys, 2 users, 3 requests, two at once; status changes with counters in one scene, hours in the other | type, `CountersExact`, `HoursGranted`, `HoursKept`, `ServedWasUsable` |
| `webhooks` | 2 events, 2 sweeps, 2 workers, two processes busy at once, 1 retry, outages and one more fault | type, `EventsAreHeld`, `SentTwiceNeedsCause`, `GivenUpAfterRetries`, `CountersFollowLogs`, `EventsSettle` |
| `registration` | 3 registrations at once, 3 names, 1 email, 2 projects, 1 code, one fault | type, `CodeAdmitsOnce`, `BoundCodeIsUsed`, `EmailTwiceNeedsOverlap`, `RefusedLeavesNothing` |
| `files` | 3 uploads or deletions, two at once, 2 names with one safe name, 2 chunks, 2 seconds, limit 3, a chunked upload that claims less than it sends, one fault | type, `RowsKeepTheirFiles`, `StorageWithinLimit`, `AcknowledgedIsWhole` |

*What kind of properties these are.* The code has races, and most properties do not
deny them: they say that each loss, duplicate or wrong counter has one of a list
of **named causes** and nothing else brings it about. Whoever repairs a cause takes
it off the list and runs the model again.

*Why these bounds.* Every race here is between a read and a write of **one** row,
list or path by two processes, so two at once produce each of them; a third
request matters where it runs after the race and meets what it left (`seats`,
`lifecycle`, `files`), or where a code or name passes through three hands
(`registration`, in which all three run at once).
The balance 2 covers one purchase (1, or 2 x 1) and not another of the same size; 3
is never affordable and lets only an admin go below zero; 0 is the boundary at which
no row is touched. With four devices on two seats a limit that is off by one exceeds
the bound of `OverbookedByRacersOnly`, which with fewer devices would hold vacuously.
Three activities with batches of two give a full and a partial batch, and an
activity logged between read and trim. One retry instead of the code's seven is
enough for a count that two sweeps overwrite. Limit 3 is exceeded by two uploads
of 2 that were checked together and met exactly by 2 + 1. One fault per behaviour:
the properties say that what one fault leaves is harmless or named.
All numbers of requests, events, hours and faults are constants of the modules,
marked *bound* there; nothing else is capped.

*Symmetry*, of values no definition tells apart, permutes requests and devices
(`MCKeySeats`), requests, keys and users (`MCKeyLifecycle`), requests, users' names
and project names (`MCRegistration`) and requests (`MCFileStore`). No run with a
liveness property uses it.

*Mutants.* Each property of a passing run has a plausible slip of the code that
breaks it (`PROJECT.json` "mutants"); they stand beside the definitions they
change, e.g. `FlushRowPayerFirst`, `HasSeatOffByOne`, `SaveChunkRedisFirst`.

*Fairness.* Three runs need it, and none assumes strong fairness.

- `KeyBilling`: weak fairness of each handler's own steps (`Progress`): a gunicorn
  thread goes on with the request it has begun, and PostgreSQL grants a free row
  lock. Arrivals and kills are not fair. A handler that waits for a row is not
  `ENABLED` until the row is free, so `EveryRequestEnds` really says that no two
  handlers wait for each other.
- `WebhookDelivery`: the broker comes back, a sweep that can take a step takes it
  (the scheduler starts it again and again), a worker goes on with its task.
- `WriteBehind`: a flusher goes on, and, where a beat runs, the task is started.
  Requests and failures are not fair. `ActivitiesFlushed` is `[]<>`: an entry of a
  deleted user blocks the list for good, because the batch it is in is rolled back
  each time (until the list expires), and the property names that case.

*Deadlock* is checked in every run except `files`: where the system may rest there
is an action for it (`Served`, `Rest`, `Quiet`), and `FileStore` has none since a
client may just not continue an upload.

## 4. What is proved

Every safety invariant and action property that a passing run checks is a theorem.
The theorems hold for any users, keys, devices,
requests, flushers, sweeps, prices, hours, threads and faults, from the named
assumptions on the constants alone (`UsersAssumption` ... `UploadsAssumption`, each
stated in the module of its constant and evaluated by TLC in its runs). No module
that is proved about uses RECURSIVE operators.

| module | theorem | states |
|---|---|---|
| `KeyBillingProofs` | `TypeCorrect` | `[]TypeOK` |
| | `LedgerCorrect` | `[]LedgerExact` |
| | `NoOverdraft` | `[]OverdrawnByAdminsOnly` |
| | `FollowsLedger` | `LedgerKept` |
| | `ImplementsLedger` | `[](clobbered = {}) => LedgerSpec`, without `adminCreateUser` requests, which debit without a check |
| | `GoodsPaidFor`, `ChargesBuyGoods` | `[]GoodsArePaid`, `[]ChargeBuysGoods` |
| | `ChargesAreSingle` | `ChargedOnce` |
| `KeySeatsProofs` | `SeatTypeCorrect` | `[]TypeOK` |
| | `SeatListCorrect` | `[]ListWithinLimit` |
| | `TokensNeedRows` | `TokenNeedsRow` |
| | `RacersOverbook` | `[]OverbookedByRacersOnly` |
| | `RowsFollowList` | `[]InfoFollowsList`, for `Threads = 1` and without agents' resets |
| | `SeatsImplementPool` | `PoolSpec`, for `Threads = 1` |
| `RegistrationProofs` | `RegistrationTyped` | `[]TypeOK` |
| | `CodeIsForOne`, `BoundCodesAreUsed` | `[]CodeAdmitsOnce`, `[]BoundCodeIsUsed` |
| | `EmailsOverlap` | `[]EmailTwiceNeedsOverlap` |
| | `RefusalIsClean` | `[]RefusedLeavesNothing` |
| `KeyLifecycleProofs` | `LifecycleTyped` | `[]TypeOK` |
| | `CountersCorrect` | `[]CountersExact` |
| | `HoursAreGranted`, `HoursAreKept` | `[]HoursGranted`, `HoursKept` |
| | `ServedIsUsable` | `ServedWasUsable` |
| `WebhookDeliveryProofs` | `DeliveryTyped` | `[]TypeOK` |
| | `NoEventForgotten` | `[]EventsAreHeld` |
| | `SendsAreExplained` | `[]SentTwiceNeedsCause` |
| | `GivingUpTakesRetries` | `[]GivenUpAfterRetries` |
| | `CountersAgreeWithLogs` | `[]CountersFollowLogs` |
| `FileStoreProofs` | `StoreTyped` | `[]TypeOK` |
| | `RowsAreBacked` | `[]RowsKeepTheirFiles` |
| | `AcknowledgedUploads` | `[]AcknowledgedIsWhole` |
| | `SequentialUploadsFit` | `[]StorageWithinLimit` |
| `WriteBehindProofs` | `BuffersTyped` | `[]TypeOK` |
| | `LossTakesOverlap`, `TwiceTakesCause` | `[]LossNeedsOverlap`, `[]TwiceNeedsCause` |
| | `UpdatesAreKept` | `[]UpdatesKept` |
| | `UsageIsExact` | `[]UsageExact` |

### The arguments

The proofs have one form: an inductive invariant that TLC checked on the module's
run first, one lemma per conjunct and group of actions, and a temporal step that
puts them together. What the strengthenings say:

*KeyBilling.* That row locks are held by live handlers only (`LocksHeld`) is preserved
because a handler takes a lock with the UPDATE of a row it changes and every way out
of its transaction releases them all. `StepKinds` groups the handlers' actions by what they do to the
transaction (load, lock, signal, commit, roll back). `LedgerExact` needs
`FreshImages`: an image no commit has overwritten is the row's value, so writing
`seen + Delta` adds `Delta`; every other commit puts the row into `clobbered`.
`OverdrawnByAdminsOnly` says nothing of the images, and it is an image that a commit
writes back. `ImagesAreFunded` says that no image is below zero except an overdrawn
admin's, and that a transaction past its check holds an image that covers its
amount; as the amount is subtracted from *that* image, the written value is never
negative, however stale it is: the lost updates of this code lose money but cannot
overdraw. `UnpaidUntilSent` makes "has overdrawn" a stable fact. For the purchases,
`PurchaseInv` says that nothing is charged or made before the commit, and that goods
exist only with the one debit for all that was asked for: the commit that
`SignalStored` makes on behalf of `create_key` leaves it nothing to charge again.

*KeySeats.* A list written back whole is the list that was checked and one device
more, so `Cardinality(list) <= maxLimit` survives any race; `ImagesWithinLimit`
carries that from the check to the write. `TokenNeedsRow` follows from
`RegisteredHaveRows`: who is past `InsertInfo` or found a row has one until a reset.
For the bound on overbooking, `Claimed` are the devices with a row and those admitted
or listed on their way to one. An admission that counts the rows leaves the rows one
below the limit, and all other claims belong to different running handlers, of which
there are at most `Threads` (`CountedClaims`, with `RowsCountDevices`: there are at
least as many rows as devices with one). An admission of a listed device adds no
claim, because without deaths and resets a listed device has a row or is about to
get one (`Taken`); that holds of every image too, which is what makes the clobbered
lists harmless. With one handler at a time (`MovesAlone`) a loaded image is the row
(`AloneInOrder`), which gives the refinement of `SeatPool`; `ListedFirst` adds that
the device to be inserted has no row.

*Registration.* Requests that run at the same time have met (`RunningHaveMet`); a
request that has ended leaves its code spent unless a fault struck it
(`CodesAreSpent`), so two users of one code met or one was struck. The same with
the look-up of the email (`EmailsHaveMet`). A project's administrator is a user
(`AdminsExist`). A code gets its project only in the step that brings the registration
to `use`, from where only a fault lets it go without marking the code; that the code is
deleted or lapses meanwhile takes nothing back (`BoundCodeIsUsed`, itself inductive).

*KeyLifecycle.* Every write to `expires_at` is computed from an image, so the bound
on the hours holds of the images too (`ImagesBounded`); hours only get more and time
only passes, so an old image stays bounded. `CountersExact` is inductive because a
recount holds, between its two transactions, the cardinalities of the image it
loaded (`InOrder`), and every race is entered in `drifted`. `HoursKept` is
read off the actions under this invariant. `ServedWasUsable` needs that a connect past
its check is in `usable`, and that one that has not been checked is in it as soon as
its image is that of a usable key (`Noted`): an image was the row when it was loaded,
and the hours that pass before it is checked can only make it less usable.

*WebhookDelivery.* An event has one message or one row that at most one sweep
holds, unless it is in `excused.doubled` (`OneMessage`); this gives
`SentTwiceNeedsCause`. Sweeps overwrite each other's `retry_count`, so it is not the
number of failures; but it is, together with the sweeps that have failed and not yet
counted (`Failed`, finite by `ProcessesAssumption`), at most that number
(`RetriesAreTroubles`), so giving up takes the retries. The counters equal the logs
until two workers hold the webhook at once (`CountersInOrder`). The tasks that have
sent and not yet logged are counted with the logs (`LogsInOrder`), so that one task
cannot log twice.

*FileStore.* For each row the file at its path is its own unless one of the named
causes took it, at every point of every handler that holds a path (`Kept`, `Apart`,
`Chosen`). The hard part is what the look-up of the old row sees: an upload has
found the rows of its name that were there before it, unless there are two
(`Looked`), and two rows of one name come of an overlap of their uploads
(`TwinRows`). This argument refuted the first form of `RowsKeepTheirFiles`, which
TLC had confirmed with three requests: it excused a lost file only by an overlap of
the two uploads concerned, but two rows of one name stay for good, so that a *later*
upload, overlapping nobody, replaces one and overwrites the file of the other. The
property now names that cause (`Ambiguous`). For the chunks, what either of
the two copies of the marks lacks was not acknowledged unless a write failed.
For the storage limit the invariant is about the rows of the uploads that met nobody
(`UnmetRows`) and stated at least their size: their sizes fit (`RoomInOrder`), whatever the others do, and an upload
that is alone still finds the room that was checked for it, and the row it replaces,
when it stores its own (`RoomFor`).

*WriteBehind.* As long as no two flushers had a batch at once, the one that has
holds the head of the list (`Heads`), which others only append to: so what it
trims is what it inserted (`TrimmedIsStored`), and nothing is lost. When the list
expires under it, nothing of its batch is on the list any more (`Apart`; the two are
`HeadIsHeld`), and its trim may cut a new list, which `heldExpiry` names. Unless one of the
causes occurred no activity is on the list twice, or stored and still on the list
past a trim (`StoredOnce`). The flusher of the devices holds the whole set until one
is added (`MembersInOrder`). Likewise the flusher of the usage holds the hits of the
hash and the row as it is (`UsageInOrder`), so that what it commits and deletes is the
same number; between the two the hits are in the row *and* in the hash. What expires
is counted apart (`lapsed`); a hash that expires under a flusher, which then writes
its hits all the same, and a delete that fails are causes of their own.

*Totals.* A row more adds its value to the total and another value of a row changes it
by the difference (`TotalMore`, `TotalChange`), from the cardinality of disjoint unions;
fewer rows have a smaller total (`TotalLess`).

### Assumptions that are not about types

`DevicesAssumption`, `KeysAssumption` and `ProcessesAssumption` say that devices, the
keys of a project, sweeps and workers are finitely many, as the proofs count them. Durations
and added hours are at least 1 (`NumbersAssumption` of `KeyLifecycle`: the schemas refuse
less). `NoRowAssumption` and the like say that the value for "none" is not a row.

### Only model-checked

Liveness (`EveryRequestEnds`, `EventsSettle`, `ActivitiesFlushed`): fairness and
`ENABLED` are out of the prover's reach. The properties of the runs that expect a
violation are false, so there is nothing to prove.

## 5. Where code and documents differ

With a run (`PROJECT.json` "findings"):

- *Lost update of a balance* (`billing_lost`): two deductions both succeed, one is
  missing from the balance; `tests/integration/test_race_conditions.py:142`
  expects the difference of both.
- *A key that is not stored is returned* (`billing_unstored`): `create_key`
  swallows the failure of `refresh`/`commit` (`key_crud_service.py:149`).
- *Agents' reset frees no seat* (`seats_agent`): it leaves the DeviceInfo rows,
  which the limit counts.
- *Unique devices of a day fall* (`buffers_unique`): a flush deletes the day's
  HyperLogLog, and the next one overwrites the row's count with what came after it.

Seen while modelling, part of the models, without a run of their own:

- Two purchases may share one balance (the test at
  `test_race_conditions.py:398` expects one to be refused): the same race as
  `billing_lost`, decided on the image at `key_crud_service.py:279`.
- `_create_key_within_transaction` says it does not commit or roll back, and
  `trigger_webhook` inside it does both (`SignalStored`, `SignalNotStored`).
- An admin or owner who endows a new user is debited without a check
  (`utils/user_creation_helper.py:109,211`): the balance may become negative.
- `can_manage_key` (`routes/keys/common.py:15`) binds `rbac_service` only inside
  its docstring: a `NameError` for everybody but owners and admins, so the paid
  branches of `update_key` and `reset_key` are never reached (`CanManage`).
- `reset_key`, `pause_key`, `resume_key` and `extend_key` bind
  `activity_service` only in an early return, and the agents' bulk routes
  nowhere: they answer "Failed to ..." **after** the commit (answer `"fault"`).
  `update_file_status` does the same with a local it never bound.
- The idempotency decorator stands above the route decorator, so the registered
  view is the undecorated one and no idempotency key is ever looked at; a retry is
  a new request in the model. Several bulk key routes have `validate_request` above
  the route for the same effect on their validation: `/bulk/delete`, `/bulk_reset`,
  `/bulk/pause`, `/bulk/activate`, `/bulk/add_hours`, the by-product forms of resume,
  reset, activate and delete, `deleteByFilters` and `extendByFilters` always answer
  400. The ones that can be reached are modelled.
- `_trigger_async_flush` (`services/analytics/analytics_buffer_service.py:747`) says
  it uses thread-local storage; its lock is one per process. `flush_key_analytics` inside a
  request commits or rolls back the caller's session.
- Emails are looked up before a registration and are no unique column: two
  registrations at once may take one email (`EmailTwiceNeedsOverlap`).
- A registration with the code of a project calls `get_user_permission_service`
  (`routes/auth.py:614`), a local name that is imported for referral codes only (578):
  an `UnboundLocalError`, rolled back and answered 500. Nobody ever joins a project
  with a code (`JoinProject`).
- Referral and product codes are created by no route: `create_refcode` has its
  `validate_request` above the route and answers 400, the routes of invitations pass a
  column `role` that the model class does not have. Only project codes are modelled.
- `finalize_product_extra_file_upload` checks the storage limit for the `file_size` of
  its own form (`routes/files.py:2472`) and stores the size of the assembled file (2521),
  which is compared with the announcement of the first chunk only: a lone upload can
  exceed the limit (`StorageWithinLimit` names it).
- What is buffered expires after an hour: without a beat, `last_seen` of devices is
  never written (`ExpireUpdates`).

## 6. What is not modelled

- *Data*: key strings, prices' computation, messages, the content of files, logs and
  analytics. A price is an input, a device stands for its serial and fingerprint.
- *Refusals before the first shared row is read* (validation, permissions,
  rate limits): they change nothing. `Refuse` covers the ones that depend on
  modelled state.
- *Parts of modelled components*: agents' deletion of unused and expired keys,
  `duplicate_key` (which always fails), total counters and their caches; the direct
  fallback of the analytics tracker, `clear_buffer`, unparsable entries and the
  persistence layer without callers; editing and deactivating a webhook; deletion
  of users and projects and edits of profiles; a file that
  goes between `exists` and `remove`, folders, loose files, product images, ratings,
  downloads and `cleanup_old_uploads` without a caller.
- *Code that is not reached*: the background key task (`tasks/key_tasks.py`; a request
  holds at most 100 keys, the threshold is 10,000, and the worker has no application
  context), with its batch accounting, redelivery and task records; the
  idempotency store; sessions (`create_session` has no caller, its storage methods are
  placeholders). A model of them would describe behaviours the program does not have.
- *Tier limits*: a count before an insert, with the race that `StorageWithinLimit`
  and `OverbookedByRacersOnly` show; the tiers are configuration.
- *Cryptography, authentication, HTTP delivery, SSH, formatting, settings,
  frontend*: functions of one request, last-writer-wins rows or external effects,
  no state whose interleaving could be checked. `PROJECT.json` gives the reason for
  each component.

The map covers a small share of the source: most of it is routes that validate, query
and format, migrations, schemas and configuration, which hold no state machine.

## 7. Plan

Done: `KeyBilling` with `TokenLedger`, `KeySeats` with `SeatPool`, `KeyLifecycle`,
`WriteBehind`, `WebhookDelivery`, `Registration`, `FileStore`, a module of proofs for each
of the seven, and `Totals` with its own.

To come: a statement of `RacersOverbook` that also admits deaths, which needs a bound
on the listed devices without a row.

## 8. Running

`tlc -config MCKeyBilling.cfg MCKeyBilling.tla` and likewise for the other
configurations; `tlapm KeyBillingProofs.tla` and likewise for the other seven
modules of proofs, each a few minutes from nothing. The
longest runs (`files`, `lifecycle`, `buffers`, `seats`) take one to two minutes
with two workers.
