# A formal model of mini-enclava

mini-enclava is a multi-tenant gateway to language models, written in Go over
PostgreSQL: it authenticates callers, admits and charges their model calls,
keeps documents and their embeddings, and runs durable jobs.  This directory
holds TLA+ modules translated from its source, TLC configurations that check
them on small instances, and TLAPS proofs of the properties that matter most.

- `tlc -config X.cfg M` checks one configuration, `tlapm M.tla` the proofs of a
  module.
- `PROJECT.json` lists the runs, the source lines behind every definition, the
  hazards of the code with the properties that cover them, the disagreements
  between code and documentation that the runs show, and the theorems.

Contents: [the system](#the-system), [plan](#plan), [modules](#modules),
[runs](#runs), [disagreements](#disagreements-between-code-and-documentation),
[proofs](#proofs), [limits](#what-is-not-modelled).

## The system

One process (`cmd/`, `internal/httpx`) serves HTTP and runs a job runner and a
connector scheduler.  Several processes may share one database and one artifact
directory; nothing but the database coordinates them, except the admission gate,
the rate limiter and the model cache, which each process has for itself
(`docs/go-rewrite-contract.md:34`).  Startup reconciles artifacts before the
runner starts; shutdown stops the runner, then the scheduler, then HTTP.

| Component | State | Operations | Interacts with | What is hard | What makes it correct |
| --- | --- | --- | --- | --- | --- |
| Job queue (`internal/jobs`, `store/postgres/jobs_repo.go`) | `jobs`, `job_attempts`; claims in worker memory | enqueue, claim, heartbeat, progress, mark dispatched, complete, fail, release, mark unknown, cancel, delete | handlers of extract, RAG and connectors run under a claim | leases that expire under a live worker, crashes, lost replies, cancellation, a claim made of two statements | fencing, an attempt ledger that agrees with the row, no silent second dispatch, settling |
| Admission (`internal/inference/admission.go`) | active and queued counts, tenant counts, FIFO of waiters | acquire, release, cancel | executor | cancellation racing a hand-off | conservation of slots, no idle slot while someone waits, FIFO, sublimits |
| Billing ledger (`internal/billing`, `billing_repo.go`) | `reservations`, `usage_records`, `budgets`, prices | reserve, mark dispatched, settle, mark unknown, release undispatched | executor | concurrent admissions, snapshots per statement, period turns | no over-admission, no lost liability, no deadlock |
| Executor (`internal/inference/service.go`, `usage.go`) | the call's phase, permit, reservation, stream | execute, stream, close, account | admission, billing, transports, policy | a client, a database or a process that goes away at any point | what was sent is liable, what was not sent is not charged, permits come back |
| Inference policy (`internal/inference/policy.go`, `service.go`, `httpx/providers.go`) | endpoint rows, their verification stamps, the transport cache, restrictions | route, authorise, verify, stamp; create, edit, enable, delete endpoints; restrict | executor, source authority | rows read one by one while administrators write, a stamp that writes back a whole row | a stamp is a proof, an attesting endpoint is reached over a proven transport, standing denials hold |
| Artifacts (`internal/artifacts`) | rows and files | begin, write, finalize, abort, read, delete, reconcile | extract, RAG, startup | file and row are two stores; a slow writer against reconciliation | what was acknowledged is kept, what was not is never read, fences hold |
| Connectors, scheduler (`internal/connectors`) | the connection row with cursor, hashes and sync state | create, edit, delete, sync, tick | jobs, sources, RAG | syncs that overlap, fail half way or outlive their lease; a row read minutes before it is written back; edits that name another channel or collection and keep the checkpoint | above what an edit left, the cursor and the hashes never run ahead of what was uploaded |
| Source authority (`internal/source`) | objects, versions, tombstones, restrictions | upsert, tombstone, authorise | connectors, RAG, policy | reads at different moments | no read of a tombstoned object, no call against a standing denial |
| RAG (`internal/rag`) | documents, versions, chunks, embeddings | upload, stage, embed, publish, delete, query | jobs, artifacts, inference | generations computed from a read, two transactions per version | queries see one complete generation |
| Extract (`internal/extract`) | templates, settings, jobs, results | process, attempt; create, edit, reset templates | jobs, artifacts, inference | four stores written one after the other; a job that waits while its template changes; repeated requests | files and results of jobs are whole and their own, a withdrawn template is not sent |
| Authentication and identities (`internal/auth`, `httpx/identities.go`) | users, roles, service accounts, keys, sessions, OIDC flows and links | log in, touch, revoke, link, administer | HTTP | three statements per authentication, a challenge confirmed twice, administrators who act on rows they read before | revoked is revoked, an account is bound by its holder, scopes are inherited |
| Response bindings (`httpx/responses.go`, `response_bindings_repo.go`) | public names of responses and items | resolve, bind, follow up, retire | executor, HTTP | processes that bind one answer at a time, deletions whose answer is lost | a name in an answer has its row, ids go back where they came from |
| Chatbot, prompts (`internal/chatbot`, `internal/prompts`) | assistants, templates, conversations and messages | complete, stream; create, edit, delete | RAG, executor | a turn is several inserts around a paid call | answers are kept in order, what is withdrawn is not served |
| HTTP (`internal/httpx`) | rate windows | handlers | everything | - | - |
| Transports (`internal/llm`) | model cache | fetch, send | executor | - | - |
| Modules, configuration, dashboard | none of their own | wiring, validation, rendering | everything | nothing temporal | - |
| Process lifecycle (`cmd/`) | - | start, drain, stop | runner, scheduler, HTTP | draining with open claims | no claim is lost by a clean stop |

Every hazard met in reading is in `PROJECT.json` under `hazards`, at the line
where it bites.

## Plan

Done, from the core outwards: the job queue and its contract; the admission gate, the
billing ledger and the executor over it; the artifact store; RAG and connectors over
the contract of the queue; the policy that chooses endpoint and transport; and the
routes of the HTTP layer that keep state of their own (identities, response bindings,
assistants, extraction), composed in `Surface`.  How the modules use each other:

| Module | Uses | In place of |
| --- | --- | --- |
| `Jobs` | `JobContract`, which it implements (`KeepsContract`) | |
| `Rag`, `Connectors` | `JobContract` | the job queue |
| `Execute` | `Billing`, which it implements (`KeepsLedger`) | the ledger |
| `Surface` | `Identity`, `Responses`, `Chatbot`, `Extract` | |

What a next step would take up, in this order:

1. `Execute` over `Admission` rather than over a bound on permits, and `Policy` as the
   choice of its endpoint, so that one behaviour goes from a route to its settlement.
2. ACL snapshots of the source authority, once the program applies one; text extraction
   and chunking of RAG against reference definitions.
3. Proofs: that the gate implements the bound on permits that `Execute` assumes.

## Modules

### Jobs

The `jobs` and `job_attempts` tables, the worker's claims, and the `Run` loop of
each worker.  One action is one SQL statement or transaction, or one step of a
worker between two of them.

| Action | Code |
| --- | --- |
| `Enqueue`, `Cancel`, `Delete` | `Service.Enqueue`, `Cancel`, `Delete` and their statements |
| `Sweep`, `Grant`, `GrantLost`, `NothingRunnable` | `Claim`: its two statements, its commit, a commit whose reply is lost |
| `StartHandler` | the semaphore in `Runner.Run` |
| `Heartbeat`, `WatchCancel`, `WatchError` | the watchdog of a claim |
| `Progress`, `MarkDispatched`, `MarkDispatchedLost`, `Send` | what a handler does under its claim; `Send` is the upstream call of extract and RAG |
| `Complete`, `Fail`, `MarkUnknown`, `Release`, `ContextDone`, `HandlerTimeout`, `LoseClaim` | `translate` and the terminal transactions |
| `Drain`, `Restart`, `Crash` | shutdown, the new process, a process that dies |
| `Tick`, `TickLate` | time; `TickLate` lets a lease expire under a worker that should have renewed it |

`fence_token` and `attempts` are bumped together and are one field.  `progress` and
`result` hold the fence of the lease that wrote them, so that a property can say who
wrote.  Time is relative: a lease holds `lease_expires_at - now()`.  Lease owners are
the workers' names, which restarts keep (a fresh name per process, the default, is the
easier case); the fence is what tells their leases apart.

### JobContract

The same jobs without workers, clocks, attempts or faults: what a submitter and a
handler may rely on.  `Jobs!C` maps the rows to it (`queued` to `pending`, `running`
to `leased`), and `KeepsContract` says that every step of the queue is a step of the
contract or invisible to it.

### Admission

One pool of the gate: counts, tenants and the queue are the struct's fields, a step is
one critical section under the mutex (`AcquireNow`, `AcquireQueued`, `Release`,
`CancelQueued`, `CancelGranted`) or the return of a caller's select (`Wake`).
`grantLocked` is `GrantLocked`.  `CancelGranted` is the select that takes
`ctx.Done` although its wake is ready; `CancelQueued` removes the caller's place from
the list.  A rejection writes nothing and is no step.  The module's names begin with
`Pool` where other modules have the same (`PoolInit`, `PoolNext`, `PoolSpec`), because
its theorems stand beside those of `Execute`.

### Billing

The ledger of one tenant.  `Reserve` is several steps, because each of its statements
takes its own snapshot: `Begin` (reads the clock), `Lock` for each budget row in order,
`ReadOutstanding` and `ReadSettled` for each budget, `Insert`, or `Abort`.  `Settle`,
`MarkUnknown`, `ReleaseUndispatched` and `MarkDispatched` begin with the lock of the
reservation's row or are a single update, and are one step.  A reservation's canonical
and attribution rows move in one update and are one record; that is why a usage record,
which carries the billing subject alone, counts for fewer budgets (`Settled`) than the
reservation did (`Outstanding`).  An amount stands for money or for tokens.

### Execute

`Service.Execute` for a priced call, over `L == INSTANCE Billing`: every database
transaction is an action of `Billing`, so a call's state is its `phase` together with
its reservation's row.  `Admit` to `Refused` are admission and `reserve` (first the
endpoint's prices, then the model's); `TransportFails`, `Mark`, `MarkFails` the point of
no return; `Send` to `FinishStream` the attempt, streamed or not; `Settle`,
`SettleFails`, `MarkUnknown` the accounting under its detached context.  `Leave` ends
the request's context and `Crash` the process at any point; the statements of `Flaky`
attempts may fail or lose their answers.  The permit pool is abstract here: at most
`MaxPermits` are out, which is `SlotsConserved` of `Admission`.

### Artifacts

An artifact is a row and a file in two stores, `row` and `disk` (a `.part` file, a file
at its durable path, or both).  One action is one statement or one file operation.

| Action | Code |
| --- | --- |
| `Begin`, `BeginInsert`, `Create` | `Store.Begin`: the lease is computed, the row inserted, the `.part` file created |
| `GiveUp`, `Verify`, `Rename`, `SyncDir`, `FinalizeCommit`, `Rollback` | `Writer.Write` and the steps of `Finalize` |
| `AbortPart`, `AbortDurable`, `AbortRow` | `Writer.abort` |
| `Lookup`, `Open`, `CloseRead`; `Delete`, `DeleteDurable`, `DeletePart` | `Store.Read`, `Store.Delete` |
| `Start`, `ListExpired`, `Fence`, `ReapDurable`, `ReapPart` | `Reconcile` (a) |
| `Walk`, `LookAt`, `RemoveWalked` | `Reconcile` (b) |
| `ListFinalPaths`, `RepairTombstoned`, `RepairFinal`, `TombstoneMissing`, `Finish` | `Reconcile` (c) and the decision to serve |
| `WriterDies`, `DeleterDies`, `Stop`, `PowerLoss`, `Tick` | processes and machines that die, time |

Every statement may fail, with or without having taken effect, and every file operation
may fail, wherever the code has a branch for it or ignores the error.  `PowerLoss`
undoes renames that no `fsyncDir` has made durable (`dirty`); removals are taken to be
durable at once.  Identifier and fence are drawn by `Begin`, so an artifact has one
writer, and comparing owner and fence is comparing the state.  `finalizedAt` is the
column `finalized_at`.

### Rag

One document identity (tenant, source kind, native id) in one collection.  Its state is
in three stores: PostgreSQL rows, the Qdrant index and the job queue, which is
`Q == INSTANCE JobContract` (what `KeepsContract` shows of `Jobs`), with the
idempotency key of the embed job as the job.  One action is one statement or
transaction, one call of Qdrant, or one step of the job.

| Action | Code |
| --- | --- |
| `UpsertObject`, `ReadObject`, `InsertObjectVersion`, `AddCollectionItem` | `processNewDocument`, after the artifact is final |
| `Reprocess` | `ReprocessDocument`, up to its generation |
| `NextGeneration`, `StageGeneration`, `EnqueueEmbed` | `NextGeneration` and `enqueueEmbed`, of both |
| `ReadForDelete`, `DeleteDocumentPoints`, `TombstoneObject`, `DeleteObjectRows` | `DeleteDocument` |
| `DropIndex`, `DropCollection` | `DeleteCollection` |
| `ResolveSearch`, `SearchHybrid` | `Search`: the readable versions, then the query they filter |
| `EndRequest` | a refusal, an error, or a process that dies between two statements |
| `Lease`, `LoadVersion`, `CheckLatest`, `MarkSuperseded`, `SaveParsedDocument`, `MarkDispatched`, `ReplaceChunks`, `UpsertPoints`, `MarkPublished` | `attemptEmbed`, under a claim |
| `Err`, `Complete`, `Fail`, `ContextDone` | its errors and `translate` |
| `Crash`, `Sweep`, `CancelJob` | the worker dies, the queue sweeps, the owner cancels or deletes |

Deleting the object deletes its rows, and uploading again makes an object with a fresh
identifier; so versions, generations and chunk rows are those of the present object,
while points and jobs outlive it and name theirs.  A point is the set of points that
one attempt wrote, named by object, version, generation and lease; a version's chunk
rows are the generation and lease that wrote them.  `purged` and `gone` are history:
objects whose points were deleted, and objects that were tombstoned.  Text, vectors and
ranking are left out; `Structured` is the set of versions whose file is markdown or
HTML, which alone have a parsed form.

### Connectors

One connection, of a kind with a cursor (Slack) or without, the places its config may name
(channels or repositories), the collections it may feed, and the job queue,
again `Q == INSTANCE JobContract`.  An action is one statement, one call of the provider or
one upload.

| Action | Code |
| --- | --- |
| `CreateSource`, `ReadSource`, `UpdateSource`, `DeleteSource` | the routes of connector sources: the PUT reads the row, patches any of place, collection, checkpoint and switch (`Patches`) and writes every column but the sync state (`Written`); the checkpoint stays unless one is given |
| `RunOnce`, `SyncSource`, `Enqueue`, `EndRequest` | a pass of the scheduler or a manual sync, up to its job; the key is of config, checkpoint and window and not of the collection |
| `Lease`, `LoadConnection`, `MarkDispatched`, `Fetch` | `attemptSync` up to the provider's documents; `missed` remembers what the provider's limit left out |
| `ReadLive`, `Skip`, `Upload`, `SyncFails` | `syncDocuments`, one document after the other |
| `SetSyncState`, `SaveCheckpoint`, `Err`, `Complete`, `Fail`, `ContextDone` | the write-back of the row and the end of the job |
| `Publish`, `DeleteDocument`, `Tick`, `Crash`, `Sweep`, `CancelJob` | the provider, an operator, the schedule's window, faults |

A content is a number; how an upload is stored is `Rag`'s.  History are `uploaded` and
`missed`, by collection, and two fields of the row: `floor`, the cursor that an operator's
edit of place, collection or checkpoint left there, and `told`, the hashes he gave by a
checkpoint or kept for another collection.  They travel with the row, so a sync that writes
back the row of before an edit brings back the floor of before with it.

### Policy

One tenant and one process: endpoint rows, the transport cache, restrictions by subject
and one object of a connection.

| Action | Code |
| --- | --- |
| `Route`, `Manage` | `routeCandidates`, `evaluate` up to its first statement; a management call to the endpoint a binding names |
| `TenantRow`, `GetObject`, `GetConnection`, `NarrowConnection`, `NarrowObject`, `ConnectionRow`, `ObjectRow`, `ArtifactRow` | `resolveInputs`, one statement each; `Decide` is what follows the last |
| `Transport`, `Verify`, `Stamp`, `Store` | `transportFor`: the cache, the attestation, `stampVerification`, the cache again |
| `Send`, `Answered`, `Abandon` | the call leaves, returns, or is refused or lost anywhere |
| `Create`, `PutRead`, `PutEnable`, `PutWrite`, `Delete`, `SetRestriction`, `DeleteObject`, `SetStatus` | the routes of providers and restrictions, the PUT with its read, its attestation for an enabling and its write |
| `Close`, `Minute` | the process restarts with an empty cache; a stamp becomes old enough to be renewed |

An endpoint's configuration is all that `transportSignature` fingerprints but the stamp;
a stamp is which verification it records.  `attested` (configurations that were observed
to attest) and `held` (what has stood against a call ever since it began) are history.

### Surface

The routes of the HTTP layer that keep state of their own.  Each is a module with its own
tables and its own requests in flight; they meet only in the executor and the job queue,
so `Surface` starts a behaviour in one of them and its states are their sum.

`Identity`: a request is a sequence of statements, each its own transaction.
`PresentSession` to `ValidateCSRF` are authentication by session or key and its three
statements; `CountUsers`, `CountKeys` the last-administrator check; `CreateUser` to
`RevokeUserSession` the administration of users, roles, service accounts and keys, with
the reads (`PutRole`, `PatchUser`, `OnKey`, ...) apart from the writes they lead to;
`Login` to `RecordAuthIdentity` the browser's login, the OIDC callback and the linking of
an identity.  A grant of a request is drawn from `Grant`; `Within` is `HasScope` of each.

`Responses`: `Begin` and `Resolve` (each public id of a request, in order), `Create` and
`Follow` (the provider), `Name`, `Lookup` and `Bind` (each id of the answer), `Answer`,
`Abandon`.  Ids are minted by choice, so that two processes may mint for one answer; ids
that were never minted are left out of the requests, where they are refused.

`Chatbot`: `FindById`, `FindByName`, `Template`, `Resume` or `Open`, `Record` (each
message of the request), `Execute`, `Persist`; the PUT of an assistant or a template is a
read and a write.  `replied` and `off` (what has been withdrawn since before a completion
began) are history.

`Extract`: `ReadTemplate`, `ResolveModel`, `BeginInput`, `FinalizeInput`, `Enqueue`;
`Claim`, `Load`, `ReadInput`, `MarkDispatched`, `Answered`, `BeginResult`,
`FinalizeResult`, `Complete` of an attempt; the templates' and settings' routes and the
defaults written at every start.

### Faulty variants

Definitions marked "Faulty variant" are plausible mistakes (a dropped guard, a missing
reset, a swapped order).  No specification uses them; each shows that a property would
notice, when it replaces the action it varies (`mutants` in `PROJECT.json`).

## Runs

| Run | Instance | What it shows |
| --- | --- | --- |
| `jobs_safety` | one job, two workers, three leases, two faults; 273,154 states | the attempt ledger, fencing and dispatch, and `KeepsContract`: whatever crashes, stalls, drains, lost replies and late writes do, the job's life is one the contract allows, so a settled job stays settled and a cancelled one is not leased again |
| `jobs_liveness` | the same with one fault, under `FairSpec` | every job that is not cancelled settles, and no dispatch stays open |
| `jobs_cancel` | the same without faults | a disagreement, below |
| `adm_pool` | five callers of two tenants, two slots, a queue of two, three calls per tenant; 13,326 states | slots conserved and never idle while someone waits, FIFO, and that a waiter is served |
| `billing_ledger` | three reservations of two keys, a key budget and a tenant budget that starts later, one turn of the period; 113,364 states | no over-admission, liability retained, no deadlock on the budgets' locks |
| `execute_calls` | a plain call with a failing database and a streamed one, one permit, one budget for one of them; 9,910 states | what was sent stays liable, sent calls resolve though the client left, every call ends, and the ledger is used as `Billing` allows |
| `artifacts_store` | one artifact, two processes that start and reconcile again and again, a lease of 1 and a clock up to 2; 2,246,809 states | what `Finalize` acknowledged within its lease is kept until deleted; a tombstone is final; a process that serves has cleared the leftovers |
| `rag_index` | two requests, two workers, two objects of two versions with two generations each, three writing requests, one fault; 468,522 states | a published generation is in the index and its chunk rows are the ones it indexed, one attempt of a job writes, and a search never returns a document tombstoned before it began |
| `connectors_sync` | one request or pass, two workers, two places, two collections, two documents of two contents, two given checkpoints, two jobs of one lease, two windows, two posts, one edit of one field, one fault; 2,865,180 states | above what the operator's last edit left, the cursor has passed over no message that was neither uploaded nor left out by the limit; a hash he did not give is of an upload; and a successful sync leaves no document out that somebody deleted |
| `policy_routes` | two calls of five kinds, one PUT, two endpoints, two attesting configurations, two stamps, two changes; 1,545,457 states | a stamp is a proof, an attesting endpoint is reached over a proven transport, what stood against a call since it began stops it |
| `surface` | the instances below; 822,574 states | revocation, linking and scopes; names of responses; turns of assistants; files, jobs and templates of extraction |
| `extract_retry` | two calls of two actors, one template, two contents, one key | a disagreement, below |

*Bounds.*  Two workers are enough for a stale worker and its successor.  Three leases
are one that goes stale, one that retries and one that follows; `MaxAttempts` is 3 so
that a retry happens and the limit is met.  Two faults allow a lost reply or a stall
followed by a crash.  `LeaseTTL` 1 and `-1` for every past instant tell apart a lease
that is fresh, due and expired, which is all the code compares.  One job is enough for
safety because no statement relates two jobs except the sweep, which treats each row
alone; the theorems below do not bound the number of jobs.  Five callers fill two slots
and a queue of two and leave one to be refused.  In the ledger a bound of 2 against
limits of 3 and 4 makes every second admission compete; charges of 0 and 3 settle below
and above the bound; `MaxNow` 2 with `Period` 2 turns the period once, and the second
budget begins in the middle of the first period.  Two calls over one permit and a budget
for one of them contend for both.  An artifact shares nothing with another but the order
in which a pass visits them, so one is enough, and two processes race for its fence; the
clock meets the instants before, at and after the lease's end.  In `Rag` three writing
requests upload, reprocess or delete and upload again with a second overlapping; two
leases are a holder and its successor; one fault is a lost lease, answer or process, a
failed statement or a cancellation.  With two faults the same properties hold on
3,938,674 states.
The second version is structured and the first is not, so that deletions complete and
fail.  In `Connectors` two documents are one before and one after the cursor, a limit of
one message makes a fetch miss some, and a message of either channel may be below the
cursor of the other.  Two jobs overlap, and the holder of a swept lease works on beside the
other job and writes back over it; one lease of each is enough for that, and what a second
lease of the same job adds is `Jobs`'.  One edit is a PUT, a deletion or a call for a sync,
and a PUT may fall between any two steps of both attempts; of several fields (`MaxFields`)
and of several edits the theorems speak.  The given checkpoints are an empty one and one
with a cursor and hashes that no sync of this source made.  In `Policy` one call races another
for the same transport while one PUT and two changes fall anywhere between their
statements.  `surface`: of `Identity` two administrators, a service account, two keys and
two sessions, with three requests, two at a time, so that an administrator acts on what
another has just changed; of `Responses` two providers with a response id in common, two
requests and ids enough for each to mint one too many; of `Chatbot` two assistants that
may share an external id, two completions and one administrative change; of `Extract` one
template, two calls, one worker and one change.  Each route has one initial state, except
that the settings of `Extract` may or may not be there.

*Deadlock* is checked except in `adm_pool`, where counts that are never given back stop
the pool, and in the runs whose requests or calls are bounded and end:
`execute_calls`, `rag_index`, `connectors_sync`, `policy_routes`, `surface` and
`extract_retry`.

*Symmetry* is used for workers, processes, requests, calls and conversations, in runs
that check no liveness and whose initial states treat the permuted values alike.

*Fairness.*  `Jobs`: the `Run` loop polls, tickers fire, the database commits, handlers
return because each upstream call has a deadline, and time passes; nothing is assumed
of the submitter, and no fault is ever due.  `Admission`: a select with a ready case
returns and permits are released when a response or stream body is closed, which every
HTTP handler defers; no context need end.  `Billing`: PostgreSQL queues the waiters of
a row lock, hence strong fairness of `Lock`, and executes the statements of a
transaction.  `Execute`: a call that can move does, since the attempt timeout and the
stream's idle and wall limits end every wait; a reservation waiting for its locks is
served; the server rolls back lost connections.  Clients need neither leave nor be
patient.

## Disagreements between code and documentation

Two are shown by a run whose one property states what a comment says.

- `jobs_cancel` (`CancelSettles`): a job cancelled while it runs and then requeued, by
  a retry or a release, is never claimed again (`jobs_repo.go:350`) and stays queued.
- `extract_retry` (`RetryGetsItsJob`): every request stores its file as a new artifact
  (`extract/service.go:151`) and a replay must match the job's artifact
  (`jobs/service.go:168-174`), so a request repeated as it was is always refused as a
  conflict and leaves an artifact without a job; `extract/service.go:203-204` speaks of
  "replayed jobs".

Read, and not given a run:

Queue, gate, ledger, artifacts, RAG:

- `Permit.Release` does not lower the tenant's count (`admission.go:118`), so with a
  tenant limit set a tenant is refused for good after that many calls; line 78 says the
  map holds "active + queued occupancy per tenant".  `Release` of `Admission` is the code.
- A client that leaves between `Reserve` and `MarkDispatched` leaves a hold that was not
  dispatched and is not released (`inference/service.go:237`); lines 228-229 say it is.
  `MarkFails` and `Leave` of `Execute` are the code.
- The walk of `Reconcile` takes every writing row whose lease is over for fenced
  (`reconcile.go:109`).  A lease that ends at the very instant the pass read, a row
  inserted after the listing with its lease already over, and a row whose fencing failed
  are not; their files are removed and the writer's commit then succeeds, where lines 2-4
  say that only fenced rows are reaped.  `LeaseProtects` is what remains true.
- `DeleteObjectRows` (`rag_repo.go:466`) deletes neither `parsed_documents` nor `blocks`,
  whose foreign key then keeps the versions.  Deleting a markdown or HTML document fails
  after it was tombstoned, again and again, and every later upload of the same source is
  given the dead row and is never embedded.
- `Claim.Fail` compares the count the claim has already raised plus one with the limit
  (`jobs/service.go:276`), so the last permitted attempt is never made; lines 273-274 say
  "while attempts remain".  No handler marks an error retryable today.
- A streamed request that the provider rejects keeps its bound as an unknown outcome
  (`inference/service.go:248`, `Reject` of `Execute`), where
  `llm/confidential_sdk.go:173-174` says that it is settled.
- `migrations/006_domain.sql:217-219` says that "failure keeps the last published
  generation usable"; `documentSelect` looks at the latest generation only, so a
  document that is being reprocessed, or whose reprocessing failed, is not found
  (`Ready` of `Rag`).  No code records a generation as failed: it stays staging.
- `rag/service.go:654-657` says that a stale attempt cannot overwrite because "the
  generation number must still be the latest".  Nothing compares it: the attempt of an
  older generation replaces the chunk rows of a newer one, and the points of older
  generations stay in the index and are returned too.  `PublishedRowsIndexed` is what
  remains true of the rows.
- Two reprocessings that overlap compute the same generation; the later one stages it
  again, also after it was published, and its job is not run twice, so the document
  stays processing until it is reprocessed again.
- A crash between staging and enqueueing leaves a staged generation without a job.
- `DeleteCollection` drops the Qdrant index before the row; for a collection with
  documents the row then stays, because items refer to it, and the index is gone.

- The fenced writes of the job queue do not look at the lease's age, so an expired worker
  publishes until another claims the job; `jobs/types.go:88-89` says it cannot.  The
  fence keeps this harmless (`ResultIsLastGrant`, `KeepsContract`).
- A budget of a subject named only in `SubjectKeys` counts a reservation while it is
  outstanding and no longer when it settles (`billing_repo.go:236-259`).  The one caller
  of `Reserve` names the tenant only, whose budgets count everything; `NoOverAdmission`
  leaves such subjects out.
- A `.part` file whose row is tombstoned before the file is removed (a crash between
  fencing and reaping, or within `Delete`) is never removed: the walk skips `.tmp`, and
  the row-driven repair looks at the durable path.
- The comment at `billing/service.go:416-417` calls the liability window the earlier of
  two instants, and the code takes the later, which is what a budget that begins within a
  period needs.

Connectors:

- A PUT that names another channel (`service.go:240-264`) keeps the checkpoint, and its
  cursor `slack_latest_ts` (`service.go:731`) is not keyed by channel: what the newly named
  channel has at or below the old cursor is never asked for, so it is neither uploaded nor
  in `missed`.  A PUT of another collection keeps cursor and hashes too, and a PUT may give
  any checkpoint.  The run reaches these losses; `CursorCovered` promises nothing at or
  below `floor`, and `HashedWasUploaded` nothing of the hashes in `told`.
- A PUT validates a new type and `UpdateConnection` (`rag_repo.go:52-57`) does not write it:
  the type of a source never changes, and the answer shows the old one.
- A sync writes back the row it read when it started, over what another sync saved and
  over an edit an operator made meanwhile, which is undone; an overlapping older sync
  leaves older content under the hash of newer.
- The key of a sync does not contain the collection, so a sync asked for after only the
  collection was changed may be answered with the finished job of before.
- A manual sync whose row has not changed is given the finished or failed job of the last
  one, since config and checkpoint make its key; comments at `connectors/service.go:289-300`
  promise a new attempt.  Two passes of the scheduler in one window may make two jobs.
- Messages beyond Slack's limit are passed over for good (`missed`), and so is a message
  that an operator deleted, though `rag_repo.go:491-492` says that "the next sync must
  recreate it"; a Slack sync without news drops the stored hashes.

Policy and endpoints:

- A PUT, or a stamp, that read the row before a DELETE or an edit undoes it, since both
  write whole rows (`providers.go:184-191`, `service.go:628`).
- Nothing applies ACL snapshots, so their check always denies; nothing sets a
  conversation's restriction; the snapshots requests carry are always empty.
- `SetRestriction` overwrites, although its comment (`source_repo.go:790`) says that
  "widening is not expressible here".

Identities:

- Two administrators who disable or demote each other at the same time both pass the
  last-administrator check (`identities.go:109`), and the tenant is locked out, though the
  comment there says that it "can never lock itself out".  The steps are in `Identity`
  (`CountUsers`, `CountKeys`); no property speaks of it, and `ScopesAreInherited` does not.
- A PUT of a key that read it before its revocation writes it back alive
  (`UpdateAPIKey` of `Identity`); `keys.go:107` says that revoking "immediately denies".
- A callback consumes challenges of either kind, so it can use up a linking challenge;
  a login that overlaps a disabling leaves its session unrevoked.

Responses, assistants, extraction, limits:

- A crash between the provider's deletion and `MarkDeleted` leaves the name; items of a
  deleted response keep theirs; a resumed stream names items under no parent, so
  differently from a retrieval.
- The answer of a stream that cannot be stored is only logged, where
  `chatbot/service.go:389-391` says that "a lost assistant message is never reported as a
  successful completion": `AnsweredIsKept` is about unary completions.  A PUT of an
  assistant that read it before it was disabled enables it again.
- The defaults of extraction are written at every start and undo edits of theirs; a PUT
  of a template deleted meanwhile brings it back; resetting the defaults deletes the
  tenant's own templates that are marked default.
- Minute, hour and day limits of a key share one window (`ratelimit.go:16` describes a key
  with the window in it, `app.go:311-326` passes the same for all three), and a fetch of
  models that overlaps an invalidation stores what it fetched; nothing invalidates.

## Proofs

The theorems hold for every set of jobs, workers, reservations and budgets and for all
limits that satisfy the named assumptions of the modules (`BoundsAssumption`,
`NullAssumption`, `DurationAssumption` of `Jobs`, `ClockAssumption` of `Artifacts`,
`RagAssumption` of `Rag`, `PolicyAssumption` of `Policy`, `SurfaceAssumption` of `Surface`,
`ConnectorsAssumption` of `Connectors`, `LedgerAssumption` of `Billing`, which only
`BudgetsHold` needs, `LimitAssumption` of `Admission`; `Execute` has none of its own).

`JobsProofs`
- `TypeCorrect`: `TypeOK` is inductive, one lemma per group of actions.
- `LedgerCorrect`: `AttemptLedger` is inductive over `TypeOK`.  Terminal transactions
  preserve it because they move row and attempt together (`SettleLedger`); a grant
  because it closes what is open before it opens the next (`GrantLedger`).
- `NoRedispatch`: `NoSilentRedispatch` alone is not inductive, since it says nothing of
  what the worker remembers while its lease is current.  `KnownEverywhere` adds
  `DispatchRemembered`: a remembered dispatch belongs to the last lease and is on the
  row while the job runs, so neither the claim (`RunnableUndispatched`) nor a release
  can lead to another lease.  `DispatchIsRemembered` is the same invariant.
- `Fencing`: `ResultIsLastGrant` from the ledger; `SettleResult` is the step that
  publishes.
- `ContractKept`: the queue implements `JobContract` under the mapping of `Jobs!C`.  One
  lemma for each of the contract's steps says by what becomes of one row that the step is
  seen (`SeenSubmit` to `SeenRemove`; `SeenLose` for the rows the sweep finds), and one for
  each group of the queue's actions that it writes rows in one of these ways or leaves
  them alike (`Unseen`).  The invariants above are what makes it true: a lease that is
  granted again has no dispatch on its row (`GrantKeeps`), and a terminal write finds its
  lease the last (`SettlesKeep`).

`BillingProofs`
- `SerialAdmission`: the invariant `LockInv` says that no budget is locked twice
  (`Exclusive`) and that a transaction that reads has locked all budgets that apply to
  it (`ReadsLocked`); two readers of one budget would both hold its lock.
- `RetainsLiability`: the action property needs `OpenIsNew`, that a reservation with an
  open transaction has no row yet, so that the insert overwrites none.
- `BudgetsHold`: the invariant `BudgetInv` follows a Reserve through its two reads of a
  budget.  After the first, what was read outstanding and what is settled by now cover
  what the budget admitted (`Covered`); a settlement in between only moves an amount from
  the one to the other, and is counted twice at worst.  After the second, a budget that
  passed has room for the bound (`Room`), and keeps it until the commit because no other
  Reserve that the budget applies to is past its locks (`LockInv`).  That what a
  reservation takes of a budget only shrinks, at its settlement and at the turn of a
  period, is `ExposureFalls`.  The sums run over finite sets of whatever size: the provers have no
  induction over an operator, so the lemmas on sums (`SumWithout`, `SumCovered`, ...) each
  take a smallest set that would contradict them, which exists because strict inclusion
  is well-founded on the subsets of a finite set (`LeastSet`).

`ExecuteProofs`
- `LedgerKept`: every action of a call is an action of `Billing` or leaves the ledger
  alone; the executor implements the ledger's specification.
- `SentStaysLiable`, `OnlySentIsCharged`: the invariant `CallInv` ties a call's phase to
  its row: before the stamp nothing was sent, from the stamp on the row is liable, and
  only the two settling steps, which follow a send, record usage.
- `SentIsResolved`: a call that has sent ends by `Settle` or `MarkUnknown` (`SentReturns`),
  which resolve its row unless its database fails, and nothing writes the row of a call
  that has ended (`DoneStays`).
- `SlotsAreConserved`, `FirstComeFirstServed`, `PoolTyped`, of the gate in `Admission`: the
  invariant `PoolInv` says that those who wait are in line once each (`Lined`) and that
  the counters count the line and the slots in use (`Counted`).  With a slot idle only
  while nobody waits, `grantLocked` grants one caller at most (`HandsOn`) and a
  cancellation in the queue none (`LeavesLine`), so that each step is one of six small
  moves (`PoolSteps`).  Of two that stay in line none overtakes the other, whether the
  head leaves or somebody in the middle (`NoOvertaking`).

`ArtifactsProofs`
- `NoDataLoss`: `LeaseProtects` needs to know what everyone is about to do.  `Good` ties
  row, file and writer of an artifact together: a writer that renamed finds its bytes in
  place while its lease runs, and has synced them before it commits.  `Pass` says that
  what a pass has read is still good when it acts on it: what it reaps is tombstoned,
  what it removes in the walk is `Doomed` (no commit within the lease can need the file),
  what it found missing stays missing.  `Grows` lists what any step may do to an
  artifact; from it `PassKeeps` shows that other actors do not falsify a pass's reading.
- `FenceIsFinal` is a part of `Grows`; `ArtifactTypes` is inductive by itself.
- `StartupClears`: `Clears` says at each point of a pass that a leftover's bytes are gone,
  still ahead of the pass or the cause of an error, which keeps the process from serving.
  That they cannot come back needs that the writer of a leftover has ended (`EndedStays`);
  that the walk removes them, that their row is a tombstone or has a lease that expired
  before the pass began, so that no other process's fence can save them.

`RagProofs`, from `RagAssumption` alone and over any finite or infinite set of requests
and workers: the invariant is `Types`, `Owned`, `ByLast`, `Indexed`, `Tombstoned`.
- `AuthorIsUnique`: everything written is by the last lease of a job that is *spent*
  (final, or leased and dispatched), and a spent job is not leased again (`ByLast`,
  `QueueKeeps`).  The one step that makes a job leasable again is a release; it is made
  by the holder of the last lease (`Owned`), who has not written yet, so nobody has
  (`ByLastStep`).
- `PublishedAreIndexed`: an attempt about to publish has its points in the index or
  somebody deleted them since (`Indexed`), and an object without a row has neither
  generations nor chunk rows for the next object to inherit.
- `PublishedRowsAreIndexed` follows from the two: the lease of the rows and the lease of
  the points are both the job's last.
- `DeletedAreNotServed`: tombstones are of identifiers given out, a new object's is
  fresh, and a search resolves only an object that is not dead (`Tombstoned`).

`PolicyProofs`, for any number of endpoints, calls and edits: the invariant is `Types`,
`Proofs`, `Authority`.
- `StampsAreProofs`: a stamped row, the row that a PUT is about to write and the row a
  verified call is about to stamp are all of configurations that attested (`Proofs`).  A
  stamp that writes one column only would not keep it: the row may have a new
  configuration by then.
- `SentAreAssured`: a transport in the cache is proven or belongs to a configuration that
  promises nothing, and a call keeps what it knows of its own; together with the stamps
  it says where a call under a demand for high assurance may go.
- `AuthorityIsHeld`: what has stood against a call ever since it began (`held`) was there
  at the moment the call read it, whichever moment that was.  `Authority` says of each
  step of the reading which subjects are covered by what has been collected so far
  (`Covers`), and which obstacles a passed check rules out (`Cleared`, `Looked`); `held`
  only shrinks.

`ConnectorsProofs`, for any places, collections, given checkpoints, documents, jobs and
workers, any bounds, and PUTs of any fields at once: the invariant is `Types`,
`Row`, `Posted`, `Fresh`, `Patched` of each request, `Sound` of each attempt.
- `CursorIsCovered`: it is not enough that the row is right (`Row`): what requests and
  attempts read long ago is written back, so every row they hold must agree with what was
  uploaded (`Agrees`), and of an attempt everything up to its new cursor is reached or
  still to be done (`Advanced`).  Each row carries the `floor` and `told` it was read or
  patched with, and agrees with them: an edit of place, collection or checkpoint sets the
  floor to the cursor it leaves, so nothing is then passed over (`PutAgrees`), and any other
  patch leaves both.  That a fetched message has the content that is uploaded
  rests on messages being posted in order and not edited (`Posted`).
- `HashedIsUploaded` follows from the same two; a skip adds a hash the row had before, told
  or uploaded.
- `SyncIsComplete`: what a look at the collection found was there since the attempt began
  (`Present`); an upload by one attempt serves all.
A row of a deleted source is never written back (`Written`), so that agreement is asked
for only while the connection exists; `Fresh` says that nobody holds a row before there
is one.

`SurfaceProofs`, for any identifiers, any tables that the `Constants` of the parts allow to
begin with and any number of requests.  Each part has an inductive invariant over its own
variables, which the steps of the other parts leave alone, and lemmas that leave each
action with the one request it moves (`OneMoves` and its like), because rows only change
in ways that keep the others sound.

Responses (`IInv`: `Types`, `Rows`, and `Sound` of each request):
- `NamesDurable`: a name in an answer has a row with the endpoint and the id it stands for
  (`Exposed`), and rows have keys of their own (`Rows`): of two requests that bind one id,
  the one that comes second finds the row of the first.
- `SentHome`: the first reference decides the endpoint and, of a priced request, the others
  agree with it (`Resolved`); rows keep their owners and endpoints (`Grows`).
- `RetiredGone`: an answer to a deletion follows the deletion (`Deletes`), and what is gone
  at the provider stays gone (`Grows`).

Extraction (`XInv`: `XTypes`, `JobRows`, `Asking` of each request, `Doing` of each attempt).
A file's content is fixed when it is begun and it only gets final (`Keeps`), so that what a
request or an attempt has seen of it stays true.
- `JobsReadable`: a job names an input that is whole, and a result that is once it is done
  (`JobRows`), because both are finalized before the statement that names them.
- `AcceptedOwn`: what a request is told, also on a replay of its key, is a job of its own
  actor, content, template and model (`OfJob`), and no statement changes these of a job.
- `WithdrawnUnsent`: an attempt that has loaded its template found one that was there
  since the attempt began (`Doing`); the set of what is withdrawn all along only shrinks.

Assistants (`ChatInv`: `ChatTypes`, `Logs`, `OneWriter`, `Reports`, and `Wrote` and `Serving`
of each completion).
- `AnswersKept`: a completion counts how much of its turn the conversation has (`Wrote`),
  and nobody else writes to that turn (`OneWriter`), so that an answer finds all the
  messages it answers, and what was reported is whole and stays so (`Reports`).
- `WithdrawnUnserved`: each row a completion goes on with was there when it was read, hence
  not withdrawn all along (`Serving`).

Identities (`IdentityInv`: `IdentityTypes`, `Grants`, `Links`, and `Allowed` of each request).
- `RevokedStaysOut`: sessions stay revoked, secrets stay replaced and challenges stay used
  (`OneWay`), so a request that came late with a credential finds it so at its first
  statement (`Refused`).  A touch that wrote back the whole row it read would break it.
- `BoundByHolder`: a link has behind it a used challenge for its subject, proven by the
  account it leads to (`Links`, `Proven`); a request between proof and link carries what
  it has proven (`Confirms`).
- `GrantsInherited`: no role and no key grants what the first rows did not (`Grants`); of
  the requests it takes that what they hold between their statements is inherited too
  (`Carries`), the scopes of a caller as well as the key row that is about to be written.

Only model-checked: everything about liveness (five properties of four runs).  The
provers have no ENABLED and no fairness.

## What is not modelled

- Payloads, prompts, templates, prices and their units, rounding and 128-bit charges:
  data to the protocols here.  A charge is a member of a small set, a missing price an
  abort.
- Of policy and endpoints: conversation restrictions, snapshots of requests and ACL
  snapshots, which nothing in the program fills; what a payload must be to count as
  bounded; the closing of a replaced transport that others still use.
- The wire format of transports: the executor's model draws its outcomes (an answer with
  or without usage, a rejection, a broken connection).
- PostgreSQL itself: statements are atomic, row locks exclusive, READ COMMITTED
  snapshots per statement.  Deadlocks between the canonical and the attribution rows of
  one reservation, which the server breaks, are below the level of the model.
- Of the artifact store: scratch directories, path validation, files that are not the
  store's own, removals that a power loss undoes, and clocks that differ between hosts.
- Of RAG: text extraction, chunking and ranking, collection settings, objects shared by
  several collections, artifacts that are missing when an attempt reads them (an error
  of the attempt), and revoked readers (a refusal like any other).
- Of connectors: credentials, the providers' formats and pages, how a message becomes a
  document (one without text becomes none), documents given in the config itself, and a
  cursor finer than the messages it lies between.
- Of identities: passwords and their hashing, the expiry of keys, sessions and flows (a
  request may find a session `Lapse`d at any time), delegations, and tenants other than
  one, whose rows no statement relates.
- Of responses, assistants and extraction: payloads, the events of a stream, rendering,
  schemas and the shape of results.  No route deletes a conversation.
- The rate limiter and the model cache are each one map under one mutex whose calls do
  not interleave; transports, configuration and the dashboard keep no protocol state.
