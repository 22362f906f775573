# SAEOS: specifications, model checking and proofs

TLA+ specifications of the SYJ Autonomous Enterprise OS, a multi-tenant
Starlette server on SQLAlchemy (SQLite for development, PostgreSQL with
row-level security in production) with an optional Celery worker and Redis.
The modules follow `src/app`; every definition that stands for code is listed
with its lines in `PROJECT.json` under `map`.

    tlasany WorkflowEngine.tla                             # parse
    tlc -workers 2 -config EngineRaces.cfg MCWorkflowEngine # model-check
    tlapm WorkflowSafetyProofs.tla                         # check proofs

## 1. The system

### 1.1 Components

| Component | State it keeps | Operations | What makes it correct |
|---|---|---|---|
| Workflow engine `app/workflows` | `workflow_runs`, `workflow_step_runs`; the locals of each execution | run, get, resume; the step loop | a step runs once, in order, for a user who may; nothing runs past an escalation nobody approved; a run always comes to rest |
| Celery worker `app/workflows/celery_app.py`, `tasks.py` | the queue of the broker | take a task, execute it | same as above, out of the request |
| Approval queue `app/approvals` | `approval_requests` | create, list, decide | a verdict is given once, by an owner, and is recorded |
| Audit log `app/audit` | `audit_logs` (append-only) | `record_audit` | every change has its entry, every entry its change |
| Audit retention `scripts/purge_audit_logs.py` | `audit_logs`, its trigger | purge, dry run | deletes what is old, nothing else, and says how much |
| Rate limiter `app/ratelimit` | buckets in memory, or counters in Redis | `check` | no more than a multiple of the quota in a window; no refusal within it |
| Tenant context `app/core/database.py`, row policies in `alembic/versions` | settings of a transaction on a pooled connection | `set_tenant_context`, `set_platform_admin_context` | a tenant sees its rows and no others |
| Authentication `app/auth` | `users`, `tenants` | register, login, `get_current_user` | one founder for a slug; a token works in its own tenant |
| Permissions `app/permissions` | `permissions` (shared), `roles`, assignments | list, create, assign; seeding of the catalog; the check | what an owner assigns is in force, recorded once, and honoured |
| Tenancy `app/tenancy` | `tenants` | resolve a slug | a request belongs to one tenant |
| Admin pages `app/admin` | cookies only | dashboard, three forms, login, logout | as the permissions API; forms need the CSRF token |
| Platform administration `app/platform` | none | five cross-tenant reads | the bypass stays within its own session |
| Departments `app/departments`, `app/api/v1` | none | invoke; the escalation rules | an answer that matches a rule has its request and both audit entries, one that does not has no request |
| AI gateway and providers `app/ai_gateway` | none | generate, embed, with fallback | the first provider that answers is used |
| Knowledge base `app/knowledge` | `knowledge_chunks`, twice: JSON and pgvector | ingest, query, `top_k` | a query lists the nearest of what was ingested, on either back end |
| Dashboard `app/dashboard` | KPIs, deals, transactions | record, list, update a stage, summaries, briefing | totals, lists and audited stages agree with the rows |
| Event bus `app/core/events.py` | subscribers | none is called | - |

### 1.2 How they interact

One asyncio event loop serves every request of a server process; there are
several server processes and Celery workers, and all share the database (and
Redis).  So the interleavings that matter are those at an `await`: between two
statements of a session, between two commits, around a call to an AI provider.
Every handler first calls `get_current_user`, in a session of its own.  The
engine and `invoke_department` create requests in the approval queue through
`approvals/service.py`; a resume reads the verdict from the table.  Everything
that changes something calls `record_audit`, after its own commit.

### 1.3 What is hard

* **Check, await, act.** `resume_workflow` checks ESCALATED in one transaction
  and sets RUNNING in another; `decide_approval` checks PENDING and writes
  unconditionally; `register` looks the slug up and then inserts.
* **Several commits for one operation.** An escalation is a request, a row and a
  status, and an audit entry, in three commits; a process can stop between any
  two.
* **A commit ends the tenant context.** `set_config(..., true)` is local to the
  transaction, and service functions commit on behalf of their callers.
* **Hand-over to Celery.** A task is acknowledged when it is taken.
* **Two copies.** A chunk is stored in one commit and becomes searchable, on
  pgvector, in the next.  Embeddings of a fallback model share the table.
* **Several selects, one page.** Every select of a dashboard page has its own
  snapshot.
* **DDL in a live system.** The purge drops the trigger it relies on.
* **Two clocks.** The limiter in Redis reads the local clock before it awaits
  Redis, which expires counters by its own.

Every such place is listed in `PROJECT.json` under `hazards`, at its line, with
the properties that watch it.

## 2. The modules

| Module | Models | State and actions |
|---|---|---|
| `Approvals` | `app/approvals` with its audit entries | `approvals` is the table, `clerk` the locals of each request in flight, `audit` the log. `CreateRequest`, `DecideRead` (up to the check), `DecideWrite` (assignments and commit), `ClerkAudit` (`record_audit`), `ClerkAbort` (the handler stops between commits) |
| `WorkflowEngine` | `app/workflows`, on top of `Approvals` (it EXTENDS it and shares `approvals`, `audit`) | `runs`, `rows` are the tables, `queue` the broker, `proc` the locals of every web request or worker. `StartRun`, `Enqueue`, `WorkerTake`; a step ends in `StepClean`, `StepFails` or `StepEscalates` followed by `CommitEscalation`; `Complete`; `AuditRun`; a resume is `ResumeReadRun`, `ResumeReadApproval`, `ResumeReadSteps`, `ResumeRefused` or `ResumeSetRunning`; `Abort` stops any of them |
| `EscalationGate` | what the engine promises of a run, without processes | `phase`, `done`, `flagged`, `gate` of a run: every flagged step stops it |
| `WorkflowRefinement` | the mapping from the engine to the gate | `ImplementsGate` |
| `RateLimiter` | what both limiters share: the quota, the window, the clock | `now` |
| `MemoryRateLimiter` | `InMemoryRateLimiter.check`, which has no `await` and so is one step | `buckets`; `admitted` is history |
| `RedisRateLimiter` | `RedisRateLimiter.check`: `ReadClock`, `Incr`, `Expire`, one step each, with the clock and other calls in between | `counters` in Redis, `call` in flight |
| `Endpoints` | what every endpoint asks of the database, in order | constant sequences of statements, one definition for every handler and service function; helpers of the code are helpers here |
| `TenantSessions` | sessions, pooled connections, the two contexts and the row policies, running the sequences of `Endpoints` | `conn` holds the settings of each connection, `req` each request with its session; one action for each kind of statement |
| `AIGateway` | the registry, `routing.yaml` and `_walk_chain` | operators: who may end up answering a call, for every set of providers that fail |
| `KnowledgeBase` | `app/knowledge`, on top of `AIGateway` | `chunks` is the table with its vector column, `rag` the locals of each request. `BeginIngest` (up to the embedding), `InsertChunk`, `SaveVector`, `AuditIngest`; `BeginQuery`, `Search`. `TopK` is `top_k`: the set of answers each back end may give |
| `Departments` | `invoke_department` and the rules of the registry, on top of `KnowledgeBase` (it EXTENDS it and retrieves from its `chunks`) | `inv` holds each invocation with what it has written. `BeginInvocation`, `Retrieve`, `Generate`, then `RecordFailure`, or `RecordInvoke`, `CreateEscalation`, `RecordEscalation` |
| `Dashboard` | `app/dashboard`, on top of `AIGateway` | `rows` are transactions, of either sign, and KPIs in the order of their commits, `total` the sum of each kind, `deals` the stages, `moves` what the audit log says of deals, `visit` the requests. Three actions for a record or a move; a page is `BeginPage` and one `ReadNext` for each select |
| `AuditRetention` | the purge script against the trigger and the application | one action for each SQL statement; `trigger` and `audit_logs` are what is committed, `script` and `writer` the transactions; `Admitted` and `Alone` are the table locks |
| `Access` | roles, assignments and the check of a permission in one tenant | `links` are both association tables, `trail` the audit entries, `call` the requests. `SeedRead`, `SeedCommit`; `Load`, `Save`, `Record` for an assignment; `use`, `ReadRoles`, `ReadPermissions` for a request that takes a permission |
| `SessionRules` | in which order an endpoint has to make its statements: the context before a protected table, the audit entry after a change | operators on a sequence of statements |
| `EndpointRules` | that every sequence of `Endpoints` keeps to these rules | two assumptions on constants, which TLC evaluates in the run `Records` |
| `MCWorkflowEngine`, `MCRateLimiters` (both limiters, with the choice of `get_rate_limiter`), `MCMemoryRateLimiter`, `MCTenantSessions`, `MCRecords` | instances for TLC | |
| `ApprovalsProofs`, `WorkflowProofs`, `WorkflowSafetyProofs`, `WorkflowSerialProofs`, `MemoryLimiterProofs`, `RedisLimiterProofs`, `TenantSessionsProofs`, `RecordsProofs` | theorems | |

**Grain.** In `WorkflowEngine` and `Approvals` one action is what a process does
up to its next commit, or to its next read of another table.  In
`TenantSessions` one action is one statement (consecutive selects in one context
are merged: nothing tells them apart).  `MayRunFrom` and the other checks before
the first write are part of the action that makes it.

**What a step row remembers.** `StepRow` has three fields that are not columns:
whose request ran the step, which output it was given, and which approval its
resume relied on.  Properties need them; no action reads them.

**Data left out.** Titles and descriptions, wording of errors, password hashes,
tokens.  In `WorkflowEngine` an answer escalates, fails or does neither, in any
case; in `Departments` a text is the set of rules whose keywords it contains.  A
vector is the chunk's place in the order of similarity to the one question
everybody asks, and the model that made it: the order holds among vectors of
one model, vectors of two models compare in any way if they have one length and
not at all otherwise.  An amount is an integer, of either sign as
`app/dashboard/router.py:194-197` takes it; cents, rounding and `nan`, which `float`
accepts too, are left out.  A sum is a running total, since rows are never changed
or deleted.

**A stop.** Every module with requests lets one stop between two awaits
(`Abort`, `ClerkAbort`, `CutQuery`, `CutInvocation`, `CutVisit`, `CutCall`, `FailPurge`): its
client has gone, or the process has.  What is committed stays.

**Two databases.** `RlsEnforced` in `WorkflowEngine` is TRUE for PostgreSQL under
the role of `scripts/provision_postgres_role.py`: `create_approval` commits, the
tenant context is gone, and the statements after it in the same session are
refused (`EscalationLosesContext`).  `TenantSessions` is about PostgreSQL only: on
SQLite both contexts do nothing.

**A connection with somebody's settings.** The comment at
`app/core/database.py:63-76` reports a pooled connection that kept the bypass of
an earlier request, and why `set_tenant_context` clears it.  `GiveBack` allows
that: a connection comes back clean or, up to `MaxLeaks` times, as it was.

## 3. What is checked

Every module of components has its type invariant in a run, except
`RedisRateLimiter`, whose type invariant is proved instead (`TypesHold`).  Deadlock is
checked in `TenantSessions`.  In the others the system may stop: identifiers, the
clock or the requests come to an end.

| Run | Bounds | States | Shows |
|---|---|---|---|
| `EngineRaces` | 2 handlers, 1 worker, 1 clerk, 1 run of 3 steps, 2 requests, 2 users of whom one may not run the first step, 1 stop | 1.1 M | with requests that overlap in every way: `StepsPermitted`, `ResumesAuthorised`, `FreshRunInOrder`, `EscalationHasRequest`, `AuditTellsTheTruth`, `WorkflowAuditComplete` |
| `EngineSerialised` | same, 2 clerks; nobody resumes a run being executed or decides a request being decided | 90 k | `StepsInOrder`, `CompletedRanEveryStep`, `NoStepPastUnsigned`, `StoppedIsQuiet`, `TerminalIsFinal`, `DecisionIsFinal`, and the refinement `ImplementsGate` |
| `EngineLive` | 2 handlers, 1 worker, 1 clerk, 3 steps, the owner, no stop, fairness | 97 k | `RunSettles`, `DecisionsGetAudited` |
| `EnginePostgres` | 1 handler, 1 worker, 2 clerks, 2 steps, row policies in force, 1 stop | 252 k | `ApprovalsTypeOK`, `VerdictsAccounted`, `ApprovalAuditBacked`, `ApprovalAuditComplete`, `NoStepPastUnsigned` |
| `RateLimiters` | quota 2, window 4, time to 8. In memory: one key. In Redis: 3 calls in flight, lag up to 3, 1 stop | 2.0 M | `BucketTypeOK`, `BurstBound`, `DeniedOnlyOverQuota`; `DoubleBurst`, `DelayedBurst`, `CountersExpire` |
| `TenantSessions` | 2 requests to any endpoints, 2 tenants (one to be registered), 2 connections, 1 leak | 1.1 M | `TenantsApart`, `HiddenOnlyAfterSave`, `ChangesAudited`, `OneFounder` |
| `Records` | four parts in turn. Knowledge and departments: 3 requests, at most one of them a query (an invocation counts as two), 2 chunks, 2 back ends, 3 models that fail in every way or with the local one steady, `k` in -1, 1, 2, an index that looks at 2 vectors, with none or 2 of other tenants, 4 departments. Dashboard: 3 requests, at most one of them for a page, the others to one table, 1 deal, 3 stages, amounts 1 and -1, lists of 1, 2 instants. Retention: 2 purges, 3 writers, 4 days. Access: 3 requests, the founder and one other, 1 role, 1 permission, the catalog complete or not | 0.8 M | `RecordsTypeOK`, `BestOfWhatWasStored`, `SteadySearchNeverBreaks`, `InvocationsAccounted`, `TotalsStand`, `LastWordStands`, `RemovalsAccounted`, `GrantsAccounted` |
| `DoubleResume`, `ApprovalsOverwritten`, `EscalationOnPostgres`, `PermissionAssigned`, `MemoryBoundary` | the least that shows it | | section 5 |

**Why the bounds are enough.**  One run suffices for the engine: no statement
of it reads another run, and rows of other runs are told apart by their
identifier.  Three steps have a first, a middle and a last one, so an escalation
can come before, between and after others and a late resume can land a step too
far.  Two requests are needed for a run that escalates twice.  Two handlers and a
worker give every pair of operations on one run; `DoubleResume` and the hazards
that need a third execution are within reach of the same three processes.
For the limiters a window with a middle and more calls than twice the quota is
enough for each boundary, and the theorems have no bound.  `RateLimiters` takes
callers of Redis as interchangeable and leaves out of its view the accepted calls that are
a window old: what is yet to come cannot stand with them in a stretch shorter
than a window, and a stretch too full is found when its last call is accepted.
With three callers 7 of the 8 calls that `DelayedBurst` allows are accepted in one
window; with four, a longer exploration than the run's, all 8 and never 9.
For sessions, two requests are a tenant and whoever had the connection before
(or registers the same slug); the theorems have no bound.

In `Records` the parts share no variable, so a run of each in turn is a run of
all.  Two chunks are a nearer and a farther one, and three requests two ingests
and a query, or an ingest and an invocation; the four departments are one without
a rule that matches, one that always escalates, one with a rule of its own and
one with the default rules.  A second query or page would add nothing, as nobody
sees one, and the three tables of the dashboard share no state.  A page and two records
can overlap at each of its selects, and a list of one row is full with two.  Two purges can
wait for each other, and three writers leave old and new rows for both.  A right
takes two assignments, so three requests make it and use it.

**Fairness** (`EngineLive` only).  Weak fairness of every process step and of a
clerk that has something left to do: the event loop resumes each handler whose
`await` is over, and a provider's answer is bounded by its HTTP timeout.  Weak
fairness of a worker that can take a task.  Clients owe nothing: nobody has to
start, resume or decide.  With a stop allowed `RunSettles` is false by
design of the code (no execution is restarted), so the run allows none.

### Properties worth a remark

* `ResumesAuthorised` and `StepsPermitted` hold even when resumes overlap: a
  double resume repeats steps but runs none that no owner approved.
* `AuditTellsTheTruth`: under races a run can be recorded as completed twice, or
  as failed and completed; each entry is true of some execution.
* `HiddenOnlyAfterSave`: a row of its own tenant is hidden from a request only in
  a session in which a *service function* has committed.  What handlers and
  `record_audit` commit themselves always sets its context again.  The two places
  left are `assign_permission_to_role` (and the admin page) and the escalation of
  a workflow step.
* `BurstBound` is what the limiter in memory keeps: fewer than twice the quota in
  less than a window.  `2 * Limit - 1` is reached: one early call, `Limit - 1` just
  before the bucket ends, `Limit` in the fresh one.  It is weaker than what
  the code says of itself (`NoBoundaryBurst`): see `MemoryBoundary` in section 5.
* `CountersExpire`: a stop between INCR and EXPIRE leaves a counter that never
  expires, and the property counts these.  There is one at most for each stop, and none
  comes of overlapping or late calls, several of which may start one counter.
* `DelayedBurst` is the price of a command that reaches Redis after the counter
  it meant has expired: it starts that counter again.  Up to `5 * Limit - 2` calls
  then fit in less than a window.  Three times the quota, which one would guess
  (three windows are touched), is not a bound: a window of 4 and a quota of 2
  let calls through at 5, 6, 6, 6, 8, 8, since the counters of two windows can
  each be started twice.

* `BestOfWhatWasStored` has two parts.  Always, on either back end and for any `k`: a
  list goes from near to far, and is no longer than `k` unless `k` is negative.  And
  while the index holds no more vectors than a scan looks at, those of
  other tenants included: whatever is ingested meanwhile, a chunk whose client
  had its 201 before the query began is listed or `k` others are, none known to
  be farther; a negative `k`, which in memory cuts the list at its end, cuts the
  farthest.  Beyond that size an HNSW scan followed by a filter may miss
  anything, and the property asks for nothing more.
* `SteadySearchNeverBreaks`: vectors of two lengths meet only after a fallback.
  After one, a query of that area in memory raises an unhandled `ValueError`
  for good; the condition `setup.steady` is the point of the property.
* `TotalsStand` has two halves.  `OverstatedByRefundsOnly`: income is summed before
  expenses, each with its own snapshot, so the net of a page need not be the net
  of any moment.  While amounts are zero or more a page can only miss an
  income and count a later expense.  But amounts may be negative: a refund booked as
  a negative income and committed between the two selects is missed, and the page shows
  more than there was at the second; a negative expense committed there is counted,
  and it shows more than there was at the first.  With one of each it shows more than
  there was at either, which the run reaches.  The property says that nothing else
  overstates it; it rests on the order of two statements that no comment defends.
  `CountedThenListed`: what is in the totals is in the list of recent transactions,
  or newer ones fill it.
* `LastWordStands` excludes deals with updates that overlapped or were cut before
  their audit entry: there the stage and the log do part.  It includes the save
  that writes nothing because the stage is what was loaded.
* `RemovalsAccounted` is an action property: rows leave the log only in a commit
  that brings the completion record with their number, which holds because
  the script is one transaction and the lock keeps other sessions out while
  the trigger is down.

* `GrantsAccounted`: the audit log says exactly which assignments are in force.  It
  rests on the primary keys of the two association tables: both of two equal
  requests pass the check in Python.  A refusal of somebody entitled cannot come
  of the roles and their permissions being read by two selects, because
  nothing is ever taken away.

## 4. What is proved

TLAPS checks these for every value of the constants.  The assumptions are the
named ASSUMEs of the modules: constants of the right kind, null values outside
of the sets they stand beside, owners among the users and permitted everything
(`rbac.py`), a positive quota and window, scripts that end in the close of
their session, finitely many sessions beside a purge (its report counts the rows
they wrote).

| Theorem | In | States | Argument |
|---|---|---|---|
| `ApprovalsCorrect`, `QueueCorrect` | `ApprovalsProofs`, `WorkflowProofs` | `[]` of types, `VerdictsAccounted`, alone and under the engine | `ApprovalsInv` adds that a clerk about to write an audit entry has committed what it says |
| `QueueAuditBacked`, `QueueAuditComplete` | `WorkflowProofs` | `ApprovalAuditBacked`, `ApprovalAuditComplete` | the same, and that a change without its entry has a clerk that owes it or one that was stopped; the engine writes no entry of the queue |
| `SerialDecisionsFinal`, `EngineDecisionsFinal` | `ApprovalsProofs`, `WorkflowSerialProofs` | if `Serialised`, `DecisionIsFinal` | no two clerks hold the same request, so what one read as pending still is; the engine creates requests and changes none |
| `TypeCorrect` | `WorkflowProofs` | `TypeOK` of engine and queue | `BaseInv`: types and what the queue guarantees |
| `PermissionsHold` | `WorkflowSafetyProofs` | `StepsPermitted` | `PermitInv`: a process bound for a step may run it and all after it, as the check covers the rest of the workflow and an index only grows; a queued task starts at 0 |
| `ResumesNeedAnOwner` | `WorkflowSafetyProofs` | `ResumesAuthorised` | `TicketInv`: the request a run names is about this run and a step that has a row; rows are never deleted, so the number of rows read later is beyond that step |
| `FreshRunsInOrder` | `WorkflowSafetyProofs` | `FreshRunInOrder` | `FreshInv`: until a run is first escalated, one process or one task has it, and its step is the number of its rows; a resume holds a request, so rows without one are those of the first execution |
| `EscalationsNameRequests` | `WorkflowSafetyProofs` | `EscalationHasRequest` | `EscalationInv`: the request a run names is about a step with an escalated row, which outlives every later step |
| `AuditTrue`, `AuditMissesNothing` | `WorkflowSafetyProofs` | `AuditTellsTheTruth`, `WorkflowAuditComplete` | `AuditInv`: every event has the rows that show it, entries are of events, and a process about to write an entry has had its event; an event without an entry has a process that owes it or one that was stopped |
| `SerialSteps`, `SerialCompletes`, `SerialQuiet`, `SerialNoRepeat` | `WorkflowSerialProofs` | if `Apart`, `StepsInOrder`, `CompletedRanEveryStep`, `StoppedIsQuiet`, and no step has two rows | `SerialInv`: one process works on a run, its step is the first without a row, and the output it passes on is that of the last row |
| `SerialTerminalFinal` | `WorkflowSerialProofs` | if `Apart`, `TerminalIsFinal` | the same: whoever works on a run has it as running or escalated |
| `UnsignedStops` | `WorkflowSerialProofs` | if `Apart`, `NoStepPastUnsigned` | `SignedInv`: while no owner has granted a request, its run stands at that step, with no task in the queue, and the only process that may still move it is the one recording this very escalation |
| `GateImplemented` | `WorkflowSerialProofs` | if `Apart`, `ImplementsGate` | initial states map to initial ones; one case for each action: a step of the gate or a stutter, given `TicketInv`, `FreshInv`, `SerialInv` and `DecisionInv` before it |
| `MemoryLimiterCorrect`, `LimiterTypesCorrect`, `RefusedOnlyOverQuota` | `MemoryLimiterProofs` | `BurstBound`, `BucketTypeOK`, `DeniedOnlyOverQuota` | `LimiterInv`: the accepted calls fall into buckets of at most `Limit`, which begin a window apart |
| `CountersGoAway` | `RedisLimiterProofs` | `CountersExpire` | inductive with the types: a step strands no counter but the stop of a call before EXPIRE, and that one only its own (`StrandedBefore`) |
| `DoubleBurstHolds` | `RedisLimiterProofs` | `DoubleBurst` | `BurstInv`: while no command is late, the accepted calls of the current window are those its counter let through, and the call `Limit` places before any is of an earlier window; two such strides are a window |
| `TypesHold` | `RedisLimiterProofs` | its `TypeOK` | inductive, with `InWindow`: the start of a window is no later than any time in it |
| `DelayedBurstHolds` | `RedisLimiterProofs` | `DelayedBurst` | `DelayInv`: every accepted call has a label, its window, the life of that window's counter it was counted in, and the count it got; see below |
| `TypesCorrect`, `Isolation` | `TenantSessionsProofs` | `TypeOK`, `TenantsApart` | `SessionInv`: no connection serves two sessions; a session in its tenant's context holds a connection with exactly this tenant and no bypass; as long as none leaked, a free connection and one without a context are clean.  `Frame` proves that a step disturbs no other session, and each action is an instance of it |
| `FounderUnique` | `TenantSessionsProofs` | `OneFounder` | `FoundersInv`: one open claim on a slug, none once the tenant is there |
| `ContextHolds` | `TenantSessionsProofs` | if the endpoints keep `KeepsContext`, `HiddenOnlyAfterSave` | `ContextInv`: what is left of each request keeps to the rule, given the scope and the mark of a save its session has now; a session in the bypass context has its bypass on.  `StepsMove` sums up what each action does to a session |
| `ChangesRecorded` | `TenantSessionsProofs` | if the endpoints keep `KeepsRecords`, `ChangesAudited` | `RecordInv`: what a session has changed is followed by its entry in what is left to do |
| `InvocationsKeepBooks` | `RecordsProofs` | `InvocationsAccounted` | `InvocationInv`: what an invocation has written is a function of how far it is |
| `QueriesFindTheBest`, `SteadyNeverBreaks` | `RecordsProofs` | `BestOfWhatWasStored`, `SteadySearchNeverBreaks` | `KnowledgeInv`: an ingest past its commit has its chunk stored, and past the next its vector; a query's list ranks, cut to `k`, what was there when it began, and chunks only grow.  The scan of the index and the sort in memory are both shown to rank (`SearchRanks`) |
| `TotalsAlwaysStand`, `LastWordHolds` | `RecordsProofs` | `TotalsStand`, `LastWordStands` | `DashInv`: the rows a page has counted stay, each total has gone down since it was read only if a refund of its kind was committed since (`SaveGrows`), and a list is full or has all that is counted; of a deal not `mixed`, the one request that has it in hand knows its stage |
| `PurgesOnRecord` | `RecordsProofs` | `RemovalsAccounted` | `PurgeInv`: a purge that holds the table is alone, so what it has deleted is still in the log, and old, when it commits |
| `GrantsKeepBooks` | `RecordsProofs` | `GrantsAccounted` | `AccessInv`: an assignment in force has one entry, or none and a request that owes it or was cut; never two that owe the same |
| `RetentionTyped`, `AccessTypesHold`, `DashboardTyped`, `DepartmentsTyped` | `RecordsProofs` | the types of each part | with the invariants above: a purge counts the rows it deleted, at most one for each session; a page lists rows of the table; a query lists chunks within its reach |
| `RecordsTyped` | `RecordsProofs` | `RecordsTypeOK` | `PartsStep`: a step of the composition is, for each part, a step of its own or a stutter |

`Apart` is `Serialised \/ RlsEnforced`: nobody resumes a run under execution,
or, on PostgreSQL, nothing is ever escalated and so nothing resumed.  It is the
premise of the two runs that check these properties, and `DoubleResume` shows what
happens without it.

Isolation does not depend on what endpoints do: it holds for any scripts that
close their sessions.  `ContextHolds` and `ChangesRecorded` do, and say what they
ask: an order of statements that can be checked for each endpoint by itself.
`EndpointRules` assumes it of every endpoint there is, and TLC evaluates that; the
theorems then leave no room for requests, connections or leaks to matter.

Where `5 * Limit - 2` comes from.  The labels of two accepted calls differ: within
one life of a counter every INCR returns a greater count, and those that let a
call through are 1 to `Limit`.  A counter that starts again has expired, which is
at least a window after the first call of its first life, and a command that is
late by less than a window comes too late for a third life (`LabelsStep`).  The calls
accepted in a stretch shorter than a window belong to the window it begins in,
one before and one after, and the one after cannot be in its second life yet
(`WindowsOfStretch`): at most `Limit` calls.  Of each of the other two at most
`2 * Limit - 1`, since the first calls of both lives are a window apart.
`LabelledIsBounded` maps the calls one to one into that many slots and cites the
pigeonhole principle.

`AccessAssumption` says that `"created"`, with which the log marks the creation of
a role, is neither a role nor a code: an entry of the log has a verb of its own.

**Only model-checked:** liveness (`RunSettles`, `DecisionsGetAudited`), out of the
prover's reach, and the five runs that refute a claim, each by a counterexample.

## 5. Where code and documents disagree

Each is a run with one property that TLC finds violated.

* **`DoubleResume`** (`app/workflows/router.py:225`).  Two overlapping resumes both
  see ESCALATED and both execute the remaining steps, where `README.md:145` and
  `app/workflows/executor.py:22-23` say steps are not run again.  Consequences the
  model shows when `Serialised` is dropped: with two rows for a step a later
  resume, which counts rows, skips one; and a resume past its checks sets RUNNING
  over a second escalation nobody has decided.
* **`ApprovalsOverwritten`** (`app/approvals/router.py:106`).  Two overlapping decisions
  both answer 200 and the later one wins, where the handler and a test promise a
  409.  Both are in the audit log (`VerdictsAccounted` still holds).
* **`EscalationOnPostgres`** (`app/workflows/executor.py:132`).  Under row-level
  security the commit in `create_approval` ends the tenant context; the run stays
  RUNNING and its request is named by no run.
* **`PermissionAssigned`** (`app/permissions/service.py:67`).  While the catalog is
  incomplete, the first assignment of a permission seeds it, commits, and does not
  find the role: 404 for a role that is there.  The next attempt succeeds.
* **`MemoryBoundary`** (`app/ratelimit/limiter.py:68`).  The limiter in memory is said to
  have "no boundary-crossing failure mode" (`limiter.py:14-16`), a burst that exceeds
  the limit by about two, which anchoring a window to the first request of its
  key "removes ... by construction" (`limiter.py:49-58`, `docs/ARCHITECTURE.md:462-465`).
  Anchoring moves the boundary; it is still there, a window after that first request.
  With a quota of 3 and a window of 4, calls at 0, 3, 4, 4, 4 are all accepted:
  four in a stretch of one.  What does hold, for every quota, is `BurstBound`.

Seen while modelling, and not the property of a run:

* `app/knowledge/vector_store.py:62-67` promises rows without a native vector a
  fallback to the search in memory; the query excludes them (line 74) and nothing
  falls back.  Such rows are those from before the migration, and those whose
  ingest broke between its two commits.
* `app/knowledge/router.py:51` labels every embedding `nomic-embed-text`, whichever
  provider of the chain made it.
* A negative `k` cuts from the end in memory and is an error on PostgreSQL.
* `scripts/purge_audit_logs.py:27` says the owner of the table may purge.  Under
  FORCE ROW LEVEL SECURITY an owner that is no superuser has its first INSERT
  refused; the purge rolls back and the dry run counts 0.  The dry run also counts
  records of earlier purges, which the purge keeps (lines 50 and 73).
* The executive office never escalates when invoked: its `should_escalate` asks for
  flags where the endpoint passes only `text`.
* The chains of `routing.yaml` for engineering and quality assurance are never used:
  every department of the registry has the task type `default`.
* The forms of `app/admin/router.py:143-144` drop a NotFound, which on PostgreSQL
  includes the one of the run `PermissionAssigned`: the page comes back as if the
  permission had been assigned.
* A deal set to the stage it was loaded with is answered 200 and audited, and
  nothing is written, even if it was moved meanwhile.

## 6. What is not modelled

HTTP requests to AI providers and password hashing (I/O and cryptography without
state of the system); the event bus (nothing calls it); configuration, templates
and migrations as such; how a slug is read from a header or host name; keywords
as substrings of a text; the counts of approvals and audit entries on the
briefing; the roles of PostgreSQL in the purge;
the size of the connection pool (a request holds one connection at a time).

## 7. Plan

Done: approvals and engine (most of the system's promises meet there), limiters,
tenant sessions, gateway, knowledge base, departments, dashboard, retention,
access.
Proved: every safety and action property of the passing runs, and the refinement.

What could follow:

1. The endpoints of authentication and of the admin pages as state machines of
   their own.  So far they are sequences of statements (`Endpoints`).
2. The connection pool as a resource: how many slow steps it takes until every
   other request waits (hazard at `app/workflows/executor.py:74`).
