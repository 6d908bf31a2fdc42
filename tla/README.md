# A formal model of the resQ emergency response server

resQ takes emergency reports, has them approved, ranks them, sends a resource
(an ambulance, a helicopter, ...) to each and replaces a resource that fails on
the way. It is an Express API over PostgreSQL (Prisma), with a transactional
outbox, a BullMQ queue on Redis and workers that consume domain events. Any
number of API processes and workers run at once over one database; no lock is
held between a request's statements but the row locks of PostgreSQL.

This directory holds TLA+ modules translated from that code, TLC runs that
check them on small instances and TLAPS proofs for instances of every size.
Paths below are relative to `src/src/`.

## Inventory

| Component | State | Operations | Hard behaviour | What makes it correct |
|---|---|---|---|---|
| Incident (`modules/incident`) | status, reporter, priority score, report fields | create, update, cancel, approve, reject, status | every status change is a read, a check and an update by id, in no transaction; a rejection writes its reason over a field of the report that the priority depends on | nothing is dispatched without an approval; no incident is left ASSIGNED with nobody on the way, unless a person set the status |
| Assignment (`modules/assignment`) | ACTIVE / COMPLETED / CANCELLED rows, two partial unique indexes | create, complete, cancel | READ COMMITTED transactions that check what they read and write by id | one mission per resource, one resource per incident, no resource stranded, everything on record |
| Re-optimization (`modules/reoptimization`) | the same tables, re-optimization log | reoptimizeAssignment | reads before the transaction, reads again inside it, retries of the transaction | a replacement never breaks exclusivity nor leaves the incident without a resource |
| Resource (`modules/resource`) | status, position, capacity, operator | create, update, operator, deactivate; cached reads | status edits race with dispatches; two events per failure; cache fill against invalidation | BUSY means on a mission, or set by hand |
| Hospital (`modules/hospital`) | beds and their capacity, cached | create, update, operator, deactivate | capacity checked on a row read earlier | available beds within capacity |
| Decision (`modules/decision`) | priority score, decision log | calculate and save a priority, recommend | a score computed from a row read earlier, saved by id | the score is that of the report as it is, unless a calculation is due, lost or overtaken, or a rejection wrote its reason into the report |
| Priority engine (`decision/decision.engine.ts`) | - | calculatePriority, pure | scales in pieces, rounding, free text | worse never scores less |
| Allocation engines (`decision/resource-allocation.engine.ts`, `reoptimization/reoptimization.engine.ts`) | - | recommend, assess, replace; pure | three places judge a resource by rules of their own | the best is recommended, and the rules agree |
| Outbox (`events/outbox`) | PENDING / PUBLISHED / FAILED rows with attempts | write, publish | ticks that overlap, stale bookkeeping, failed publications | no event is lost in silence |
| Queue (`queue`, BullMQ) | jobs by event id | enqueue, take, retry, stall, remove | duplicates, stalled jobs | an event has one job |
| Event worker (`workers`) | processed_events | processJob | crash between handler and record | no event is marked done unhandled |
| Handlers (`events/handlers`) | none of their own | one per event type | follow-up events in statements of their own | a failed resource leads to a replacement |
| Idempotency (`reliability/idempotency.ts`) | idempotency_keys | lookup, replay, store, prune | no reservation, response before record | a retry is served from the table, once the response is stored there |
| Circuit breaker (`reliability/circuit-breaker.ts`) | state, failures, time of the last one | execute, reset | many calls in a HALF_OPEN circuit, late results | opens after a run of failures, recovers |
| Retry and timeout (`reliability/retry.ts`, `timeout.ts`) | - | withRetry, withTimeout, withTimeoutAndRetry | an attempt that is given up goes on | what took effect is not done again for nothing |
| Cache (`cache`) | Redis keys with a time to live | get, set, del, delPattern | fill races with invalidation, skipped invalidation | a read is as fresh as the last invalidation |
| Rate limiter (`middlewares/rateLimit.middleware.ts`) | Redis counters | count a request | counter and expiry in two round trips | a client is let in again |
| Cleanup (`lib/cleanup.ts`) | - | prune keys, prune processed events | races with lookups | prunes only what expired |
| Accounts (`modules/auth`, `modules/user`) | users with email, role, status; tokens | register, login, create, update, (de)activate, operators of places | uniqueness and roles checked on rows read earlier; the operator of a place written with and without a look at the account; tokens outlive changes | emails are unique, deactivation spares an ADMIN, an operator exists and is an OPERATOR if assignOperator chose it, tokens end |
| Access control (`middlewares/auth.ts`, `permissions.ts`, filters of the services) | - | who may list, who may open | the same rule in a filter and in a guard | lists and guards agree |
| Shutdown (`index.ts`, `workers/worker.ts`) | timers, worker, open connections | start, two signals, forced exit | what is under way when services close | work keeps the services it needs |
| Audit, health, load tests, wiring | rows of their own | append, read | - | - |

How they interact: the API writes tables and outbox rows; the ticks of the
publisher read outbox rows and add jobs; workers take jobs and call the same
services the API calls (`calculateAndSaveIncidentPriority`,
`reoptimizeAssignment`); handlers write follow-up rows to the outbox. Registries
are read through the cache and write past it; every request passes the rate
limiter and the guards first. The hazards of each part, with their lines, are listed in `PROJECT.json`.

## Modules

| Module | Models | Extends |
|---|---|---|
| `ExclusiveAllocation` | the abstract promise of the dispatch core: who serves whom | |
| `Dispatch` | incidents, resources, assignments and re-optimization, request by request | |
| `DispatchInvariant` | its inductive invariant | `Dispatch` |
| `DispatchProofs` | the theorems | `DispatchInvariant` |
| `MCDispatch` | the instances for TLC | `DispatchInvariant` |
| `EventPipeline`, `MCEventPipeline` | outbox, publisher, queue, worker | |
| `Idempotency`, `MCIdempotency` | the idempotency middleware and its table | |
| `FailureResponse`, `MCFailureResponse` | from a resource that fails to its replacement, over the tables of the dispatch core | `Dispatch` |
| `PriorityEngine` | `calculatePriority` | |
| `AllocationEngine` | the recommendation, the assessment of an assignment, the search for a replacement | |
| `MCEngines` | reports and fleets that are edited, for both engines, and what the engines promise | both |
| `PriorityScore` | the stored priority of a report | |
| `CachedRegistry` | resources and hospitals behind the cache | |
| `HospitalBeds` | beds and their capacity | |
| `MCRecords` | the three above, for TLC | all three |
| `CircuitBreaker`, `RateLimit`, `Attempts`, `Shutdown`, `Accounts` | the component each is named for | |
| `MCSafeguards` | the five above, for TLC | all five |
| `PipelineProofs`, `IdempotencyProofs` | the theorems about the module each is named for | that module |
| `FailureProofs` | the theorems about `FailureResponse` | `FailureResponse`, `DispatchProofs` |
| `EngineProofs`, `RecordsProofs`, `SafeguardsProofs` | the theorems about the modules of `MCEngines`, `MCRecords` and `MCSafeguards` | that module |

`FailureResponse` composes components that interact. `MCRecords` and `MCSafeguards`
do not: they put modules side by side that share no state, so that one run checks
them; a variable (`service`, `safeguard`) chosen at the start says which one a
behaviour is about, and the others rest. Nothing is checked of an interaction
between them, since the code has none.

### Dispatch

State: `incident`, `creator`, `resource`, `assignment` are the tables, reduced
to the columns the handlers decide on; `journal` holds the rows that are only
ever added and are about one assignment (outbox events, decision log,
re-optimization log); `pc` and `arg` say where each request in flight stands
and what it has read. `everApproved`, `handAssigned` and `handBusy` are history:
they record what the properties need to tell a hand's work from a handler's.

A handler is cut where another request can come between: at each read of a row
whose value matters and at each commit. A `$transaction` runs at READ COMMITTED,
so a read inside it is a step like any other; its writes become visible
together, in the step named `...Commit`. Two effects of an open transaction are
kept. A row it has updated is locked: `CancelWrite` and `ReoptWrite` are the
steps after which the assignment (and for a cancellation the resource) can be
written by nobody else, and they are steps of their own because the code reads
another row between that update and the commit. And the insert of an ACTIVE row
goes through only if the two partial unique indexes allow it; an insert that
has to wait for a transaction that then commits fails, which is `Abandon`.

`CreateCommit` and `CompleteCommit` are one step, since nothing they read comes
after their first update. `ReoptRetry` is `withRetry` around the transaction of
`reoptimizeAssignment`, which starts over with what was read before it; the
retry of `createAssignment` starts over from nothing and is a new request.
`Abandon` is every early return, rolled back transaction and end of a process.

Left open, hence more behaviours than the code has: the type and capacity checks
(fields staff may edit at any time), whether the current resource of an
assignment is still feasible, and which available resource the engine picks.
Left out: operators' restrictions to their own resource, the log rows of
re-optimizations that replaced nothing, the preemption check (which, with
`ALLOW_PREEMPTION = false`, only ever declines).

### EventPipeline

One action per statement of `publishPendingOutboxEvents`, `processJob` and
`markProcessed` that another process can come between. A tick keeps the batch
it read, with the attempts it saw, until it is through: `RecordFailure` counts
from those and overwrites whatever the row holds by then. `Throw` is a handler
or a statement that fails, `Stall` BullMQ's recovery of a job whose worker is
gone or slow, `RemoveCompleted` the removal of completed jobs, after which the
id can be added again. Handlers are all alike: an effect, then a follow-up
event. Left out: back-off delays, the removal of failed jobs and the pruning of
processed events after seven days, events that no handler supports.

### Idempotency

One action per step of the middleware. What a request is about has a place (the
route and the id in its URL) and a body; `Hash` is what `buildRequestHash` makes
of it: the method and the router-relative path are the same in all three routes
that use the middleware, so the body remains. `ProcessEnds` takes the requests of
one process: the middleware is an async function outside `catchAsync`, so an
error in it is an unhandled rejection. `Respond` sends the answer and `Persist`
inserts the record later, since `res.json` does not wait for the insert. `excused`
tells the causes of a second run apart: `overlap` (another request with the key was
at work), `answered` (the other had its answer, and its record was still to be
inserted), `unstored` and `expired`. A client that waits for its answer and retries
meets the second of these, which the requirements of the repository exclude: see the
findings below.

### FailureResponse

The tables are those of `Dispatch`, whose requests go on next to it. `ReadResource`,
`WriteResource`, `TellChanged` and `TellFailure` are `updateResource`: the status it
read first decides whether it writes events, and `EditLost` ends it between any two
statements. The events on their way
are a bag: the guarantee of `EventPipeline` (handled at least once, in any order,
or given up on record) is built in and not proved here. A worker takes one, looks
for the ACTIVE assignment of the resource at that time, writes the event that asks
for a re-optimization, and the worker that takes that one goes through the
`Reopt` actions of `Dispatch` as a session of it. Capacities, types and routes are
left out, so a resource is infeasible exactly when its status says so. History:
`unheard` holds the resources whose failure no event tells of any more, `failedOn`
the missions on which a resource failed, `attempted` those found infeasible and
then replaced or logged.

### The engines

`PriorityEngine` and `AllocationEngine` translate pure functions. Weights are
hundredths and a score is counted in hundredths of a point; distances are hundredths
of a kilometre and times hundredths of a minute, with `Math.round` as it rounds
halves. Of the free text of a report only the set of risk levels counts whose
keywords occur in it. The haversine distance is a number of its own for each
resource. `MCEngines` edits a report, or a fleet and an incident, one field at a
time, so that a property can speak of what an edit does to a score.

The scales are chains of IF and not CASE, because their guards overlap as those of
the code do: a CASE with two true guards is a choice that TLC resolves by the first
one and nothing else has to. The sum of the urgencies of a list is written as a
count for each urgency (`TotalUrgency`), and the head of a sorted list as the
position that the comparator puts first (`FirstRanked`); neither needs recursion.

### PriorityScore, CachedRegistry, HospitalBeds

`PriorityScore` knows a report by the number of its revision and a score by the
revision it was calculated from. Three things calculate it, each with a read and a
later write: the handler of INCIDENT_CREATED (`TakeCreated`, `ReadReport`,
`SaveScore`, `AnnounceScore`), an edit (`BeginEdit`, `WriteReport`, then the same) and
a request (`AskForPriority`). A handler throws, a request dies, the event is never
written. `overtaken` and `lost` record the two ways in which a calculation can leave an
old score. A fourth writer of the report calculates nothing: `RejectReport` writes its
reason over `environmentalCondition`, one of the `PRIORITY_FIELDS`, which makes a
revision whose score nobody is due to save (`Annotated`), until an edit or a request
calculates it. A review is a check (`BeginReview`) and an update by id
(`ApproveReport`, `RejectReport`), so that of two that cross both go through. `authors`
records who wrote each revision.

`CachedRegistry` follows one row and the table it is listed in; their contents are
version numbers. A reader misses, queries and fills in three steps; a writer
changes the row, deletes the keys of the row and then those of the lists.
Redis may be away at any of them. `DispatchWrites` is what `createAssignment`,
`completeAssignment`, `cancelAssignment` and `reoptimizeAssignment` do to a resource
without touching the cache. `poisoned` holds the keys left old by a step
that nobody repairs.

`HospitalBeds` is `updateHospital`: the check on the row as it was read, the write of
the given values by id. `crossed` holds the pools last written by an edit whose
check another edit had overtaken.

### CircuitBreaker, RateLimit, Attempts, Shutdown, Accounts

`CircuitBreaker`: everything in `execute` but the call itself is synchronous, so its
actions are `Execute` and the return of a call, in whatever state the breaker is by
then. `RateLimit`: one client, one key, many processes; INCR with PTTL is one round
trip and PEXPIRE another, and Redis may fail, restart or lose the key in between.
The limiter in memory, which decides when Redis is away or PEXPIRE fails, is external;
a pipeline that fails throws nothing, and its request passes by a count of 0. `Attempts`: one
call of `withRetry` or `withTimeoutAndRetry`; a timer ends the waiting and not the
attempt. `Shutdown`: every signal starts a shutdown of its own, in the server (API,
worker and timers in one process) or in the separate worker. `Accounts`: each
operation is a check on what it read and a write by id; tokens keep the role they
were issued with. The operator of a place has two kinds of writers: `assignOperator`
looks the account up (`BeginAssignOperator`, `Operate`), while `createResource`,
`updateResource`, `createHospital` and `updateHospital` write whom they are given
(`BeginNameOperator`, `NameOperator`), and only the foreign key asks that the account
exists. `unchecked` records that the operator came by the second way. Access control is a set of operators, one for each guard and each
filter, over a token and a row.

## Runs

| Run | Instance | Question |
|---|---|---|
| `dispatch_succession` | 1 incident, 2 resources, 3 assignments, 2 requests; staff set AVAILABLE, BUSY and ASSIGNED by hand | is anything stranded, forgotten or unrecorded over a succession of dispatches? |
| `dispatch_contention` | 2 incidents, 2 resources, 2 assignments, 2 requests | does competition for resources keep the allocation exclusive, approved, and as the abstract specification allows? |
| `terminal` | 1 incident, 2 resources, 2 assignments, 2 requests | violation, below |
| `pipeline_batches` | 2 events, batches of 2, 2 ticks, 1 worker, 1 crash | do overlapping batches lose an event in silence? |
| `pipeline_settles` | 1 event, 2 ticks, 2 workers, 2 attempts each, 1 crash | is every event settled, and done only when handled? |
| `idempotency` | 1 key, 2 bodies, 3 requests, 3 executions | when may a handler run twice, and whose answer does a client get? |
| `once_per_key` | 1 key | violation, below |
| `failure_redelivery` | 1 incident, 2 resources, 2 assignments, 1 request, 1 worker, 1 edit, events handled up to twice | is a mission ever re-optimized for a failure that was not its own? |
| `failure_response` | the same, 2 edits in a row, jobs tried once | is every failure on a mission answered in the end? |
| `engines` | all levels, 12 head counts, 7 texts, 6 lists of requirements; 2 resources, 2 capacities, 3 distances, 3 speeds | do the engines rank, recommend and replace as they should at the ends of every scale? |
| `records` | priority: 3 revisions, 1 worker, 2 requests, 2 tries; registry: 1 reader, 2 writers, 2 changes; beds: 2 edits, 2 beds | when do a stored score, a cache entry and a bed count differ from what they stand for, and for how long? |
| `safeguards` | breaker: 3 calls, threshold 2; limiter: 3 requests, limit 2, 2 restarts; attempts: 3; shutdown: 2 signals, 2 requests; accounts: 2 accounts, 2 emails, 2 requests, 3 changes | does each keep its promise, up to the causes its property names? |

Why the bounds are enough. A race of the dispatch core is between two requests
about the same rows: two requests, and enough rows that one can be replaced by
another and the first be dispatched again (three assignments in
`dispatch_succession`: the second ending of an assignment must meet a resource
and an incident that have moved on). Crossing claims need two incidents and two
resources. No limit is reached that the code does not have: a run stops when
the assignment ids are used up, and requests end. In the pipeline the only
interaction between events is that they share a tick's batch, so two events
with few attempts and one event with all the rest cover it; two ticks are the
overlap, two workers the stalled job that is processed twice. Keys do not
interact, so one key is enough; three requests are the second lookup during the
first request and the retry after both. The bounds are `AssignmentIds`,
`MaxEvents`, `MaxCrashes`, `MaxPublishAttempts` (5 in the code),
`MaxJobAttempts` (3), `BatchSize` (50) and `MaxRuns`.

In `FailureResponse` the interesting distance is from an edit to the mission its
event meets: two resources and two assignments let a mission end and the
resource go on another before the event is handled, and a bag of events with one
worker already gives every order of handling. `MaxEdits` bounds the edits and deactivations: `failure_response` has two,
so that a failure can follow on one that was told of or not, and
`failure_redelivery` one, with two tries for an event that is handled twice. The engines are pure, so their
instance is a set of inputs: both ends of every piece of each scale, the numbers of
people where rounding changes, distances whose times round to the same and to
different minutes, a speed of zero and one that makes every time zero.

In `records` a stale entry takes one reader and one writer, a second writer can
clear what the first one left; two changes are what makes an entry older than
another. A score is overtaken by a task that slept through a revision: three
revisions let it sleep through two. Beds cross with two edits of one pool, and two
beds leave an edit something between none and all.
`MaxRevisions`, `MaxChanges`, `MaxBeds` and `MaxTries` are the bounds. In
`safeguards` a late result needs a call that outlives two others (three calls with a
threshold of 2, `MaxCount` past it), a lost PEXPIRE needs a key that is made anew
(`MaxLosses`), and `InitialDelay` 20 with `MaxDelay` 35 reaches the cap at the second
delay of three attempts. Two signals are two shutdowns at once, each ahead of the
other in some behaviour. Two accounts compete for one of two emails, one of them an
ADMIN and each a possible operator.

Symmetry is used for model
values of the runs without liveness, none of which is named by a property.

Deadlock is checked wherever the system cannot stop. The pipeline stops when all
its events are settled, a failure response when the bounded edits and the assignment
ids are used up and nothing is in flight, a record when its bounded changes are
made, a process when it has exited; their configurations say so.

Fairness. `Dispatch`, `Idempotency`, the engines, `HospitalBeds`, `RateLimit`, `Attempts`
and `Shutdown` state safety only. `EventPipeline` assumes
that ticks and workers go on (weak fairness of a tick's and of a worker's steps,
taken together: `setInterval` starts ticks for ever, a started tick runs to its
end, workers take waiting jobs and finish them well or badly) and that BullMQ
looks for active jobs that no worker holds. It does not assume that anything
succeeds: publication may fail each time, and a handler may throw each time. The
connection to Redis is assumed to come back, since the client queues commands
while it is down.

* `FRFairness`: an edit that began and a worker with a job go on, well or badly
  (both are one `async` function, whose promise settles). Nobody has to begin an
  edit, and a handler may throw each time.
* `PSFairness`: statements that were begun complete, and queued jobs are taken (a
  BullMQ worker polls for ever). Edits, requests and approvals may never come.
* `CRFairness`: entries expire. It is the only thing the code can rely on: readers
  and writers may stop anywhere, and Redis counts down by itself, reachable or not.
* `CBFairness`: time passes, callers go on calling, and a call that was let through
  returns. The second is an assumption on the use of the breaker, without which a
  circuit stays OPEN for lack of a test; nothing in the repository calls one yet.
* `ACFairness`: requests that are under way end, and tokens expire.

## What the code does not do

Two listed violation runs show a sentence of the repository that the code does not
keep; `PROJECT.json` quotes it under "findings".

* `terminal`: an assignment that is COMPLETED or CANCELLED is written again by a
  request that checked it while it was ACTIVE.
* `once_per_key`: two requests with one key in flight together both run.

Nine more have a configuration kept beside their module, which reproduces the
counterexample on demand (`tlc -config X.cfg M`); they are findings without a
listed run.

* `MCDispatchCancelFailed.cfg`: a cancellation puts a FAILED resource back in service.
* `MCDispatchClosedIncident.cfg`: a replacement goes on for an incident that was
  closed meanwhile.
* `MCDispatchReopened.cfg`: a completed mission sets its incident IN_PROGRESS though
  it was cancelled meanwhile (requirements 4.4 and 4.5 of the approval).
* `MCEventPipelineStaysPending.cfg`: an event that cannot be published five times
  becomes FAILED.
* `MCEventPipelineHandledTwice.cfg`: a handler takes effect twice for one event.
* `MCIdempotencyTarget.cfg`: a key used again for another assignment replays the
  first one's response.
* `MCIdempotencyAnswered.cfg`: a client that has its answer retries before the record
  is inserted, and the handler runs again (requirement 3.3 of reliability).
* `MCSafeguardsOperator.cfg`: a place is given to an account that is no OPERATOR, by a
  creation or an update of the place.
* `MCFailureResponseTrigger.cfg`: RESOURCE_FAILURE_DETECTED alone leads to no
  re-optimization, since its payload has no `newStatus`; RESOURCE_STATUS_CHANGED does
  the work.

The other findings are sentences of comments and documents that differ from what a
definition was translated from: the multiplier for the number of requirements, the
lower end of the population scale, which event saves the score, the time to live of
lists, the writes that pass the cache by, the check of the beds, the reason of a
rejection in a field of the report, the reports of coordinators (which wait for an
approval that the approval refuses), how many calls a
HALF_OPEN breaker lets through, the kind of window of the rate limiter and what it
does when a pipeline fails, which errors
`withTimeoutAndRetry` retries, and the tick of the outbox that no shutdown waits for.

None of them breaks the invariants of the dispatch core: a second ending of an assignment, for
instance, may end a mission in the tables that is still going on, but it
strands nothing, because all of the rows it writes move together.

## Proofs

`DispatchProofs` proves, for any sets of incidents, resources, assignments and
requests, from the assumptions named in `Dispatch` (`None` is none of the ids and
statuses, the inputs are statuses and roles):

* `Invariance`: `Spec => []IInv`, with one lemma per action;
* `TypeCorrect`, `Decisions`, `ExclusiveResource`, `ExclusiveIncident`, `Approval`,
  `NothingStranded`, `NobodyForgotten`, `AllAccounted`: the properties of the runs;
* `Implementation`: `Spec => Allocation!Spec`, each commit being one step of
  `ExclusiveAllocation` and each other step a stutter.

Why the invariant has to be strengthened. The properties speak of the tables, and
what could break them is a request that acts on what it read some steps ago.
`DecisionsHold` says what such a request can still rely on:

* `RequestsOK`: the rows it is about exist and belong together (rows are never
  deleted and never change hands), and an incident that is being dispatched has
  been approved;
* `ApprovedFirst`: a status past APPROVED tells of an approval, which is what makes
  `CreateReadIncident` sufficient for `ApprovalGate` although the status may change
  before the insert;
* `LocksExclude`: two open transactions never hold the same row;
* `CancelSawRight` and `ReplaceSawRight`: a transaction that found nothing to undo
  (an incident not ASSIGNED, a resource not BUSY) is still right to undo nothing
  when it commits: if the row has changed since, another assignment or a person
  accounts for it. These two carry `NoForgottenIncident` and `NoStrandedResource`
  across the window between the read and the commit, where the row read is not
  locked.

`UniqueIndexesAllow` alone carries the two exclusivity properties and the
refinement; the application's own duplicate checks are not needed for them.
`NoStrandedResource` needs the row locks as well.

The `dispatch_succession` run checks `DecisionsHold` with TLC.

### Records and safeguards

`RecordsProofs` and `SafeguardsProofs` prove, for any sets of actors and any bounds,
the types (`RecordsTyped`, `SafeguardsTyped`) and the safety properties that the runs
`records` and `safeguards` check. They assume what the modules state of their
constants and nothing of the order of steps. Each rests on an inductive invariant that says what a process in the middle of an
operation still knows:

* `StaleEntriesExplained` (`CacheOK`): with `KeysKnown`, a writer that changed the row
  knows every key that may hold it, because no reader ever stores the availability
  of a resource. `Excuse` is the lemma behind all steps that leave the rows alone.
* `ScoreExplained` (`ScoreOK`): the score of the first revision is the handler's to
  save, that of each later one its own edit's (`EditorDue`), and that of a revision
which a rejection wrote is nobody's (`Annotated`). `ScoreExcused` alone
  is not inductive: when a handler throws, it has to be known that no other
  worker's old result was what made the calculation due.
* `Reviewed` (`ReviewOK`): after an approval no citizen's edit passes its check, so the
  edits written since and those still under way are together no more than were
  under way when it was given. The property alone forgets the second kind.
* `BedsWithinCapacity` (`BedsOK`): `CheckHolds`, an edit nobody crossed would still
  pass its check.
* `Breaker` and `KeysExpire`: the properties are inductive with the types.
* `Repeats` (`AttemptsOK`): each attempt before the current one was given up for a
  timeout or a transient error, and none runs that is later than the current one.
* `OrderlyShutdown` (`ShutdownOK`): by the time any shutdown waits for the queue, the
  cache or the database the process is `AtRest`: no request is in flight, no job is
  taken, and one goes on only if closing the worker failed. What is at rest stays so,
  which is why a second shutdown does no harm.
* `AccountPromises` and `ListsAndGuards` (`AccountsOK`): `DeskOK` and `Right`, what a
  request has checked and who may still have changed it; for an operator that a
  creation or an update of the place named there is no such check, and the theorem
  promises only that the account exists. That emails are unique
  comes from the unique index alone, not from the lookups.

The type invariants are theorems apart, with what the other invariants did not
need. One part of them is not a matter of sets: a back-off delay, `InitialDelay`
times a power of two and cut at `MaxDelay`, stays in its range. That powers of two are
natural numbers would be an induction; `PowersOfTwo` does without one, since 2^n
is how many subsets a set of n has.

### The pipeline and the idempotency keys

`PipelineProofs` proves `TypeCorrect`, `NothingLost` and `NothingSkipped` for any number
of events, overlapping ticks, workers and crashes, any batch size and any numbers of
attempts, from the bounds being natural numbers and `Nobody` no worker. Neither of the
two safety properties is inductive; each needs to know what a process in
the middle of its statements has already done:

* `MarksTrue`: a tick is about to mark PUBLISHED only what it handed to the queue. It is
  what allows a tick to write the status of a row it read long ago.
* `RowsTrue`: a PENDING row has attempts left, and a PUBLISHED one was handed over
  (`Handed`: there is its job, or the job completed and was removed).
  `BatchesOfRows` keeps the first half true when a tick writes the attempts it saw
  over those the row has meanwhile.
* `JobsLeft`: a job that waits or is active has attempts left.
* `WorkersTrue`: how far a worker is tells what it has done, be the job still
  its own or not; it carries `CompletedMeansHandled` over a stall, after which two
  workers are at it.

That a batch holds rows of the outbox (`OldestAre`) rests on `Ranks`: among finitely
many numbers each rank is taken exactly once, which is the pigeonhole
principle and needs no induction.

`IdempotencyProofs` proves `TypeCorrect`, `AnswersAreOwn` and `OnceUnlessExcused` for any
keys, bodies and requests. `RunsKnown`, `RecordsTell` and `AnswersTell` follow a
response from the run to the record and to the next client. `OneAtATime` is the
heart: as long as nothing excuses a second run of a key, at most one request is
between its lookup and its insert, none if there is a record, and whatever ran
has the record or is that request's. A request that is answered and has yet to insert
its record is still that one, so that a retry in between is excused as `answered`.
`DropsExpired` says that only an expired record
is dropped, also by a request that found it expired some steps ago.

### The response to failures

`FailureProofs` rests on `StepRefines`: every step of an editor, a worker or a request
is a step of `Dispatch` or leaves its variables as they are. Hence `ImplementsDispatch`
(`FRSpec` implies the specification of `Dispatch`), and every theorem of
`DispatchProofs` holds while failures are noticed and answered;
`ReplacementsExclusive`, `ReplacementsStrandNothing` and `ResponseImplements` (against
`ExclusiveAllocation`) say so for the three that matter most.

`Caused` is the property of the component: a mission is found infeasible only if its own
resource failed on it. `AttemptsHaveCause` compares two histories and knows nothing
of the tables; `FRInv` adds `FailuresNoted` (a mission whose resource is out of order
is one on which it failed, because a resource is sent only while AVAILABLE and every
edit notes whom it hits), `JudgedRight` (what a worker has judged stays judged
while it picks, locks and writes, although it does not read the resource again), and
`ChangesOfResources` and `RequestsFound` for what an event and a worker carry. It
holds with the inductive invariant of the dispatch core, whose lemmas per
action it uses.

### The engines

`EngineProofs` proves what the run `engines` checks, for every number of people, every
list of requirements, every fleet, capacity, distance and speed:

* `ScoresInRange` and `WorseScores`: `PopulationGrows` (the pieces of the scale meet and
  none falls, rounding included), `RiskGrows`, and `UrgencyPerRequirement` with
  `RequirementsRange` (the urgencies of n requirements add up to at least 40 n, so the
  rounded and boosted average is between 40 and 100).
* `BestRecommended`: `Compares` (the comparator is the lexicographic order of time,
  fit and id, and no order at all at speed 0), `FirstExists` (it puts one position of any
  list first) and `EtaGrows` (the farther resource does not arrive
  sooner, by the rounded time).
* `OrderOfRowsIsIrrelevant`: with a positive speed and ids that differ, the
  recommendation depends on the resources alone, not on the order of the rows. At
  speed 0 it does depend on it, which is why the hypothesis is there.
* `RulesAlwaysAgree` and `ReplacementsSettle`: `BusyFits` and `GivesUpOnce`.

`Sane`, the types of the edited rows, is the invariant they need. The assumptions are
that numbers are natural numbers, and that 0 people is among them.

### What is assumed of the constants

Bounds are natural numbers, and positive where the code's default is; actors of
different kinds are different (`Requests` and `Workers` of `FailureResponse`, `ScoreWorkers`
and `Callers` of `PriorityScore`); the value that stands for "none" is none of the
values it stands next to. `PriorityScore` takes its callers to be
finitely many, since `ApprovedAsReviewed` counts edits. No theorem assumes anything of
the order in which actors take their steps.

### What is only model-checked

Every safety property, action property and refinement that a passing run checks is the
statement of a theorem. What remains with TLC is liveness: `EverySettled`,
`FailureAnswered`, `ScoreSettles`, `FreshInTheEnd`, `RecoversInTheEnd`,
`TokensAgreeInTheEnd`. They need ENABLED and fairness, which are out of the prover's reach.
What a violation run shows is a counterexample and needs no proof.

## Plan

Done: all the modules planned at first, accounts, access control and shutdown, and
the proofs of all the safety properties that are checked. Left:

1. An abstract specification of delivery (each event due, handled or given up), which
   `EventPipeline` implements and which `FailureResponse` may rely on, instead of
   building the guarantee in.
2. A history of throws, stalls and crashes in `EventPipeline`, to state when a handler
   may take effect twice, as `RepeatsExcused` does for the idempotency keys.

## Not modelled

* The audit log: rows are appended, a failure to write one is swallowed, and nothing
  but a listing reads them.
* Health checks and listings: they read and decide nothing. What a listing shows to
  whom is in `Accounts`.
* Validation schemas: each module takes its inputs from the sets they allow.
* Passwords and names: compared and stored, never decided on.
* The decision log and the log rows of re-optimizations that replaced nothing, but for
  the fact that they are written (`attempted`).
* The pruning of processed events and the removal of failed jobs after seven days:
  the delays are longer than anything they could meet, and time is not measured.
* Back-off delays, but for their cap in `Attempts`.
* The haversine distance: TLA+ has no trigonometry; a distance is a given number.
* Configuration, logging, formatting, wiring, and the load tests.
