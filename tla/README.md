# Verification of Grafana's coordination code

This directory holds TLA+ models of the parts of this repository whose
correctness depends on the order in which things happen, the TLC runs that check
them and the TLAPS proofs about them. The repository is a checkout of Grafana
(`src/grafana`: Go backend under `pkg/`, TypeScript frontend under `public/` and
`packages/`, apps under `apps/`), together with three guides and a script for
installing and starting it. All paths below are relative to
`src/grafana/` unless they say otherwise.

Most of Grafana is request handling over SQL tables, rendering, and translation
of queries. Little of that takes more than one step. What is modelled is the
rest: goroutines that meet on channels, servers that meet in a table, state
that has to survive a crash and agree with another process, and, in the frontend,
loops of callbacks that are answered late, refused, or dropped.

## 1. Inventory

### Modelled

**Alert rule scheduler** (`pkg/services/ngalert/schedule`; module
`AlertRuleScheduler`).
*State*: the copy of the rules (`schedulableAlertRules`), the routines by rule
(`registry`), one goroutine `Run` per routine with its current fingerprint, two
unbuffered channels per routine (`evalCh`, `updateCh`), a context per routine with
the cause of its cancellation.
*Operations*: a tick (`processTick`: fetch, diff, create, restart, start `Eval` and
`Update` goroutines, stop), `Eval`, `Update`, `Stop`, the cases of the select in
`Run` with the attempts, back-off, reset and clean-up; shutdown.
*Interaction*: reads the rules any server wrote to the database; writes rule state
through the state manager; sends alerts.
*Hard*: `Eval` and `Update` empty a channel and then block on it in two steps, run in
goroutines of their own and overtake each other; contexts are looked at once and
acted on later; a rule's key can come back while the routine of its predecessor is
still ending.
*Correct means*: the state of a rule was computed from the definition its routine
works on; every rule ends up on the definition in the database; every stopped
routine ends and releases those that wait for it; nothing of a deleted rule stays
active in the Alertmanager.

**Alert state manager** (`pkg/services/ngalert/state`, and the sending half of
`alert_rule.go`; module `AlertState`).
*State*: the cached instance (state, start, end, ResolvedAt, LastSentAt,
LastEvaluationTime), the saved instance in `alert_instance`, the alert about to be sent,
what the Alertmanager last heard under each alert name.
*Operations*: `ProcessEvalResults` (transition or missing series), `Sync`, `Send`,
reset and delete, `Warm` after a restart.
*Hard*: LastSentAt is saved before the message is sent; a failed save is only logged; a
crash between any two steps; the Alertmanager expires alerts by itself.
*Correct means*: what fires is known to the Alertmanager and does not expire there,
what stopped does not stay, nothing fires before `For` or is resolved before
`KeepFiringFor`, lost messages are repeated.

**Server lock** (`pkg/infra/serverlock`; modules `ServerLock` for
`LockExecuteAndRelease[WithRetries]` and `ServerLockInterval` for `LockAndExecute`).
*State*: one row per action name with `last_execution` and `version`.
*Operations*: insert or take over, execute, delete; read, conditional update, execute.
*Hard*: several servers, clocks that disagree, transactions whose answer is lost,
crashes between acquire and release, a `DELETE` that does not check the owner.
*Correct means*: no two servers run the function at once (`LockExecuteAndRelease`) or
within the interval (`LockAndExecute`), and an orphaned lock does not stop everybody.

**QoS queue** (`pkg/util/scheduler`, and its client `runInQueue` in
`pkg/storage/unified/resource/server.go`; module `TenantQueue`, promise in
`TenantFifo`).
*State*: a queue per tenant, the round-robin list of active tenants, the pending
dequeue requests, all owned by the dispatcher goroutine; the workers; the callers with
their back-off.
*Operations*: enqueue, dequeue, one turn of the round robin, cancellation of a caller,
shutdown of the queue or of the workers (two services that stop independently).
*Hard*: three kinds of goroutine with a context each, selects that race with
cancellation, a shutdown that forgets items and pending requests.
*Correct means*: FIFO per tenant and fair between tenants; an item runs once, never
after its caller was told it failed; callers and workers return.

**Frontend request queue** (`public/app/core/services/FetchQueue.ts`,
`FetchQueueWorker.ts`, `ResponseQueue.ts` and `fetch()` in `backend_srv.ts`; module
`FetchQueue`).
*State*: the queue's map from request to Pending or InProgress, in the order of its keys;
what the worker is emitting and the updates it holds back; where every request is; the
renewal of the session it waits for.
*Operations*: `add`, `setInProgress`, `setDone`; subscribe, unsubscribe, cancellation by
request id and of everything; answers, a 401 with the rotation of the token or a ping, the
second attempt.
*Hard*: subjects call their subscribers at once, so an event runs callbacks inside callbacks;
a request that is cancelled, dropped or refused at any moment, or that fails while it is started,
must give back its slot; requests share the rotation of a token, and each of them may go away while
it is under way.
*Correct means*: a slot is held by exactly the requests that are on the network (but for two kinds
that the code leaves behind, section 7); no request waits while there is a free slot; of two with the
same request id one survives; every request ends. That no more than `maxParallelRequests` data requests
run at once is not among these: the code exceeds the limit (section 7).

**Loki query splitting** (`public/app/plugins/datasource/loki/{querySplitting,shardQuerySplitting,
logsTimeSplitting,metricTimeSplitting}.ts`; modules `LokiQuerySplitting`, `LokiShardSplitting`).
*State*: groups of queries with their chunks of time, the place in the loop, what was retried,
which groups are full, the combined response; around it groups by stream selector with the shards
still to ask for, the number asked for at once, and the attempts made.
*Operations*: next chunk, answer, retry, failure, line limit reached; next shards, answer with a new
group size, shrink, back off, give up; unsubscribe in both loops.
*Hard*: two loops of callbacks, one inside the other, with their own ends and errors; a group size
that changes while shards are counted off; chunk boundaries that are inclusive for metrics and
not for logs.
*Correct means*: nobody can tell that the query was split: no instant, step or shard is missing
or asked for twice, what is shown has no hole, and the loops end.

**Prometheus incremental queries** (`packages/grafana-prometheus/src/querycache/QueryCache.ts`,
`packages/grafana-data/src/table/amendTimeSeries.ts`; modules `PromQueryCache`, `TimeSeriesTable`).
*State*: for each target of a panel the signature, the end of the last range and the frames.
*Operations*: a refresh with the whole range or the part since the last end less an overlap; an
answer, target by target, with data, an error or nothing; merging and trimming of tables.
*Hard*: samples arrive late, requests overlap in time and are given up, targets are edited and
fail one by one; index arithmetic over closest times.
*Correct means*: what is shown is what the whole query would have returned.

### Not modelled (and why)

| Component | Reason |
|---|---|
| evaluation sequences (`schedule/sequence.go`) | a chain of callbacks over rules of one group; every rule of a tick is modelled as evaluated on its own |
| the asynchronous and rule-wise persisters | behind feature toggles; `AlertState` models the default persister |
| alert sender, notifier, remote Alertmanager | appear as "an Alertmanager that takes a message or loses it"; grouping and silences are vendored code |
| alert rule API, store, evaluation of queries | the store enters as actions; the rest is validation, SQL, I/O |
| provisioning jobs (`pkg/registry/apis/provisioning/jobs`) | the next candidate: claims, leases and their clean-up |
| dual writer (`pkg/storage/legacysql/dualwrite`) | two writes with one failing or late; each request is short and its errors are returned |
| unified storage backend (`pkg/storage/unified/{sql,resource}`) | resource versions and watch events rest on SQL isolation, which a model would have to invent; its QoS client `runInQueue` is modelled |
| session token rotation | one conditional `UPDATE` within a grace period of wall-clock time |
| OAuth token refresh | a client of the server lock; its own state is the identity provider's |
| caches, plugin manager, live | no protocol of their own, or the protocol is in vendored code |
| frontend panels, dashboards and UI | rendering and local state |
| other data sources and transformations | translation of queries and frames: pure functions over large data |
| access control, users, organisations, dashboards, folders | requests over SQL tables, each in one transaction |
| migrations, build tools, generated code, the install guides | run once or not at all beside Grafana |

The list with files is in `PROJECT.json` under `components`; what can go wrong where, with
the properties that would notice, is under `hazards`. By lines most of the repository is
TypeScript that renders, and generated code; the models stand for the few thousand lines, most
of them Go, where the order of events decides whether the program is right. Modelling more lines
of the rest would not say more about it than the code does.

## 2. Plan

*Done*, in this order: the alert rule scheduler and the alert state manager; server locks; the
QoS queue with its promise `TenantFifo`; the frontend's request queue; the two loops of
Loki's query splitting, one composed with the other; the cache of Prometheus queries; and the
theorems of section 6, among them the refinement of `TenantFifo`.

*Left*, should the project go on:
1. *Extend*: evaluation sequences and the spread of evaluations within a tick in
   `AlertRuleScheduler`; the asynchronous persister in `AlertState`; several series for
   each target in `PromQueryCache`.
2. *Compose*: `AlertRuleScheduler` with `AlertState` in place of its two-valued rule state, so that
   reset and restart of the scheduler meet `Pending`, `Recovering` and resending.
3. *New modules*: `ProvisioningJobs` (claim, renew, roll back, complete, clean-up by age, with
   an abstract job queue: a job is run by one driver at a time and completed once); the
   dual writer.
4. *Prove more*: what these extensions add. Of the present modules only liveness is not proved
   (section 6).

Modules are written for proof as well as for TLC: constants with named assumptions as weak
as the code justifies, one action per operation, no `RECURSIVE` operator anywhere.

## 3. Modules and their correspondence to the code

`PROJECT.json` names, under `map`, the lines every definition stands for.

### AlertRuleScheduler
A rule definition is a version and a fingerprint; type, pause flag and interval are
functions of the fingerprint, because the code compares nothing else. A rule's state is
"none", "normal" or "firing" together with the fingerprint it was computed from (0 for
what `Warm` loaded).

| TLA+ | code |
|---|---|
| `db`, `InsertAlertRule`, `UpdateAlertRule`, `DeleteAlertRule` | `store/alert_rule.go`: new rules have version 1, updates add one |
| `schedulable`, `registry` | `alertRulesRegistry`, `ruleRegistry` (`registry.go`) |
| `ProcessTick` (`Fetched`, `UpdatedRules`, `New`, `Restarted`, `ToDelete`, `Ticked`) | `schedule.processTick`, `updateSchedulableAlertRules`, `deleteAlertRule` |
| `evals`, `EvalDrain`, `EvalBlock`, `EvalCancelled` (and `Update...`) | the goroutines in `alertRule.Eval` and `Update`, from call to return |
| `routine[i]` | an `alertRule` or `recordingRule` with the program counter of its `Run` |
| `RunUpdate`, `RunEval`, `StartAttempt`, `EvaluationEnds`, `EvaluationFails`, `Backoff...`, `ProcessEvalResults`, `Send`, `RunDone` | the cases of the select in `Run`, cut where it calls out or waits |
| `Shutdown` | cancellation of the root context |

`ProcessTick` is one action: what it reads and writes belongs to the scheduler goroutine, and
the goroutines it starts take their first step later. The API never waits: it may change, delete or
create a rule in every state. `routine[i].born` is history: whether the routine was made while another
one of its rule, as an alerting rule (`Evaluates`), was still live. A failed remote write of a recording
rule, folder titles and metrics are left out.

### AlertState
One instance of one rule whose settings (`For`, `KeepFiringFor`,
`MissingSeriesEvalsToResolve`, what errors and missing data map to) are chosen at the start.
Time counts intervals. `Transition` is `State.transition` with `resultNormal`,
`resultAlerting`, `resultError`, `resultNoData` and `resultKeepLast`; `MissingTransition` is
`processMissingSeriesStates`; `NeedsSending` and `PostableAlert` decide what is sent and under
which alert name. The routine is cut into `ProcessEvalResults` (cache), `Sync` (database) and
`Send`, with `SyncError`, `SendLost` and `Crash` in between. `breachedSince` and `quietSince`
are history: since when every saved evaluation found the condition true, or false.

### ServerLock, ServerLockInterval
The row of one action name and the servers' places in the function. Time is kept as ages
that saturate at `AgeCap`, where nothing more depends on them, so it needs no bound. A server
compares a stamp, written by another clock and truncated to a second, with its own clock: the
result of the comparison is a choice within `ClockError`.

`ServerLock`: a server takes its stamp before its row is committed (`Acquired`), any time up to `MaxHold`
before; a commit whose answer is lost (`AcquireAnswerLost`) is a step of its own. `ServerLockInterval`:
`getOrCreate` looks for the row (`HasRow`), reads it (`Get`) or finds none (`GetNone`) and then inserts one
(`CreateLock`), or loses that race to another server, which is an error (`CreateLockLost`) and not counted
as a fault; `DatabaseError` and `AnswerLost` are faults. `MaxDelay` bounds the time between the stamp and
its `UPDATE`.

### TenantQueue, TenantFifo
`Deliver` and `ScheduleDone` are the loop of `scheduleRoundRobin`; `AcceptItem`, `RefuseItem` and
`TakeDequeue` are the select of `dispatcherLoop` with the handler it calls (unbuffered channels:
sender's select, receive and handler are one action); `LoopEnds` and `Stopping` the shutdown.
`Caller` is `runInQueue` with its back-off, `Worker` is `Worker.run` with `Dequeue`.
`hand[w]` is the response channel of capacity 1 and then the item that runs.
`TenantFifo` says the same without dispatcher, workers and channels: per tenant a bounded
queue from which items are handed out in order, and may be lost only after a shutdown began.

`TenantQueue_proofs` covers both halves of this: first the list and the turns, then where the
items are, and that every step is one of `TenantFifo` or none.

### FetchQueue
JavaScript runs one event to its end before the next, and inside an event `Subject.next` calls
its subscribers before it returns. The model keeps what an event has still to do in
`stack`: a frame for the entries being emitted, the updates that `concatMap` holds back, the
consumers being told, the tear-downs. `EventStep` does the next of these; the application and
the network act while the stack is empty. The consumers of the requests in `Reentrant` also start and
drop requests while they are being told, as the consumers in this repository do (Loki's `complete` starts the
next subquery). The requests in `Malformed` may fail while they are started: `internalFetch` then returns an
error at once, inside the worker's emission, or throws, and the subscriber never hears of a response ("stuck").
A "return" frame is a call of `subscribe()` that has not returned, so that the `unsubscribe` it returns
does not run yet (`Returning`, `Returned`). `lost` is history: requests whose entry `setInProgress`
put back after they had gone.

| TLA+ | code |
|---|---|
| `status`, `arrival`, `Add`, `SetDone`, `Publish` | `FetchQueue`: its state, whose keys stay in the order they were added in, and `publishUpdate` |
| `worker`, `Selected`, `NextUpdate`, `EmitEntry` | `FetchQueueWorker`: the `concatMap` over the pending entries, `filter`, and the mark InProgress; `ResponseQueue.add` |
| `StartFetch` | `internalFetch`: the request is sent, refused at once, or throws |
| `Subscribe`, `Unsubscribe`, `CancelledBy`, `ResolveCanceler`, `CancelAllInFlightRequests` | `fetch()` and the `unsubscribe` it returns; `inFlightRequests` and the `takeUntil` on it; `cancelNetworkRequestsOnUnsubscribe`; `cancelAllInFlightRequests` |
| `Respond`, `Unauthorized`, `Renewed`, `NotRenewed` | the answer; `retryWhen` with `rotateToken` (shared) or `loginPing` |

### LokiQuerySplitting, LokiShardSplitting
A query is its kind and step, a chunk two times, a response the groups and chunks it
was combined from, in order. `Partition` is the arithmetic of the two splitting functions; `NextRequest`,
`Skip`, `Ask`, `AnswerData`, `AnswerError`, `RetryTimer` and `Cut` are `runNextRequest` and the
callbacks of its subscription. `LokiShardSplitting` extends this module and runs its loop for each
of its own subrequests: `ShardQuery` starts it, `EndSplit` ends it, `ShardAnswer`,
`ShardShrink`, `ShardRetry`, `ShardGiveUp` and `ShardSilent` say what becomes of its end. A
request that is not sharded runs the inner loop alone (`outer = "off"`). Shards are places
in the sorted list, 0 the streams without one. `silent` and `asked` are history.

### PromQueryCache, TimeSeriesTable
`AmendTable`, `TrimTable` and `ClosestIdx` translate `amendTimeSeries.ts` case by case, with indices
from 0. `Refresh` is `requestInfo` and `query`, `Answer` is `procFrames`, target by target. Answers are
aligned to `Step`; what is cached is trimmed to the range and a `DatapointStep` before it (`Trimmed`), which
`findDatapointStep` makes the step of the queries for Prometheus and 0 for the other types of data source; `Shown`
is the part of it a panel sees. `db` is Prometheus: samples arrive, late by at most the overlap, and values computed from several samples
change. `good` and `stale` are history: the end of the last answer with data, and the times that a
failed answer left uncovered.

## 4. Runs

| Run | Shows | Bounds | States |
|---|---|---|---|
| `scheduler` | types, `StateIsOfCurrentDefinition`, `AlertmanagerAgrees`, `StoppedRoutineExits`, `DefinitionIsApplied` | 1 rule, a definition of every other tick and a paused one, 2 versions, 1 routine, 2 concurrent `Eval` and `Update` calls, API at any time | 231 k |
| `scheduler_deletion` | `DeletedRuleIsResolved` | an alerting and a recording definition, 2 versions, created again once, 2 routines, 2 attempts, failed fetches, API at any time | 2.4 M |
| `alert_state` | types and five properties | nine kinds of rules, 7 intervals, evaluations up to 3 intervals apart, ResendDelay 2, 1 fault | 5.4 M |
| `server_lock` | types, `MutualExclusion`, `HolderOwnsRow`, `OrphanedLockIsTakenOver` | 3 servers, interval 4, hold 2, clock error 1, 2 faults | 172 k |
| `interval_lock` | types, `StartsApart`, `KeepsExecuting` | 3 servers, interval 4, delay 1, clock error 1, 2 faults | 466 k |
| `tenant_queue` | types, `ActiveTenantsAgree`, `FairTurns`, `ItemInOnePlace`, `LostItemIsExplained`, `ImplementsTenantFifo` | 2 tenants with 3 and 1 requests, 2 workers, limit 2, a second try after a refusal, one caller whose context may end | 607 k up to symmetry |
| `tenant_queue_liveness` | `CallReturns`, `SchedulerStops` | 2 tenants with 2 and 1 requests, limit 1, a second try, one caller whose context may end | 255 k |
| `fetch_queue` | types, `SlotsAreHeld`, `NothingWaitsForNothing`, `OnePerRequestId`, `RequestsEnd` | 2 data requests and an API request, two of the three of one panel, 3 slots, two 401s; two may fail at the start and have consumers that act | 266 k |
| `loki` | types, `SplittingIsInvisible`, `NoHoles`, `ShardingIsInvisible`, `QueryEnds` | days of 4, six combinations of queries, five ranges; one selector with no, one or five shards over two ranges | 1.0 M |
| `loki_two_selectors` | finding 1 | two selectors with a shard each | |
| `prom_query_cache` | types, `RefreshIsTransparent` | 2 targets, 2 series, a window of 5, overlap 3, step and trim 2, 8 units of time, 1 revision | 750 k |
| `prom_late_samples` | finding 2 | 1 target, a window of 4, overlap 2, 6 steps of time | |

Why the bounds are enough:
- *Rules.* Rules do not share anything in the scheduler but the tick, so one rule shows what
  can happen to a rule; what several rules do to one tick is the choice of who is ready, and
  the theorem covers any number.
- *Routines.* Two routines of a rule are needed for one to meet what the other left: deleted and created
  again, or changed from a recording rule and deleted. The theorem covers any number.
- *Calls.* Two concurrent calls of `Eval` or `Update` are needed for one to drop the other.
- *Time.* Seven intervals hold a `For` of 2, a `KeepFiringFor` of 2, a stale series and one
  resend; alerts expire after four cycles, so both a kept and a dropped extension show. The rules
  satisfy `Timely` (section 6).
- *Servers.* Mutual exclusion takes two; a third meets the row that one of them has just taken over or
  deleted.
- *Tenants.* Being passed over takes three items of the other tenant: one being served, two
  that would overtake. `MaxRetries = 2` is two tries: a caller that was refused comes back to `Enqueue`
  after its back-off. A context that ends is needed once, at any moment of its caller.
- *Frontend requests.* Three requests with the rotation and the pings of two 401s contend for three slots, so some
  wait; two of them cancel each other, share a rotation or give it up, fail inside the worker's emission, and
  start or drop others from a callback. `MCFetchQueueSix.cfg` checks the invariants with six requests and
  consumers that only listen (1.4 M states, 75 s); it is kept beside the runs. The theorems cover any number.
- *Chunks.* With a day of 4 the ranges have one, two or three chunks, aligned or not, and one of no
  length; steps of 2 to 5 divide a day, do not, and exceed it.
- *Shards.* Five shards are asked for in several subrequests, so the size grows, shrinks and
  is cut at the end; every number of shards is covered by the theorem.
- *Samples.* With a step of 2 the server's times are not those of the refreshes, so the rounding of starts and
  ends shows, and the trim is not the identity; two refreshes with one between them given up or failed fit into
  8 units of time, and leave times outside the window.

`tenant_queue` uses symmetry among the workers and among the requests of a tenant that
cannot be told apart; its properties are safety properties that name none of them. Runs with
`CHECK_DEADLOCK FALSE` model systems that may stop: a scheduler that was shut down,
rules that no longer change, requests that are all answered, time that is up.

Every property of a passing run has a mutant in `PROJECT.json`: a plausible bug in the code, in
terms of the definition that models it, under which the run finds the property violated.

## 5. Fairness

Of the program alone, and weak but for two cases:
- the ticker ticks, and reads of the rules may fail, but not each time a tick is possible
  (`SF(TickWithFetch)`);
- each routine, each goroutine inside `Eval` or `Update`, each caller and each worker takes a
  step when it can take one for ever: goroutines are scheduled, queries have a timeout, calls
  to the Alertmanager return, an item's function returns. Fairness is per goroutine, not per
  case of a select, since Go does not promise to take every ready case;
- a routine that is ready for a message again and again while somebody has one gets one
  (`SF(Receive(i))`). An unbuffered Go channel hands a message over the moment a sender and a
  receiver wait for each other; a tick cannot come between, drop the message, and leave
  another that the next tick drops. With weak fairness alone, and as few concurrent calls as the run
  has, it could do so for ever, and `DefinitionIsApplied` would fail;
- servers that are up go on, their sleeps end, and clocks advance; a call to the database
  ends, in an answer or an error;
- an event of the frontend runs to its end, and a request that is on the network is answered or
  fails (`WF(EventStep)`, `WF(Answer(i))`);
- a loop of the Loki data source goes on by itself (timers included), and a subquery is
  answered, with data or an error (`WF(ShardRuns)`, `WF(SplitRuns)`).

Nothing is assumed of the API, of callers and consumers, cancellations, shutdowns, crashes or
restarts.

## 6. What is proved

`tlapm` checks every step. The theorems hold for all values of the constants that satisfy
the named assumptions.

| Theorem | Assumptions on the constants | Inductive invariant |
|---|---|---|
| `ServerLock_proofs!TypeCorrect`, `LockIsExclusive`, `HolderKeepsItsRow` | `LockAssumption`; `CallersAreQuick`: a caller is done, clock error included, before its row may be taken over | mutual exclusion, a holder's row is there with the holder's own age, no holder is past `MaxHold`. Exclusion alone is not inductive: a holder without row, or with an old one, would admit another server |
| `ServerLockInterval_proofs!TypeCorrect`, `ExecutionsStartApart` | `IntervalAssumption` | a server that read the present version holds the row's real age; one that goes to update found the row old; the row is at most `MaxDelay` older than the last start |
| `TenantQueue_proofs!TypeCorrect`, `ListIsExact`, `NobodyIsPassedTwice` | `QueueAssumption` | list, flags and queues agree, and whoever stands before a waiting tenant in the list has not been served since that tenant began to wait. Fairness of turns alone is not inductive: it does not say who is next |
| `TenantQueue_proofs!ItemsAreInOnePlace`, `LossIsExplained`, `QueueImplementsFifo` | `QueueAssumption` | `Places`: an item in a queue was enqueued and is there once; one in a worker's hand is in no queue and no other hand; a pending worker waits; after the shutdown of the queue nothing is pending; a caller that was told an error has no item running; a lost item names its cause |
| `AlertRuleScheduler_proofs!TypeCorrect`, `StateMatchesDefinition` | `SchedulerAssumption` | a busy routine is at the definition it evaluates; every state an evaluation produced belongs to a live routine of its rule that is at that definition (`StateHasOwner`); a state `Warm` loaded is only there while its routine has seen no definition or is evaluating its first, unpaused one (`WarmIsReset`) |
| `AlertRuleScheduler_proofs!AlertmanagerKnows` | `SchedulerAssumption` | `Agreement`: the only routine of a rule is `Settled`, which also says what it must have in hand while it sends: a firing message the firing state, a resolved one none, an empty one no difference |
| `AlertRuleScheduler_proofs!DeletedIsResolved` | `SchedulerAssumption` | `Registered`: no registered routine was told to stop. `Deletions`, for a rule whose alerting routines did not overlap and were stopped for no other reason than its deletion (`Clean`): at most one of them is alive (`OneAtATime`), and if the Alertmanager believes that the rule fires, that one will tell it otherwise (`NoneForgotten`); a recording rule's routine tells it nothing (`OnlyAlertingSends`) |
| `FetchQueue_proofs!TypeCorrect`, `OneInFlightPerRequestId`, `NothingWaits` | `FetchAssumption` (finitely many requests, any `Reentrant` and `Malformed`) | `TypeInv`: what a frame is about fits what it does, the worker has one frame if it is busy, what it starts is right above it. `Successors`: no two requests in flight have one id, and whoever has the id of one that is about to start is still to be told of its end by a frame above (`Warned`). `Waiting`: the last update held back is the present state, so that whoever waits then is seen |
| `FetchQueue_proofs!SlotsAreHeldByThoseInFlight` | `FetchAssumption` | `Slots`: a request's status in the queue fits its place, or a frame that will give back its slot, once, or it is one of those in `lost`. `Todo`: what the worker is about to emit waits, or was dropped in a callback. `Above`: a `subscribe()` that has not returned woke the worker that is above it. `Renewal`: a renewal that waits is emitted next, before anything could drop it |
| `AlertState_proofs!TypeCorrect`, `NothingFiresEarly`, `NothingIsResolvedEarly` | `AlertAssumption` | `Grounded`, of the instance in the cache and of the one in the database: a Pending one has been breached since before it became Pending, a Recovering one quiet since before it began to recover; and no time in it is later than the present |
| `AlertState_proofs!FiringStaysKnown`, `ResolvedStaysKnown`, `LostMessagesAreMadeUp` | `AlertAssumption`; the first also `Timely`: for every rule `MissingSeriesEvalsToResolve + ResendDelay + MaxGap <= 4 * Cycle + 1`, in intervals | `DInv`: what was last sent of the instance fits it and was sent less than ResendDelay before the last evaluation; a message under way fits it; what a restart would bring back is the same instance, or the one the Alertmanager knew before the evaluation |
| `LokiShardSplitting_proofs!TypeCorrect`, `ShownWithoutHoles`, `ShardsAreInvisible`, `SplitIsInvisible` | `SplittingAssumption`, `ShardAssumption` | `IInv`: the inner loop's place and response fit its chunks (`SplitInv`); the shards of a group up to its cycle were combined once or were silent, those of the present subrequest not yet, the later ones never (`ShardingInv`, `RestOK`, `AttemptsOK`); between two subrequests the inner loop is at rest (`IdleBetween`). For `SplitIsInvisible` also `OnceInv`: no chunk is merged twice nor before its turn, and a loop that is done without an error merged all but the exceptions |
| `PromQueryCache_proofs!TypeCorrect`, `RefreshesAreTransparent`, `OlderPointsKept` | `CacheAssumption`; `~LateSamples` | `EntryOK`: every cached sample is in the database (`Stored`); from the start of the next partial request on none is missing in front of a cached one (`Filled`); at the times that are settled and not stale the frame agrees with the database. `RequestOK`: a partial request fits every entry, any other has emptied the cache. `SeenOK`: what the server saw has changed since only where samples may still change, and only behind the last one it saw |

*Scheduler.* The argument runs over owners because several routines of a key may be
alive: the last one that is not on its way out owns the state. When a routine
drops the state of its rule, it may be that of another routine (section 7), so the state is
lost, but never wrong. The steps of the scheduler and of the API keep every routine as it
is but for the cause of its end, so the invariant rests on the routine's own steps, one
lemma each.

`AlertmanagerAgrees` has to speak of what is under way, because the state is changed first and sent
afterwards: `Step` sums up the steps of a routine as five kinds (one that says nothing, a reset, a
result, the sending, the end of a recording rule's routine), and each keeps `Settled`. A step of the scheduler can only add a
routine, and one that is new to a rule without others finds the two in agreement.
`DeletedRuleIsResolved` needs that nobody else resets the state between the routine's last message
and its end. A second alerting routine of the rule would, and nothing in the code prevents one: the
property is false of rules whose routines overlap (section 7, `EveryDeletionIsResolved`), and says what
holds of the others. That it holds of them whatever their routines were doing, through evaluations in
flight, retries, resets, failed reads and a recording rule in between, is what is proved; the API does what
it likes. A routine that is stopped for another reason, by a change to a recording rule or a shutdown,
only forgets its state, by design, and keeps that cause for ever; the property does not speak of its rule,
and neither does the invariant (`Clean`). The proof covers invalid intervals and disabled recording rules
too, which the run has not.

*Request queue.* An event is a stack of frames, and the invariants are about frames. The
worker emits from a selection made when an update was taken, and every update published
meanwhile is held back with the number in progress of its moment but is read against the
entries of a later one. That nothing is left waiting rests on the last of them alone: it carries the number
of the present state, whatever came before (`Waiting`). That the others may be wrong is why the limit does not
hold (section 7). `SlotsAreHeld` is proved for consumers that do anything in their callbacks. They may
drop a request that the worker has selected and not yet emitted; its entry is gone, `setInProgress` creates
it again, and nobody removes it: this is what `lost` names, and the proof shows that nothing else keeps a slot.
Two things are needed for that. A renewal is never dropped in this way, since only what is running can give one
up (`Renewal`, `Calm`). And a request that ends while its `subscribe()` has not returned is removed when it
returns (`Above`).

*QoS queue.* The refinement maps an item's place to its status in `TenantFifo`
(`StatusValue`). `SameStatus` says that a step that leaves an item's places alone leaves its
status alone, `OnlyOne` that a step changes the status of one item at most, and each action
that moves an item is then one action of `TenantFifo`. That an item handed out is the oldest of its
tenant needs nothing but the queue; that it is handed out once is `ItemInOnePlace`.

*Alert state.* `For` is measured from `StartsAt` of the Pending state, and what is to be shown is
about the evaluations. The gap is closed by `breachedSince <= startsAt`, which errors, missing
series, resets, failed saves and restarts all preserve: a restart brings back an older
instance, with an older history that is as true. `TransitionOK` is the heart; it covers all
combinations of result and mapping, `KeepLast` included.

*Alert delivery.* `FiringIsKnown` is not a property of every configuration, and the proof found the
condition. An alert lasts four cycles from the evaluation that last extended it; it is sent again
less than `ResendDelay` after it was sent, by an evaluation at most `MaxGap` late, and a Recovering
instance whose series is missing, for up to `MissingSeriesEvalsToResolve - 1` intervals, is sent
without being extended. `Timely` says that these fit, and it is tight: `MCAlertMissingSeries.cfg`
exceeds it by one. With an interval equal to `ResendDelay` and the default of two missing
evaluations it allows for one missed evaluation.

*Loki.* The shard loop is correct because whatever the size of a group became, the next shards begin where
those just combined end; this is where the proof needs a single selector (finding 1). That the time
loop neither repeats nor omits anything has two halves. One is arithmetic: whatever the length of a
chunk, the step and the alignment of the range, each instant a group asks for is in exactly one of
its chunks (`CoveredOnce`, from `LogsChunks`, `ReversedChunks` and `MetricChunks`). The other is about
the pointers of `getNextRequestPointers`, which only go down (`NextPasses`): what was merged is passed and
the present chunk is not, and what was passed was merged, but for the last chunk of a group before a
longer one (`NextSkipsNothing`).

*Prometheus.* Half of the proof is about tables of any length. `ClosestIsExact` and `AmendFacts` say when
the indices of `amendTable` are right: when the new table holds all there is from its start on and
begins at a time that the old one has, or behind all of its times. `TrimFacts` says the same of
`trimTable` when nothing is behind the end of the range. The other half shows that the cache only
merges such tables. That is what `Filled` is for, and it is where `~LateSamples` is needed: a
sample stored in front of a cached one is a new table that begins between two times of the old one
(finding 2). It has to hold from the start of the next partial request only, which the last
target's entry decides for all; the end of that entry never goes back, so an entry that missed
answers stays `Filled`. `RefreshIsTransparent` alone is not inductive: it speaks of one answer, and the
next one rests on the part of the frame that it does not ask for again. What is shown begins where both the
rounded start of the range and the trim allow (`Edge`, with any `Step` and any `DatapointStep`). With `LateSamples` the
types are false too, because a slice that ends at -1 leaves a frame out of order.

Only model-checked:
- all liveness (`StoppedRoutineExits`, `DefinitionIsApplied`, `OrphanedLockIsTakenOver`,
  `KeepsExecuting`, `CallReturns`, `SchedulerStops`, `RequestsEnd`, `QueryEnds`): liveness under
  fairness and `ENABLED` are out of the reach of the installed prover.

Every invariant and every action property that a passing run checks is stated by a theorem.

## 7. Findings

Each is a run that TLC ends with a counterexample.

1. `loki_two_selectors`: `groupHasPendingRequests` (`loki/shardQuerySplitting.ts:287`) tells whether
   a group has shards left, and on the way moves its cycle past the next ones. For the group just asked
   these were the ones asked for; for the next group nothing was asked for yet, and its
   first shards are never asked for, although "once all request groups have been executed, it
   will be done()" (line 45).
2. `prom_late_samples`: when a new table begins between two times of the old one, `amendTable`
   (`amendTimeSeries.ts:54`) keeps the rows before `closestIdx - 1` where it should keep those up to
   `closestIdx`. A late sample at the start of the overlap so removes a point before it. The
   comment (line 7) says `prev: [1,2,5] + next: [3,4,6] -> [1,2,3,4,6]`; the code returns
   `[3,4,6]`. `RefreshIsTransparent` is checked without late samples in front of later ones
   (`LateSamples = FALSE`) for that reason.

### Further counterexamples

Five configurations are kept beside the runs. TLC ends each with a counterexample; the
constants of the passing runs, or a premise of the property, avoid what they show.

| Configuration (module) | Violates | What happens |
|---|---|---|
| `MCSchedulerRecreate.cfg` (`MCAlertRuleScheduler`) | `FetchIsComplete` | `needsUpdate` (`schedule/registry.go:171`) compares keys and versions. A rule deleted and created again with the same UID between two ticks has version 1 again, looks unchanged, and the old definition is evaluated until any rule changes, although what is read "is the new current state" (`schedule.go:284`). `scheduler` is checked without re-creation |
| `MCSchedulerDeleteRace.cfg` (`MCAlertRuleScheduler`) | `EveryDeletionIsResolved` | the clean-up of a deleted rule's routine (`schedule/alert_rule.go:366`) deletes state by rule key. If the rule came back in the meantime this is the state of the new routine, whose firing alert nobody resolves when the rule is deleted again. `DeletedRuleIsResolved` holds of rules whose routines did not overlap (`born`) and says nothing of these |
| `MCAlertResolvedAt.cfg` (`MCAlertState`) | `ResolvedAtIsSet` | the comment of `State.ResolvedAt` (`state/state.go:73`) includes the transitions from Error and NoData to Normal; `transition` sets it only after Alerting and Recovering (line 856), so a `DatasourceError` alert runs out instead of being resolved. `ResolvedIsKnown` says what holds |
| `MCAlertMissingSeries.cfg` (`MCAlertState`) | `FiringIsKnown` | `processMissingSeriesStates` (`state/manager.go:569`) extends the end of Alerting instances only. A Recovering one whose series is missing is sent again with its old end and expires in the Alertmanager while Grafana shows it as firing, once the series may be missing for longer than `FiringStaysKnown` allows (here by one interval), although "for it the alert is still firing" (`state/state.go:365`) |
| `MCFetchQueueLimit.cfg` (`MCFetchQueue`) | `ParallelLimit` | `concatMap` (`FetchQueueWorker.ts:48`) takes the number in progress from an update it held back and the entries from the present state. Two data requests run in two slots and four wait. One that runs is dropped and its slot goes to the third, whose emission cancels the other one (same request id); then the third fails while it is started. Both slots came free inside one emission, and of the updates held back (2, 1, 0 in progress) the last two let one and then two data requests start: three run where two may, although "the request queue's limit for parallel data source requests is hard-coded to 5" (`contribute/architecture/frontend-data-requests.md:46`). The tests push one update at a time |

### Observations

What the models contain, or showed on the way, but no configuration is about:
- `runInQueue` (`pkg/storage/unified/resource/server.go:1374`) waits for ever if its context is done
  before the first try: the loop is not entered, `err` is nil, and `wg.Wait` waits for an
  item that was never enqueued (`WaitForNothing`). The same wait never ends for items that
  `Queue.stopping` forgets.
- The comment of `Dequeue` (`pkg/util/scheduler/queue.go:303`) says it returns when the queue is
  closed; a request the dispatcher has already taken waits for its context only. The comment
  of `Enqueue` (line 264) says it blocks when the tenant's queue is full; it returns
  `ErrTenantQueueFull`.
- A recording rule's `Run` returns when the subsystem is disabled
  (`schedule/recording_rule.go:141`) and leaves `Eval` blocked until the rule is stopped. A rule whose
  interval is invalid when it is first seen is registered without a routine that runs
  (`schedule.go:337`), and if it is corrected nobody starts it.
- The fingerprint (`schedule/registry.go:217`) leaves out some fields of a rule, `KeepFiringFor`
  among them; a change of these resets nothing.
- A stale instance leaves cache and database before its resolved message is sent
  (`state/manager.go:563`); if that message is lost the alert runs out instead.
- A consumer that drops a request while it is told of a cancellation changes the queue in the middle of
  the worker's update, which goes on with what it had selected: a request that is dropped before its turn is
  marked InProgress although it is gone, and keeps the slot until the page is reloaded (`lost`): its
  teardown ("called whenever the returned Observable ... is unsubscribed/errored/completed/canceled",
  `backend_srv.ts:135`) has run already.
- A request that cannot be built makes `internalFetch` throw (`backend_srv.ts:306`) inside the worker's
  callback: its consumer hears nothing, and the entry stays InProgress until the consumer goes ("stuck").
- `ServerLock` is checked and proved for callers that keep the package's rule ("maxInterval should be so long
  that is impossible for 2 processes to run at the same time", `CallersAreQuick`). A later one deletes its
  successor's row, because the `DELETE` of `releaseLock` names no owner; no property is about that.
- Groups of Loki queries with an uneven number of chunks are asked for together, row by row from the
  newest; a group shorter than a later one gets a subquery whose range is undefined
  (`BeforeALonger`). Groups without shards behind the first are not executed at all. A chunk
  that fails inside a subrequest for shards ends the inner loop without a word
  (`skipPartialUpdates`), which the outer loop takes for an answer (`silent`).
- The Prometheus cache takes the end of the last target's entry for all targets, and moves it on
  when the server answered a 5xx with an empty frame: an outage longer than the overlap leaves a hole
  (`stale`). `amendTable` with index 0 slices to -1 and leaves the table out of order; `trimTable`
  drops the last row in range when the closest one is just past it.

## 8. What the models leave out

Alerting: query execution, templates, images, annotations and history; the content of rules
beyond what the code compares; sequences of rules; several instances of one rule and the spreading
of one Error or NoData result over them; jitter within a tick. Server locks: SQL isolation below "a
transaction happens at once, and fails or its answer is lost"; mixing the two kinds of server
lock on one name, which the package forbids. QoS: `NoopQueue`, used when QoS is off, which runs the
item in the caller. Request queue: `chunked()`, which bypasses the queue, and what is shown of a
response. Loki: the merging of frames inside `combineResponses`, loading frames, and queries that
cannot be sharded mixed with those that can. Prometheus: several series for each target, fields that
come and go, query types the cache is not used for. Everywhere: metrics, tracing and logging.
