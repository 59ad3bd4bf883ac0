# go-mongo-boilerplate in TLA+

A verification development for `rock288/go-mongo-boilerplate`: TLA+ modules that
model the program's own logic, TLC configurations that check them on small
instances, and TLAPS proofs of what matters most for every instance.

    tlc  -config SqsTwoWorkers.cfg MCSqsConsumer.tla    # one run
    tlc  -config Binaries.cfg MCBinaries.tla
    tlapm SqsConsumerProofs.tla                         # the proofs

`PROJECT.json` holds the index: components, runs, the seeded faults each property
catches, the source lines every definition stands for, findings and hazards.

## 1. The system

| Component | Source | State it keeps | Operations | What makes it correct |
|---|---|---|---|---|
| SQS consumer | `internal/platform/sqs` | none of its own: queues, visibility, receipt handles; the batch in hand | `Consume`, `ConsumeRetry`, `processMessage`, `republish`, `deleteMessage`, `Publish` | an accepted message is never lost; it reaches the DLQ only for cause and within its budget; shutdown is prompt |
| Kafka consumer | `internal/platform/kafka` | fetch position, committable records; the group's committed offsets | the same, with batch commits | the same; a commit never covers an unprocessed record |
| Worker process | `cmd/worker` | acquired resources, errgroup context, loops, health listener | initialise, signal, run, wait, clean up, restart | loops share one context; all return before their clients are released; nothing leaks |
| Health registry | `internal/platform/health` | per-check result, failure count, heartbeat times | probe round, readiness, heartbeat | readiness flips at the failure limit, resets on success |
| Rate limiter, middleware | `internal/middleware` | global bucket, per-client buckets, table of clients | admit, evict | the limit holds per client; memory is bounded |
| User, role services | `internal/user`, `internal/role` | documents, unique indexes | create, get, list | no two users share an e-mail, no two roles a name; the answer matches what happened |
| Pagination | `internal/platform/pagination` | none | clamp the limit, cursor encode/decode | a walk over the pages gives every document once and ends |
| Breaker, retry | `internal/platform/resilience` | breaker per name, attempts | get, execute, retry | one breaker per name; bounded attempts |
| Mongo monitor | `internal/platform/database` | span per command | start, finish, janitor | spans end once, none leaks |
| HTTP server | `cmd/server`, `internal/platform/httpserver` | listener, cleanup stack | start, signal, shutdown | requests in flight finish; cleanup after shutdown |
| Template initialiser | `cmd/init` | the source tree | strip, rename, delete, self-destruct | the tree is the template less what was removed; a failed step leaves a tree that can be retried or restored |
| Backoff | `sqs/backoff.go`, `kafka/consumer.go` | none | delay of a retry | between base and maximum, no overflow missed |
| Migrations, configuration, logging, tracing, error rendering | `cmd/migrate`, `internal/platform/{config,logger,observability,httperror}` | set at start | load, format | I/O and formatting: not modelled |

How they interact.  The server's handlers publish to the main queue or topic; each
worker process runs, inside one errgroup, `Consume` on the main and `ConsumeRetry`
on the retry queue/topic of both brokers.  A handler error is routed by
`decideRoute` to commit, retry, DLQ or nothing.  A retry copy is stored in the
retry queue (SQS delays it there, Kafka's retry loop sleeps) and forwarded to the
main queue by the retry loop, with its `x-retry-count`.  Loops call the health
registry's heartbeat after each poll.  A signal cancels the context all loops
share; `g.Wait` returns when they have.

Where it is hard: publishing and deleting (or committing) are two calls with a
crash window between them; visibility timeouts and rebalances start a second
processing while the first one runs; a Kafka batch is committed as a whole, after
some of it failed; a retry count has to survive four hops; cancellation can arrive
at every call.  Resources are acquired one by one by an injector that may fail in the
middle; requests, the probe goroutine, the span janitor and a shutdown run side by
side; the initialiser changes the tree in place.  `PROJECT.json` lists these hazards at their lines, with the
properties that watch them, and the ones no property covers yet.

## 2. Modules

| Module | Models |
|---|---|
| `Routing` | `decideRoute` of both brokers, the default budget |
| `MessageDelivery` | abstract: what both brokers promise |
| `SqsConsumer` | both SQS loops of every worker, the queues, failures, crashes, restarts |
| `KafkaConsumer` | both Kafka loops of every worker, the logs, offsets, rebalances, failures |
| `MCSqsConsumer`, `MCKafkaConsumer` | constant values for TLC |
| `AtomicDirectory` | abstract: names claimed at one instant |
| `Directory` | registration of users, creation of roles, the pages of the user list |
| `MCDirectory` | constant values for TLC |
| `Process` | what both binaries share: injector, cleanup functions, exit |
| `HealthRegistry` | the probe goroutine, failure counts, readiness |
| `RateLimiter` | both token buckets and the LRU table of clients |
| `CommandMonitor` | the span of each Mongo command, and the janitor |
| `ServerProcess` | the HTTP server: EXTENDS the four above |
| `WorkerProcess` | the message worker: EXTENDS `Process`, `HealthRegistry` |
| `Binaries`, `MCBinaries` | a process of either binary, their common properties; budgets for TLC |
| `Stripper` | the marker stripper as functions on lines, and its reference |
| `InitPipeline`, `MCInitPipeline` | the initialiser's steps, failures and retries; trees for TLC |
| `InitPipelineProofs` | TLAPS proofs about `Stripper` and `InitPipeline` |
| `Backoff` | the delay of a retry with its overflow, and theorems about it |
| `SqsConsumerProofs` | TLAPS proofs about `SqsConsumer` |
| `KafkaConsumerProofs`, `KafkaDeliveryProofs` | the same about `KafkaConsumer`: types and the dead-letter topic; then everything else |
| `DirectoryProofs` | TLAPS proofs about `Directory` |
| `BinariesProofs`, `LimiterProofs` | TLAPS proofs about `Binaries`: spans, resources, requests, readiness; then the rate limiter and the types of all of it |

### SqsConsumer

A *copy* is a stored queue entry with its `MessageId`; an application message may
have many.  `hidden` holds the ids whose visibility timeout or delivery delay runs.
`pc`, `batch`, `cur`, `route`, `attempt` are the control state of each loop: the
rest of `out.Messages`, the message in `processMessage`, the route taken and the
attempt of `republish`.  `live[w]` is the negation of `gctx.Err() != nil`.

| Action | Code |
|---|---|
| `Submit` | `Publish` to the main queue, accepted |
| `Receive`, `PollNothing` | `ReceiveMessage` |
| `Handle` | `h.Handle` and `decideRoute` on the main queue |
| `RepublishOk`, `RepublishFails` | one attempt of `republish`; failing = error, cancelled call, attribute budget, or stored but unanswered |
| `ForwardOk`, `ForwardFails` | the handler of `ConsumeRetry` |
| `Delete` | `deleteMessage`, whose failure is only logged; a stale receipt handle has no effect |
| `NextMessage`, `StopLoop` | the two tests of `ctx.Err()` |
| `Expire` | a visibility timeout or a delay runs out, at any time |
| `Cancel`, `Crash`, `Restart` | SIGTERM, death of the process, a new process |

`x-retry-count` is the number `rc`, zero when absent; `SanitizeForRepublish` drops
it and `IncRetryCount` counts from what is left, in the code's order.  The body,
custom attributes and trace attributes are one value, `msg`; `Custom[msg]` is the
number of custom attributes, which decides whether `Publish` accepts a republish.
`republish` is split into its attempts, because the context may be cancelled
and the visibility timeout may run out between two of them.

### KafkaConsumer

A topic is one partition: a log, the group's `committed` position, its `owner` and
the owner's fetch `position`.  A loop holds the part `first+1 .. last` of the log and
processes record `next`.  `Poll` moves the fetch position past the records it hands
out, whatever becomes of them; only `Rebalance` and `Restart` move it back to the
committed one, which is what franz-go does with auto-commit disabled and no
seeking.  `Commit` is `CommitRecords` up to `next - 1`; the commit of a member
that lost the partition may or may not take effect.  `ConsumeRetry` runs the
same loop with budget `MaxInt32` and the real producer, as the code does.

### MessageDelivery

`submitted`, `pending`, `done`, `dead`: messages are pending from submission until
they are done or dead, and only settled messages may be forgotten.  The refinement
mapping is `pending <- messages stored in a main or retry queue` for SQS and
`pending <- messages with an uncommitted record` for Kafka.

### Directory, AtomicDirectory

`docs` is the users and the roles collection, each document an `_id` and the name its
unique index is on (e-mail or role name; the random `uuid`, also indexed, never
collides).  A request is between its `CountDocuments` (`FindTaken`, `FindFree`) and its
`InsertOne` (`Insert`, `InsertDuplicate`), or done with an answer; requests run in any
number of server processes, so there is no lock around the two calls.  `Fail` is a call
that fails without effect, `Insert` with answer `error` one whose answer is lost.  The
driver makes the `_id` before it sends the insert, and ids of two processes compare in
no particular order, so `FindFree` takes any unused one.

`walk`, `cursor`, `seen` are a client that follows `next_cursor` over the users and may
ask another page size each time; `NextPage` is `List`, its query and the cut to
`limit` rows; `repeated` and `present` only serve the property.  Users and roles are
never deleted or changed by the program.  `AtomicDirectory` has the claimed names and
the answers; the mapping is `taken <- names of the stored documents`.

### Process, ServerProcess, WorkerProcess, Binaries

`proc` is where `main` is: `booting` (in the injector), `starting`, `running`, `draining`
(`Shutdown`, server only), `failing` (an initialisation that failed cleans up),
`cleanup`, `exited`.  `held` are the acquired resources in the order of `wire_gen.go`.

| Action | Code |
|---|---|
| `Acquire`, `AcquireFails` | `InitializeServer`, `InitializeWorker`, constructor by constructor |
| `Release`, `Exit` | the cleanup functions; `log.Fatalf` or the end of `main` |
| `StartServer`, `Listen` | `Health.Start`, the listening goroutine, whose listen may fail |
| `BeginDrain`, `EndDrain` | the select of `main`; `Server.Shutdown` returns, drained or timed out |
| `ServerSignal`, `WorkerSignal` | SIGTERM: it cancels the context where `NotifyContext` is installed; the worker installs it after its injector and dies of a signal before |
| `ServerArrive`, `Limit`, `BeginCommand`, `EndCommand`, `Respond` | a request: the middleware, a handler that may run a Mongo command, the answer |
| `StartWorker`, `RunLoop`, `StopLoop`, `StopHealthServer`, `EndRun` | `WorkerApp.Run` and `startHealthServer` |
| `ServerProbe`, `WorkerProbe` | the probe goroutine of the registry, with the Mongo ping or the heartbeats |
| `Janitor`, `Tick`, `MongoFlips` | the span janitor; time; the database |

`HealthRegistry` splits a check from the recording of its result, since the call is
made outside the lock and everything may change in between; the select of `Start` may
run another round after the cancellation.  `RateLimiter` has the three calls of a
request as three steps.  A bucket is named by the request that created it, so an
evicted one that a request still holds goes on existing.  Time is counted in refills of
one token; no request is between lookup and `Allow` for that long.  `CommandMonitor`
splits `finish` and the janitor's purge where they touch the map.

The loops of the worker only poll, pause, work and return here; what they do with
messages is `SqsConsumer` and `KafkaConsumer`.  A Kafka poll that fails reports its
heartbeat all the same, as the code does.

### Stripper, InitPipeline

A line is text, blank, or a marker.  The stripper never writes a line, it only deletes
some, so a file is the set of the positions of the template's lines that are left in it.
`InBlock` is the scan of `stripFeatureFromFile`, `OutsideBlocks` what it keeps (no blocks,
and no blank line just before one), `StripFeature` adds `collapseBlankRuns`.  The
reference, `Remaining`, says by counting the markers of the template which text belongs to a
removed feature.

`InitPipeline` turns `main` into the list of its steps (`Plan`) and runs it; every step
may fail or be interrupted (`Fail`), then the same command is repeated (`Retry`) or the
tree restored (`Restore`).  Renaming and stripping have one step per file.  The two steps
that touch several paths may also stop half-way: a deletion (`DeletePartly`: what it leaves
is in `partial`, and the worker's file may be gone or not) and the removal of residual
markers (`StripPartly`: from some of the files).  `Whole` is what exists completely; a tool
that is not whole cannot be run again, and a feature that is not cannot be imported.  The Go tools are external: `Compiles` says of a tree that
every file names the module of `go.mod` and uses no feature that is deleted or broken.  `Nested` says that
the blocks of what is to be removed are closed and that of two that overlap one is inside the
other: so are all blocks of all marked files in the repository.

### Backoff

`Word` is the wrap-around of an int64, `Half` is 2^63.  TLC's integers have 32 bits, so
no run evaluates this module; its statements are theorems.

### Seeded faults

Operators whose comment begins "Seeded fault" are plausible bugs of the definition
that follows.  Nothing uses them; each is the body that, put in place of the real
one, makes TLC find a property violated.  `PROJECT.json` pairs them.

## 3. Properties

For both brokers:

* `NoMessageLost`: until a message is handled or dead-lettered some stored copy of
  it is out of reach of every deletion under way (SQS), or some record of it is not
  committed (Kafka).
* `DlqJustified`: a message is dead-lettered only after its handler refused it or
  failed more often than the budget allows; duplicates never spend it early.
* `MessageConserved`: until something fails a message is in exactly one place.
* `BudgetRespected`: until something fails a handler fails at most `MaxRetries + 1`
  times on a message.
* `ImplementsDelivery`, `EventuallySettled`: safety and liveness of the abstract
  specification.

SQS only: `ShutdownBounded` (a cancelled loop begins at most one more handler call)
and `CancelledStops` (it returns).  The Kafka loop has no such bound: it does not
test the context between the records of a batch.

Directory:

* `ImplementsAtomic`: check-then-insert claims a name atomically; a request told
  "created" claimed its name, one told "conflict" found it claimed.
* `WalkExact`: a walk repeats no user and misses none that was stored when it began.
* `WalkEnds`: a client that goes on asking reaches the last page.

Both binaries (`Binaries`):

* `NoFalseAlarm`: not ready only after a critical dependency was at fault in
  `FailureLimit` checks in a row, as an independent count of the checks says.  The worker
  has no critical dependency, so of it this says only that it is never not ready; the server
  is what it is about.
* `OutageFollowed`: a lasting outage is reported, and so is its end.
* `StallNoticed`: a broker all of whose loops are stuck, or that is never polled, is
  reported, whatever the other broker does.
* `ClientBounded`: a client is admitted at most its burst plus the refills, and one burst
  more for each time `MaxSize` other clients came between two of its requests.
* `SpansSettled`, `SpansFlushed`: a reported command has no entry and an ended span; after
  a completed drain this holds of every command before the tracer shuts down.
* `DrainBeforeRelease`: requests in flight (unless the drain timed out) and running loops
  have their resources.
* `NothingLeaks`: a process that ends by itself has released all it had acquired.
* `SignalStops`: a signalled process ends.

Initialiser:

* `ResultExact`: the summary is printed only over the template less exactly what was removed.
* `ToolSurvives`: the initialiser removes itself only from a tree that builds.
* `StepsSucceed`: on a tree whose blocks are nested no step fails on what earlier attempts
  have left; only a fault from outside ends a run early.
* `RetriesMend`: on such a tree, while the initialiser is there, repeating the command mends
  a failed run.

## 4. Runs

| Run | Shows |
|---|---|
| `SqsTwoWorkers` | one message, two workers, every kind of failure, crash and restart: `TypeOK`, `NoMessageLost`, `DlqJustified`, refinement |
| `SqsTwoMessages` | two messages with six custom attributes in batches of two: `ShutdownBounded`, `MessageConserved`, `BudgetRespected` |
| `SqsLiveness` | `EventuallySettled`, `CancelledStops` |
| `KafkaTwoWorkers` | one message, two group members, any one failure: `TypeOK`, `DlqJustified`, refinement, `EventuallySettled` |
| `KafkaTwoMessages` | batches of two: `NoMessageLost`, `MessageConserved`, `BudgetRespected` |
| `Directory` | four requests for a user or a role, three of them with one key, two of these for one e-mail, with failures and lost answers, and a walk over the pages: all of the Directory properties |
| `Binaries` | one process of either binary under the budgets below: all of its properties |
| `InitPipeline` | every selection of features and a rename, on every marked file of up to five lines and on realistic ones with up to two failures: all of its properties |
| `SqsRetryBudget`, `KafkaRetryBudget` | violated: the budget never trips |
| `SqsAttributeBudget` | violated: seven custom attributes make a message impossible to republish |
| `KafkaRepublishFailure` | violated: a record skipped after a failed republish is lost |

Bounds.  `Id` bounds the copies stored at one time: a send waits while all ids are in
use, and each configuration has at least as many ids as the workload and one
duplicate can need (original, duplicate and the copy being published per loop).
`MaxFaults` bounds what can duplicate or delay without end (lost answers, failed
deletes, early expiry, rebalances, crashes and signals): one is enough to open
every window between two calls, since each window is opened by one failure and what
follows it is failure-free processing of the duplicates.  Failed SQS sends are not
counted, so `republish` can fail any number of times.  In Kafka they are counted:
with `MaxFaults = 1` three attempts never fail in a row, which is the condition under
which `NoMessageLost` holds there; `KafkaRepublishFailure` allows three and loses the
message.  `FailCap` bounds the transient errors remembered per message, two above
the budget, so that a violated budget is still seen; for SQS the count saturates, for
Kafka the handler stops failing there.  `ConfiguredRetries` is 1 in the passing runs,
the largest budget the code honours, and 2 in the violated ones.  `late` saturates
at 2, one above its bound.

`Directory` has as many ids as requests, all in every order, and pages of one and two
rows (page sizes zero, one and three are asked; one is the default and two the limit),
so a walk has up to four pages with inserts before and behind the cursor.

`Binaries` gives the environment of a behaviour one of four budgets, since all of them at
once are too many states: `Burst6`, six requests of three clients, two at a time,
through a full limiter; `Traffic`, four requests with time passing; `Outages`, the
database changing three times, a command and a signal; `Shutdowns`, two requests,
a command, a tick, a signal and a failure.  Interactions across budgets (a signal
during a burst, say) are between parts that share no state but `proc`.  A table of two entries
with three clients makes every eviction happen; `Burst` 1 and `GlobalBurst` 5 make both
buckets run dry; `TTL` is 1, enough for a bucket of one token to be full again, without
which cold eviction would refill it early (the defaults satisfy this: ten minutes against
a burst over the rate of seconds).  `FailureLimit` 2 (the code has 3) tells "in a row"
from "ever".  `SpanTTL` and `StaleAfter` 0 make one tick enough.  Clients are numbered as
they arrive, which is a symmetry.

`InitPipeline` enumerates all files of three to five lines with properly nested blocks
of two features, blank lines and text (without failures), two files shaped like the
providers with two failures, which may also strike inside a deletion or the last strip, and
one with an unclosed block.  Five lines hold two
nested or adjacent blocks with a line on either side.

Deadlock is checked in every run but two, `Binaries`, where processes end, and
`InitPipeline`, where the initialiser does: a live loop can always poll, and `Directory` stutters
only when every request is answered and the walk has ended (`Finished`).

Fairness (`FairSpec`).  Weak fairness of each loop's steps: goroutines are scheduled
and calls return.  Strong fairness of a successful republish and forward (SQS): the
service does not refuse one message forever; this excludes nothing the attribute
budget refuses, since such a publish is never enabled.  Strong fairness of
`ReceiveCopy`: SQS, over repeated polls, hands out a copy that keeps becoming
visible.  Strong fairness of `Conclude`: a handler that is called again and again on
a message, and may succeed or refuse it, eventually does.  Weak fairness of `Restart`:
the orchestrator restarts a worker.  Nothing is assumed about submission, failures,
signals or the early expiry of a visibility timeout.
In `Directory`, weak fairness of `NextPage`: the client goes on asking.
In `Binaries`, weak fairness of `main` (a drain has a deadline, a cleanup returns), of
the probe goroutine (a check has a timeout of two seconds), of the worker's clock, and of
a loop's return once it is cancelled (this is what `CancelledStops` shows for SQS); nothing makes
a poll or a handler return before that, so loops may be stuck for ever.
In `InitPipeline`, weak fairness of the steps and of `Retry`: the user tries again.

## 5. Proofs

Every safety property of every passing run is also a theorem, for all
values of the constants; the refinements are too.  Constants are assumed to be what
`SqsAssumption`, `KafkaAssumption` and so on say, and a theorem with a further hypothesis
states it.

### SQS (`SqsConsumerProofs`)

For every set of messages, workers and ids, every budget, batch limit, attribute count,
handler behaviour and set of failures:

* `TypeCorrect`: `Spec => []TypeOK`, which is inductive.  It includes that `republish`
  makes at most three attempts.
* `MessagesSurvive`: `Spec => []NoMessageLost`, the central promise: publish-then-delete
  loses nothing, however often messages are duplicated.
* `ShutdownIsBounded`: a cancelled loop begins at most one more handler call.  `LateInv`
  adds that a live loop, and one that stands before a handler call, has begun none.
* `DlqIsJustified`: nothing is dead-lettered before its handler refused it or failed on it
  more often than the budget allows.  `Provenance` carries this through the four hops: a
  copy's count never exceeds the failures of its message, and the decision a loop is
  about to publish was earned when it was taken.
* `SqsImplementsDelivery`: `Spec => ImplementsDelivery`.  That a stored copy is of a
  submitted message comes from `Provenance`, that what leaves the queues is settled from
  `NoMessageLost` (`QueueMove`, `DeliveryStep`).
* `MessagesConserved`: until the first failure a message is in exactly one place.  The
  invariant `Orderly` says why: what a loop holds is stored, hidden and held by no other,
  and of the copies of a message only one is not about to be deleted, none if the message
  is settled.
* `BudgetIsRespected`, under `Affordable`: one configured retry, publishes that do not fail
  and an attribute to spare for the count.  `Tally`: until the first failure the count
  on a copy covers the failures of its message, but for the copy being republished.  The
  hypothesis on the budget cannot go: with two retries it is false (`SqsRetryBudget`).

`NoMessageLost` is not inductive: the step into `pc = "delete"` must be known to doom
only a copy of a message that is settled or that was just stored again.  The
invariant `IInv` adds

* `IdsUnique`: no two stored copies share an id;
* `HeldMatches`: what a loop holds under an id is what is stored under it, if anything
  is; a deleted copy's id is not reused while a loop holds it;
* `DeletingHeld`: a loop at `delete` works on a copy of its batch.

The argument: `Send` takes an id that is neither stored nor held, so a fresh copy is
not doomed by anyone (`PublishEffect`); a loop dooms the copy it just handled
successfully, republished or forwarded, and the message is done, dead or has that
fresh copy (`BeginDelete`); `Remove` takes a doomed copy only; every other step keeps
the copies and dooms none (`KeepsMessages`, `NoDoom`).  `InvStep` does this action by
action.

### Kafka (`KafkaConsumerProofs`, `KafkaDeliveryProofs`)

* `TypeCorrect`: positions stay within their logs and loops within their batches.
* `DlqIsJustified`, as for SQS; the retry loop's own budget is never met, because no count
  exceeds one.
* `NothingLost`: `Spec /\ StopsOnlyToEnd => []NoMessageLost`.
* `KafkaImplementsDelivery` and `MessagesConserved`, under the same hypothesis.
* `BudgetIsRespected`, for one configured retry (`OneRetry`) and every behaviour.

`NoMessageLost` is false of the code as it is (`KafkaRepublishFailure`): a running worker
that stops a batch never sees the rest of it again.  `StopsOnlyToEnd` excludes exactly
these steps: while its worker runs, a loop goes from a record to its commit only after
the record is processed.  Everything else stays: workers that stop a batch because they
end, crashes, rebalances in the middle of a batch, failed commits, lost answers.  It is a
condition on behaviours, so `UndisturbedKeeps` derives it from one on the environment:
handlers of a running worker do not answer with a cancelled context of their own, and
failures are fewer than the attempts of `republish`, or no publish fails; each failed
attempt is a fault (`AttemptsCounted`).  `UndisturbedLosesNothing`,
`UndisturbedImplements` and `UndisturbedConserve` are the three theorems under that
condition, which the passing runs satisfy.

An uncommitted record is not enough of an invariant, since a loop may be about to commit
past it.  `Kept` says of a record that it is not committed, that no loop that works on
its partition is past it, and that the owner comes to it: it is not fetched yet, or in the
batch being processed, or the owner is ending.  `AllKept` is that every message not settled
has such a record; a step may take one away only by settling the message or appending
another (`AllKeptStays`, `AdvanceKeeps`, `StopKeeps`).  For conservation, `Orderly` counts
records ahead of the owner's place (`Processed`), at most one per message; it holds of
every behaviour, and `AllKept` adds that there is one.  `Tally` relates the count on such
a record to the failures of its message.

### Directory (`DirectoryProofs`)

For every set of requests, keys, page sizes and number of ids:

* `TypeCorrect`: documents are stored under proper ids only.
* `WalkIsExact`: `Spec => []WalkExact`.  The invariant `WalkInv` says what the cursor
  means: everything seen is at or below it, and every user stored at the beginning
  and at or below it has been seen.  `PageItems` is the fact about one page: the
  extra row is cut, so the page is not empty and the cursor is its greatest id, below
  the row that was cut.  `PageStep` moves the cursor over a page.  That a finite set
  of ids has a greatest one (`LastId`) comes from the well-founded order on `Nat`.
* `ClaimsAreAtomic`: `Spec => ImplementsAtomic`, the refinement: `Insert` is `Claim`,
  every other answer is `Refuse`, all else stutters (`AtomicStep`); it needs that a
  request still being served has no answer (`Unanswered`).

### Server and worker (`BinariesProofs`, `LimiterProofs`)

For every number of requests, clients and commands, every table, burst, limit and
environment:

* `SpansAreSettled`.  `EntriesKept`: a running command is in the map or its span has ended,
  and only a running one is in the map.
* `ReleasesAll`.  `Resources`: what is held is a prefix of what the injector acquires, and
  the cleanups still to run are what is held, reversed.
* `SpansAreFlushed` and `DrainsBeforeRelease`.  `Draining`: requests are in flight only
  while main runs or drains, unless the drain timed out; `CommandsAwaited`: a command
  runs while its request waits for it; `LoopsAwaited`: the worker's loops run only while
  main waits for them.
* `AlarmsAreTrue`.  `Agreeing`: the registry's count of a checker is the number of checks
  in a row that found the dependency at fault, one behind between a check and the
  recording of its result; `Probing` says which checkers a round still has before it.
* `ClientsAreBounded`, if `Burst <= TTL + 1`, that is, if an entry gets cold only after its
  bucket had the time to fill again.  `Recency`: an entry is used less recently than
  those before it, whose clients came since; so a client leaves the table early only
  after `MaxSize` others came.  `Rested`: a cold entry's bucket is full.  `Within`: what a
  client was given, what it can still take from the buckets that are its own, and the
  burst it is owed when it is away stay below its bound.  A client may hold several
  buckets at once (a request keeps an evicted one), so their tokens have to be added up:
  they are counted as the cardinality of a set of pairs of bucket and token, which needs
  no sum.
* `TypeCorrect`: `Spec => []TypeOK`, which is not inductive: that a client is in the table once,
  that an ended span is of a command that ran, that a round is over when the prober rests
  come from the invariants above.  `ProcessesTyped` collects them; it needs no bound on `Burst`.

### Backoff

For every word size:

* `BackoffExact`: with a base below 2^63 / 65536 ns (39 hours) the delay is
  `min(base * 2^n, max)`; `SafeProduct` shows that no product wraps, `WordFits` that the
  word is then the number.
* `BackoffGrows`: it is between base and maximum and does not fall with the retry count.
* `SqsDelayAccepted`: the SQS delay is positive and within the limit of the service
  whatever is configured, wrapped or not.
* `BackoffWraps`: beyond the bound there is a base whose product passes both tests.

### Initialiser (`InitPipelineProofs`)

For every list of features, every tree of two marked files of any length, every command and
every sequence of failures, retries and restorations:

* `TypeCorrect`: `Spec => []TypeOK`: only lines and directories of the template, and a run stands
  somewhere in its plan.
* `ToolSurvivesFailures`: `Spec => []ToolSurvives`.
* `ResultIsExact`: `Spec => [](Nested => ResultExact)`.
* `StepsNeverFail`: `Spec => StepsSucceed`, the safety half of `RetriesMend`.

The stripper first.  Its scan is a recursive function, and no induction scheme can be
instantiated here; but that the naturals are well founded can be cited for a set, and gives
induction on a set of numbers (`SetInduction`, by minimal counterexample).  With it
`ScanExact` says what the scan computes: after line i it is in a block of x if a start marker of
x is left at or before i and no end marker since.  What it meets, however, is not the template but
what earlier passes, for other features and of earlier attempts, have left.  `Less(lines, left, D)`
says that this is the template less the blocks of the features in D, blank lines aside.
`EndStays` is the heart: in such a file the two markers of a block have stayed or gone together, as a
block around one of them is around the other.  Hence the scan finds exactly the blocks of the
template (`ScanFindsBlocks`), leaves the template less D and x (`StripLess`) and is
never refused as unclosed (`ScanCloses`).  `CountExact` shows that the counts of the reference
differ by one in a block and by none outside, so that both mean the same text (`InsideExact`).

Then the plan.  `WorkShape`: every removal and renaming step of the command is in it, and no
others (`SelectedSteps` is a recursive function too).  `PlanFromEnd`: the last eleven steps are the
post-actions and the self-destruction whatever the command, so the number of steps left tells
which comes next (`Places`).

The invariant has five parts.  `StageInv`: the initialiser is whole until four steps are left,
the tree builds from seven on, and again whenever the initialiser is not whole, the markers are gone
at two (`StageHalfway` is the case of a step that stops half-way).  `DirsInv`, `NamesInv` and `FilesInv`
share one idea: what is not yet as it should be is *pending*, that is, the summary is not printed
and a run has the step that mends it before it.  `StillPending` shows once for all that a
required step stays pending under every action until it is done: a new attempt has all of them
before it, and a run that is about to print the summary has none left.  For a file, `FileInv` says
that it is the template less D for some set D of features to be removed, and that the strips of
the others are pending.  `TemplateInv`: the template is one of `Trees`.

`Nested` is needed: with blocks that overlap, a pass for one feature takes away a marker of the
other.  It is a condition on the template and the command only, not on what a run leaves.

### Model-checked only

* All liveness (`EventuallySettled`, `CancelledStops`, `WalkEnds`, `OutageFollowed`,
  `StallNoticed`, `SignalStops`, `RetriesMend`): fairness and `ENABLED` are outside the prover's reach.
* `ResultExact` and `StepsSucceed` on templates with overlapping blocks; `ResultExact` where the
  blocks of what is removed are not closed (TLC's tree with an unclosed block: the run stops).
* `BudgetRespected` for more than one retry, and Kafka's `NoMessageLost` without
  `StopsOnlyToEnd`, are false: they are findings.

## 6. What the checks found

1. **The retry budget never trips** (`SqsRetryBudget`, `KafkaRetryBudget`).  `republish`
   strips `x-retry-count` and then increments it: each retry copy carries 1.  With
   `max_retries >= 2`, a handler that keeps failing keeps being retried.
2. **Kafka loses a record after a failed republish** (`KafkaRepublishFailure`).  The
   comment says "don't commit, re-fetch next iteration", but nothing rewinds the fetch
   position, and the next batch's commit covers the record.
3. **A message with seven custom attributes cannot leave the main queue** once it fails
   (`SqsAttributeBudget`).

Seen while reading, without a run: `ConsumeRetry` (Kafka) says a failed forward is not
committed, but its producer republishes it to the retry topic and it is committed
(`kafka/consumer.go:262-269`; harmless for `NoMessageLost`); the README's advice to
inspect `x-retry-count` on the DLQ (`README.md:415`) finds none, as `republish` strips it
and only the retry branch sets it; `breaker.go:61` says ±20 % where the code gives ±10 %;
`mongo_otel.go:26` says the key is (connection, request) where it is the request; the
loser of a registration race meets the unique index (`InsertDuplicate`) and is answered
500, where `docs/api.openapi.yaml:61` documents 409 and `httperror` describes `Conflict`
as the answer for duplicate keys; `user/handler.go:53` answers any database error of a
list with 400, which the OpenAPI file calls "Invalid cursor".

Of the two processes: `server/main.go:83` says the tracer shuts down last, but
`wire_gen.go:60` runs its cleanup before Mongo's, so spans of the disconnection are not
flushed (those of requests are, `SpansFlushed`); `runbook.md:40` describes a drain up to
`APP_WORKER__SHUTDOWN_TIMEOUT`, which nothing reads: handlers get a cancelled context at
once and `g.Wait` has no bound; `kafka_checker.go:29` "records that a Kafka poll
succeeded", but `kafka/consumer.go:83-97` calls it after failed fetches too, while a poll
of an idle topic blocks without a heartbeat and looks stale after 30 s; a loop that is
stuck alone is hidden by its twin (`StallNoticed` needs all of them); the SQS checker is
registered without a handler and then fails for ever (degraded); the server exits
with 0 when it cannot listen; in the default configuration the drain (25 s) is shorter than a
handler may run (30 s), so `drain = "timedout"` is a real case; the rate limiter stands
before `/readyz`; a request the per-client limit rejects has used up a global token; a
limiter whose entries get cold before their buckets are full again would give a client that
pauses for the TTL a whole burst anew (`ClientsAreBounded` needs `Burst <= TTL + 1`).

Of the initialiser: in interactive mode `main.go:59-63` leaves `noObs` and `noSamples`
unset, so the summary lists stripped features as kept; `manifest.go:12` calls stripping
a feature without a block a no-op, but it collapses blank lines; prerequisites are
checked after the destructive steps; a retry with another `--module` finds no old path to
replace, and one with other flags may find "nothing selected" on a half-converted tree
(`RetriesMend` is about the same command); `rename.go:31` says `wire_gen.go` does not exist
yet, which it does.

## 7. Not modelled, and what comes next

Not modelled in `Directory`: request validation (an invalid request changes nothing),
the text of the cursor, the single reads (`GetByID`, the list of roles).

Not modelled in the two consumers: payload truncation in the DLQ, spans, the idempotency
key, the length of delays (timers fire at any time), several partitions per topic
(partitions are independent: position, owner and commits are per partition), a
SQS receive whose answer is lost (the copies wait for their visibility timeout, as
after a crash).

Not modelled in `Binaries`: several server or worker processes (they share nothing but
the database and the queues), the body of `/internal/readyz`, keep-alive connections,
handlers that outlive their timeout, a second signal (it has no effect), the end of a worker
by an error of a loop (`worker/main.go:50` with its `os.Exit(1)`, and the cancellation of the
other loops by the error group): the loops return only the error of a cancelled context
(`kafka/consumer.go:80` and `:86`, `sqs/consumer.go:68`, `:79`, `:85` and `:97`), which `main`
takes for a clean end, so neither happens as they are written.  In
`InitPipeline`: prompts, the wording of the summary, files without a final newline or
with lines of blanks only, a kill in the middle of one write.

Not modelled at all: migrations, configuration, errors, logging (I/O and formatting);
`resilience` and `httpclient`, which no program of the repository uses; the middleware
without state; mocks, scripts, deployment.

Next: the encoding of the cursor, if it is worth a module; the initialiser with a kill in the
middle of a write, which only `git restore` mends.
