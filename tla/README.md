# TLA+ models of the bot

Models, model-checking configurations and machine-checked proofs for the Go
code of this repository: the tooling under `src/internal` that a service is
assembled from, and the Telegram search bot under `src/app/telegramsearch`.

Every definition that models code is listed in `PROJECT.json` under `map` with
the lines it translates. Module `X` is the model, `MCX` its small instances,
`XProofs` the theorems about it. `MCRateLimiter`, `MCServer` and `MCChatBot`
have the instances of several models that share no variable: a behaviour is one
of a single part (`part`), the others keep an initial state. `RateLimiterProofs` and `ChatBotProofs` have the
theorems about several models each and extend all of them, which is why
`ConfigWatch`, `PatternList`, `ParallelSearch` and `HttpServer` name their
specification `WatchSpec`, `ListSpec`, `SearchSpec` and `ServerSpec`.

## 1. Inventory

### Parts, their state and operations

| Part | State | Operations |
|---|---|---|
| Background job (`scheduletooling/job.go`, `worker/`) | `runningCount` behind a mutex; the trigger; Prometheus counters | `Execute`, called by goroutines of quartz; `Middleware.Execute` around the job function; `handlePanic` |
| Scheduler (`scheduletooling/scheduletooling.go`, `update.go`, `cfg.go`) | collected jobs, registered jobs, `jobsMutex`, `oldConfigs`, the queue of quartz | `Add`, `Start`, the rescheduler goroutine, `Stop`, `Wait` |
| Database client (`rdb`) | a pool of connections, the callbacks of a call | `WithTx`, `RegisterAfterCommitCallback`, `TxRollbackFunc`, single statements, `Ready` |
| SQL driver (`rdb/internal/driver`) | names of registered drivers; per connection the actions its hooks have opened | `Open`, `Connect`, `Exec`, `Query`, `Prepare`, `BeginTx`, `Commit`, `Rollback`, each between two hooks |
| Texts (`rdb/array.go`, `sqltooling/conn.go`) | none | writers and parsers of arrays and connection strings |
| Similarity search (`controllerv1`) | a slice shared by the searches of a request, a context that cancels them, the cache of explanations | `TryCompletion`, `TryEmbedding`, `ExplainMessage` |
| Chat history (`controllerv1`) | threads and embeddings in the database | `DumpChatHistory`, `GenerateEmbeddings` |
| Rate limiter v2 (`resttooling/ratelimiter/v2`, `rate`) | patterns and limiters under a read-write lock, the hash of the configuration; per key the windows | `NewManager`, `Allow`, the goroutine that watches the configuration |
| Older rate limiters (`resttooling/ratelimiter`, `dynamicratelimiter`) | limiters under a lock, the last configuration | the same operations; limiters built at once, or per key |
| REST client (`resttooling`) | the request and its body, responses that are open, attempts that go on after they were given up | round trippers for retries, timeouts, limits, logs, metrics |
| HTTP server (`resttooling`, `openapiapp`) | the request's context, nested response writers, the error kept for the logs | middlewares; `PresentError`, `PresentStatus` |
| Application (`application`, `readiness`) | readiness, servers, the scheduler, a mutex for shutdowns | `Start`, `Shutdown` |
| Concurrent containers (`concurrent`, `ratetooling`) | maps, values, caches with a time limit, semaphores | `Get`, `Update`, `Acquire`, ... |
| Errors (`semerr`, `status`, `codeerr`, `sentrytooling`) | none | classification of errors |
| Migrations (`pgtooling`) | a version in the database | `Migrate`, with retries |

### How they interact

An application adds its jobs to the scheduler and starts it; quartz calls back
`Execute` on its own goroutines, and the rescheduler changes the queue of
quartz while it runs. Job functions and the controllers use the database
client, which retries on their behalf and calls their callbacks back after a
commit. The controllers call OpenAI through the REST client, whose round
trippers are stacked: a retry around a timeout around a limiter. Servers ask
the rate limiter before every request while the watcher replaces its patterns.

### What is hard

* Concurrency without an owner: the latch of a job, the slice of a search and
  the windows of a limiter are shared by goroutines whose order nothing fixes.
  Clocks and configurations are read before the lock under which they are used.
* Failure between two steps: a panic between the two updates of the latch, a
  connection lost between the commit and its answer, a configuration that
  cannot be read in the middle of a tick, one search of three that fails.
* Cancellation: contexts end while a commit, a search or a shutdown is under
  way, and cancellations are both a signal ("enough") and an error.
* Retries of what may already be done: transactions, single statements,
  requests that have timed out and go on, configurations that failed to parse.
* Values handed on by sharing: the reader of a request's body, a request whose
  context middlewares replace in place, the cache of explanations.
* Copies of one setting (live configuration, `oldConfigs`, the queue of quartz,
  the hash of the limiter) that are updated at different times.

`PROJECT.json` lists these as `hazards`, each at its line with the properties
that would catch it going wrong.

## 2. Modules

```
JobSlots  <==(refinement)==  InProcessJob   <-- InProcessJobProofs
                  (the latch is used by) Scheduler <-- SchedulerProofs, MCScheduler
                  (seen from outside by) Application
                  Application, HttpServer <-- ApplicationProofs, MCServer
RdbTx  <-- RdbTxProofs
SqlStatement, SqlText <-- SqlValues <-- SqlStatementProofs, MCSqlStatement
ParallelSearch   (one search of)  ChatBot
                  ChatBot, ParallelSearch <-- ChatBotProofs, MCChatBot
PathPattern <-- PatternList
                  FixedWindow, ConfigWatch, PatternList <-- RateLimiterProofs, MCRateLimiter
RestClient <-- RestClientProofs
ErrorMapping <-- HttpServer
```

### InProcessJob and JobSlots: one background job

`JobSlots` is the abstract promise: a job has `MaxRunningCount` slots and an
execution that finds none does not run. `InProcessJob` is the code: `pc` says
where each goroutine is in `Execute`; `runningCount` is the counter, and its
two `Update`s are the atomic actions `TakeLatch` and `Release`, because
`concurrent.Value` runs the function under its mutex. `JobStarted`,
`ExecReturns`, `ExecPanics` and `Finished` are the middleware. The order of the
deferred calls is modelled as it is: `finished(err)` is deferred after the job
function has returned, so a panic goes past it.

### Scheduler

Four parties: the caller of `Add`, `Start`, `Stop` and `Wait`; the rescheduler;
the execution loop of quartz; the executions. `mutex` is `jobsMutex`. A tick
(`TickBegin`, `TickJob` once per job in any order, `TickEnd`) holds it, as do
Start's scheduling and the part of `Wait` that collects the jobs. `TickJob` has
one disjunct per branch of the loop in `update.go`: first sight, turned on or
off, another interval, nothing that is supported. `GetConfig` returns the zero
configuration along with an error, and the tick goes on with it, as in the
code. quartz is external and modelled by how it is used: `ScheduleJob` refuses
a key without a name (`Schedulable`), the loop may fire between any two calls
and once more after `Stop`, and `Wait` ends when everything is over or at the
time limit. The latch is the abstraction of `JobSlots` (`running`).

### RdbTx

One call of `WithTx` per caller. `pc` goes through `loop` (retry.Do), `begin`,
`F`, `finish`, `callbacks`. Errors are the three classes that `isRetryable`
and `finishTx` tell apart. A commit has four outcomes: it succeeds, finds the
transaction over (`CommitDone`), is refused, or its answer is lost
(`CommitUnknown`), in which case the database may or may not have committed:
`durable` records the attempts that it has. The driver rolls back a
transaction whose context is done (`DriverRollsBack`), at any later time. A
nested `WithTx` is part of `F`.

### ParallelSearch

One request of `TryCompletion` or `TryEmbedding` (`served`), one goroutine per
time range. An append is a read and a write of the slice, so that the mutex is
needed for it to be atomic. The two handlers differ in when they cancel (after
an append that reaches `maxResults`, or before one that goes beyond it) and in
what they ignore when `p.Wait` returns. conc joins the errors of all the
goroutines, and `errors.Is` looks into the join.

### PathPattern, PatternList, FixedWindow, ConfigWatch: rate limiters

`PathPattern` has the pure functions of `pattern.go`: matching, and the
comparison of two patterns, including the index out of range for a pattern
without segments. `PatternList` is `parseConfig` inserting the paths of a Go
map, in any order, into the list. What the answers of the comparison should be
is defined beside it from the sets of requests that patterns match
(`TrueRelation`), and proved to be what it computes. `FixedWindow` is one key of one pattern under
concurrent calls of `Allow`: each call reads the clock, then goes through
`Allow`, the override fetcher, `OverrideWindows` and `WouldAllow`, each in a
critical section of its own. `ConfigWatch` is the life of a manager: the
watcher under `DoUntilSuccess`, the lock that waits for calls in progress, the
hash that is stored before the paths are parsed. `kind` says which of the three
managers of the repository it is; they differ in what is done under the lock
and in when the watcher ends.

### SqlStatement, SqlText and SqlValues: below RdbTx

`SqlStatement` has one call of `rdb` per member of `Calls`, of a kind that
stands for the methods that behave alike. A call goes through `retry.Do`
(`Attempt`, `GiveUp`, `BreakerDone`), the pool (`TakeIdle`, `Dial`,
`WaitCanceled`), the hook that sets the search path on a new connection
(`PathAnswer`), and then sends an operation and gets its answer (`Send`,
`Answer`). `hooks` counts, per connection, the actions that the hooks of the
driver have opened: `Before` and `After` are called where `wrConn`, `wrStmt`
and `wrTx` call them, a transaction's own action from `BeginTx` to the end of
`Commit` or `Rollback`. `link` says what travels on a connection; a connection
can be cut at any time, before or after the server has done what it was asked
(`lost`). `WatcherRollsBack` is the goroutine of database/sql that ends a
transaction whose context is done. `Ready` takes a driver name for good each
time it is called.

`RdbTx` has retries and callbacks of transactions and an abstract connection;
`SqlStatement` has the connection in detail and transactions of one statement.

`SqlText` has the writers and parsers of arrays and connection strings over
sequences of characters: a parser is a recursive function from the number of
characters read to the state of its loop (`ArrayRun`, `OptionRun`), and its
steps (`ArrayStep`, `OptionStep`) are named after the branches of the code.
`BackendArray` is how PostgreSQL quotes, for comparison. `SqlValues` puts the
two together: which arrays, texts and connection strings there are, and what
must be read back (`ArraysSurvive`, `ConnStringSurvives`).

### RestClient

One call through a chain of round trippers. `optionsConfig` is the order that
`applyOptionsCfg` gives to the options; `at` is a position in it, 0 for the
caller, and a call moves (`Descend`, `Return`) between the positions whose
option the client has (`Installed`); `dir` says which way. `Retries` sends the attempts; `Timeout`
starts each in a goroutine and gives it up when its timer fires (`TimerFires`),
after which it goes on by itself (`late`): it sends what is left of the body
they share (`reader`), reaches the server, and may leave a response open. The
wire is `Send`, `Serve`, `Answer`, `Fail`, `Abandon`. Before the next attempt
the loop reads the response it drops to its end (`RetryAgain`, then
`DrainAndClose`, which may never come), after it has made a new body, which may
fail (`RetryWithoutBody`). The classifiers of errors
and responses, and the retry policies, are operators on sets of sentinels.

### ErrorMapping and HttpServer

`ErrorMapping` has the tables: an error is a sequence of nodes in the order in
which `errors.Is` and `errors.As` visit them. `HttpServer` is one request on
its way through the middlewares and back, or up with a panic. `objs` are the
request values and what their contexts hold: `*r = *r.WithContext(ctx)` changes
the shared one, and a middleware that passes a copy on makes a new one.
`saved` are the statuses that nested response writers remember; `hdr` is what
the client gets; `logs` are the entries on how the request ended, without the
stack traces that `logger.Panic` writes.

Which chains of middlewares there are is a constant, assumed to be in the order
of `NewMetricsHandler` and of the comments (`ChainsAssumption`): the recovery is
the outermost and there is one; there is one `LoggingMiddleware`, and Sentry
before it, whose context it needs; tracing is there once or not at all and
never below the logging ("NEVER put TracingMiddleware after any middleware that
manipulates logging ctx"). What handlers do is a constant too: any errors as
errors are made (`IsError`: nothing but a wrapper has something below it) with
either presenter, or the plain 500 of the metrics API for its panics
(`PlansAssumption`); a request may be on the stop list of the metrics.

### Application

Readiness checks one after the other; servers and the scheduler; any number of
calls of `Shutdown`, each with a goroutine per subsystem (`sub`) and a timer.
The scheduler is seen from outside, as `Scheduler` shows it: `Stop`, then a
`Wait` that ends when nothing runs or when the time is over.

### ChatBot

Processes that load an export (`dump`), the loop that generates embeddings
(`gen`) and the handlers of Telegram messages (`handler`) around one table of
threads (`rows`) and one cache of explanations. `findThreads` is its
loop, `found[i]` being what it keeps after `i` messages. A statement may have taken effect although its answer is lost, and
is then repeated by `rdb`; `before` and `saved` record the order of questions
and answers for the property about explanations.

## 3. Runs

| Run | Instance | Shows |
|---|---|---|
| `in_process_job` | 3 goroutines, 2 slots, 4 calls | the counter implements the slots of `JobSlots`, whatever panics; an execution is skipped only when the slots are really taken; the metrics of executions add up as long as none has panicked |
| `scheduler` | 2 jobs, one refused by quartz, 2 executions in flight, 2 changes among on, off, invalid and unreadable | no job is closed under an execution before the time limit, Wait is bounded; the queue of quartz agrees with the configuration seen last at every point of a tick, and in the end with the live one |
| `rdb_tx` | 2 callers, one idempotent, 1 connection, 2 attempts | nil means committed, no second run of an F that is not idempotent, connections given back, cancellation ends the call |
| `sql_statements` | a call of any kind and a transaction, 1 connection at a time and 2 in all, 1 cut, 2 attempts; arrays of 2 strings of 2 characters, array texts of 7, connection strings with all seven options and hosts of 3 characters, at most 2 backslashes and 2 quotes of a value escaped instead of 100 | hooks pair on every connection; an effect is repeated only by a retried method after a lost answer, and an error means no effect but lost ones; a call whose context is done ends and gives its connection up; texts are read back as written |
| `chat_bot` | an export of 7 messages and 2 loads into 4 rows, or 5 messages of 2 senders; every export of 4 messages for `findThreads`; a search in 3 ranges with up to 2 rows each, `maxResults` 2, both handlers | a thread is a first message and what answers it, one way or another; a load that reports success has stored every thread; the generation of embeddings reports success only when nothing is left that it began with; an explanation is about the sender's question that was cached last; no row of a search is lost; a search is given up only when there are enough |
| `rate_limiter` | up to 3 paths out of all patterns of up to 2 segments over 2 literals, with methods, duplicates, the root path and malformed ones; 4 calls, a short and a long window, 4 ticks, overrides that raise and lower the limits or shorten a window; 3 kinds of managers, 2 calls, good, bad and unreadable configurations, 3 changes | the list is in the order of precedence and the first match is the most specific by the sets of requests; what is admitted is within the limits then in force, with times out of order; a late call never moves a window back; a call works with one configuration; the watchers of the two older managers load what stays, also after configurations that failed |
| `rest_client` | 5 sets of options, GET and POST, 4 retry policies, 2 attempts | the response is the last attempt's and is open, metrics count attempts; at most one response is held; a POST is not repeated after a broken or timed out connection; the body is whole; the call returns unless a body stalls |
| `server` | 3 checkers, 1 server, 2 calls of Shutdown, 1 request and 1 job in flight; the chain of the metrics handler and one without tracing; some 15000 errors of up to 3 nodes with joins and a few of 4, both presenters; panics before and after the status | a clean shutdown has drained everything; Shutdown is bounded; work stops being taken on; panics are answered; logs, metrics and client see the same status; what is answered 500 is reported; the presenters agree |

Four runs end in a counterexample. Each states what a comment or a description
in the code says, and what the code does is another thing; `PROJECT.json` lists
them under `findings`.

| Run | What is said | What TLC shows |
|---|---|---|
| `job_gauge` (`GaugeIsInProgress`) | `worker/metrics.go:45`, "Number of in progress background jobs" | a job function panics past `finished(err)`, which is deferred after it (`middleware.go:54`), and the gauge stays one too high |
| `unreadable_config` (`UnreadableIsSkipped`) | `update.go:55`, "could not get config, skipping job" | the tick goes on with the zero configuration and changes the trigger or the queue |
| `watch_v2` (`WatchedV2ConfigIsLoaded`) | `v2/rate_limiter.go:212`, "watchConfig periodically checks for changes in the config, and updates the manager if necessary" | it returns with its first reload (line 233), and a later change that stays is never loaded |
| `try_embedding` (`EnoughRowsSuppressed`) | `story_try_embedding.go:59`, "if we got enough results - suppress, it's OK" | the search is cancelled with the row after the last one needed, the test for exactly `maxResults` is false from then on, and the request fails with enough rows |

### Where code and comments part

Beside the four above, disagreements that the models have as the code does it;
the guards of the properties make the exception where one of them is concerned:

* `rdb.go:184`: the list of callbacks is made once for all attempts; callbacks
  of an attempt that failed run after the commit of a later one, while
  `rdb.go:293` says "will be called after successful commit" (`RunCallback`).
* `pattern.go:315`: `/` is accepted with no segments, and `match` panics on it
  (`matchPanics`; `FirstMatchIsMostSpecific` says nothing about requests that
  meet it).
* `restretries/network.go:152`: the straightforward policy "Does not retry on
  non-idempotent calls", but a POST is repeated after a timeout of
  `resttimeouts` (line 169) and after an error that nothing classifies (line
  203). `NotRepeatedOnceBroken` is about the errors that the policies name.
* `restretries/client.go:42`: the body of a dropped response is read without a
  timer, while `options.go:39` says of `WithTimeout` that "the timeout includes
  connection time, any redirects if permitted, and reading the response body".
  `resttimeouts` ends with the headers, and a body that stalls holds the call
  (`DrainAndClose`; the first disjunct of `CallReturns`).
* `recovery_middleware.go:45`: "we don't recover http.ErrAbortHandler", but the
  deferred function has recovered it, and returns: net/http sees a handler that
  ended well, and the client gets 200 (`Hushed`; `PanicIsAnswered` is about the
  panics that are answered).

Others, met while modelling and visible in the models: a tick that sees a job
enabled and its interval changed at once leaves the trigger alone and does not
come back to it (`TickToggled`), and one that cannot read the first
configuration sets a trigger with interval 0 (`TickFirst`); `finishTx` skips the
rollback for any cancellation, also one of a context of F's own
(`ConnectionsGivenBack` makes the exception); a lost answer to a commit is
reported as aborted (`CommitUnknown`); without `FIsIdempotent` not even
BeginTxx is retried (`ShouldTry`); TryCompletion ignores the failure of a search
when it is joined with cancellations (`WaitFails`; `GivenUpOnlyWhenEnough` is
about searches of which none has failed); a request that an override lets
through is counted in no window (`WouldAllow`), and one may be turned down
because of a window that has expired (`wouldAllow`).

In the newer modules: a connection whose search path cannot be set is neither
used nor closed (`PathAnswer`, state "leaked"); the wrapped connection hides
`SessionResetter` and `Validator` of pgx, so that a dead idle connection is
found out by the next call (`TakeIdle`); a failed `Ready` uses up one of 1000
driver names (`ReadyNoSlot`); the goroutine that sends the pool's metrics sends
them once, and ends with the context of readiness (not modelled). A request
that was given up reads the body of the one that is retried
(`RetriedBodyIsWhole` assumes none). The tracing middleware
passes a copy on, so that errors set inside are lost for the logs outside
(`TracingDown`); a Status given to `PresentError` is answered 500 and not
reported (`FaultsReported`). When the time limit and the end of all subsystems
come together, `Shutdown` may log a clean shutdown (`Select`, outcome "raced").
A repeated INSERT of a thread stores it twice (`DumpIsComplete` says "at least
once"); `CreateEmbeddings` failing is treated as a thread without embedding and
the loop goes on (`EmbedNothing`), for ever if it always fails, which is why
there is no property that it ends. A limit of zero makes the older managers
divide by zero: v1 panics in the tick and keeps its limiters (`TickPanics`),
the dynamic one in the request that needs the limiter (`AllowKeyPanics`).

### Why the bounds are enough

A latch with two slots and three goroutines can be empty, partly and completely
full with one goroutine left to be refused; four calls let each slot be used
twice. Two jobs are needed for a tick or a Start that stops between them; two
changes lead from any configuration to any other over a broken one. One
connection for two callers makes the pool a bottleneck; two attempts make one retry. Three
ranges with two rows each exceed `maxResults` from two sides with a search left
to be cancelled. Patterns of two segments have every combination of literal,
identifier and multi at a last and at a position before the last, and requests
may be longer by one. Three paths make an insertion before, between and after.
Four calls fill the long window after the short one has expired, and one call
can be late by any number of ticks. Three changes lead from a good
configuration over a bad one to another good one. One connection at a time with
a second one after it, and one cut, make a statement fail and be repeated
elsewhere while a transaction waits. Two attempts make one retry and one attempt
that goes on beside it. Errors of three nodes have a wrapper above and below
any other, and those of four nodes a semantic error on either side of a codeerr;
what is special about longer ones is the matter of the proofs. Those of three
nodes and more come through one chain only: layers do not tell them apart, the
error handler does. Two calls of
Shutdown compete for the mutex. Two loads store one export side by side; a
sender with two questions and an explanation has them overlap or follow each
other; exports of four messages have chains, forks and dangling replies. Four
rows let both loads of an export of two threads come to their end, or one of
them store a thread twice.

`CHECK_DEADLOCK FALSE` is set because these systems may stop: calls are over,
the scheduler is shut down, or a bound is reached. Symmetry is used for the
calls on a window in `rate_limiter` and for loads and ranges in `chat_bot`.
The one liveness property of `rate_limiter` and the actions that are fair are
about the manager, whose states a permutation of those calls does not change;
`chat_bot` has safety properties only.

### Fairness

Goroutines that can run do run (weak fairness of the steps between two
blocking operations) and `sync.Mutex` does not starve a waiter (strong fairness
of `StartLock`, `WaitCloses`, `ShutdownLock` and `SwapConfig`, which compete
for a mutex). Timers expire: ticks happen, and the time limit of a shutdown comes. The driver
notices a context that is done. A configuration that is fetched is assumed
to come back, with an answer or an error. A caller whose context is done closes
the rows it was given. Requests on the wire are given up when their context is
done (`Abandon`), as net/http does, and so is the reading of a dropped response
(`DrainAndClose` is fair only then). In `SqlStatement` the F of a transaction
and its statements are assumed to come to an end (`Step` is fair, `InF` with
it), because `StatementEnds` is about the calls and not about what users do
between them; in `RdbTx` they are not. `ChatBot`, `ParallelSearch`,
`InProcessJob`, `FixedWindow` and `PatternList` assume no fairness, and no
property of a run uses the one of `HttpServer`. Nothing is assumed about servers, handlers,
the exporter of traces, job functions, `Close`, OpenAI, searches, a full pool,
or callers: none of these has to return or to happen.

## 4. Proofs

The theorems hold for every value of the constants under the assumptions named
in the modules (`ASSUME`), which TLC evaluates on the instances: finite sets of
goroutines, calls and ranges; positive sizes; that `Schedulable` and
`Idempotent` are subsets; that no server has the name of another subsystem; that
no sender of Telegram has the id 0, by which the code keys public chats; that the rows stored before a load are
threads; that the messages of an export have different ids and none has the id 0
(`InputsAssumption`); that a literal of a pattern has no braces and a method is not empty, and
that some text and some method occur in no pattern (`PatternAssumption`); that a
path is a pattern unless `newPattern` refuses it (`PathsAssumption`); that a number
is written without characters that `array.go` treats specially, and that the values of a connection
string have no more backslashes and no more quotes than `escapeForPostgres` escapes,
100 in the code (`ValuesAssumption`: with more, the rest is not escaped and nothing
is claimed); that nil, an error and a panic are none of the values that can be
read (`ResultsAssumption`); and, for the
HTTP server, the order of the middlewares and the shape of errors (section 2).

| Module | Invariant | Argument |
|---|---|---|
| `InProcessJobProofs` | `LatchInv`: the counter equals the number of holders, is within the capacity, and no decrement was reported | the bound alone is not inductive, a release could take the counter below the holders; the equation excludes it. `TakeLatch` adds one holder, `Release` removes one, other steps keep the set. The refinement of `JobSlots` follows: the test of the counter is the test of the cardinality, and so does `SkippedOnlyWhenFull`. `MetricsBalance` is inductive with the types: each step but a panic moves an execution from one side of the equation to another, and a panic only raises the gauge above the executions |
| `SchedulerProofs` | `SchedInv`: the safety properties together with the two that order the phases, `StartRegistersOnce` and `ClosingAccountsForJobs` | the queue follows the configuration seen because a job is scheduled by Start before any tick can know it, and each branch of a tick leaves the queue in agreement; no execution meets the Close of its job because `Wait` closes after a drain: one that ended by itself has left the loop gone and nothing in flight (`DrainAccountsForExecutions`), and only the loop makes executions; one that did not means that the time is over |
| `ApplicationProofs`, shutdown | `DrainInv`: the order of a call's steps; a goroutine past its first step has closed its subsystem; one that returned before the time limit left it empty | "clean" says that all goroutines returned before the timer. That what one goroutine left empty is still empty when the last returns needs that a closed subsystem takes nothing on, whichever call has closed it |
| `ApplicationProofs`, requests | `ServerInv`: on the way down nothing has been said and the context at hand has what the layers outside have put there (`GoingDown`); on the way up every writer above remembers the client's status and the entry is written when the logging has been passed (`GoingUp`); where a panic is says whether it is logged (`Unwinding`), and it goes no further than the recovery (`Recovered`) | all four properties look at the end of a request. The handler finds the hub of Sentry and the placeholder because the logging is below Sentry and the tracing, if any, above it: the copy of the request is made with the hub and before the placeholder. Every error has a code that is not 0 (`CodeFits`), so net/http completes only what a silent recovery has left |
| `ApplicationProofs`, errors | none, the facts are about constants: `SameCode`, `StatusFault`, `SemanticFault` | in a chain without joins a foreign error can only be last (`ForeignIsLast`), so that each table's answer is a function of the last type (`ByLast`, `MapByLast`) and of the first semantic error, which is the same below a codeerr above it (`SemanticOfTail`). What is presented has no node that the error has not, but for a new first one |
| `RdbTxProofs` | `TxInv`: for each place in `WithTx`, what the transaction, the error and the callbacks look like there | none of the properties is inductive alone: "nil means committed" needs that callbacks are reached by a commit only; "runs once" needs that F runs are bounded by attempts. A step of one caller leaves what is said of the others alone |
| `SqlStatementProofs` | `StatementInv`: for each place of a call what its operation, error and effects can be (`CallsFit`); what the pool, the transaction and the hooks of its connection are (`Owned`); no two calls have one connection (`OneOwner`); one that nobody has is at rest (`Unowned`) | the hooks that are open on a connection are a function of the place of its owner and the state of its transaction (`Running`), so each step opens and closes what the two places differ by. A step of a call cannot disturb what is said of another because the connections differ; the watcher of database/sql is the one step that changes a connection beside its owner, and `TxFits` says where it can |
| `SqlStatementProofs`, arrays | `ParserInv`, of the loop of `parseArray` and not of a state: a dimension that has been left is not 0. For what was written: after the first k characters of an element the parser has those k (`EscapedIsRead`, `PlainIsRead`), after the first k elements those k (`JoinedIsRead`) | what is written is a `FlattenSeq` of pieces, one for each character or element, and `Upto` is the text up to the k-th piece; `UptoGrows` and `ArrayGrows` (one character more is one step more) turn the induction into one step lemma per branch of the parser. Inductions are least counterexamples (`LeastNatural`, `InductionUpTo`), as are the proofs that the recursive functions have values (`ArrayRuns`, `OptionRuns`, `FlattenRuns`) |
| `SqlStatementProofs`, connection strings | after the first k characters of a value the parser is between the quotes with those k (`ValueIsRead`), after the first k options it is at the start with those k (`OptionsAreRead`) | the first pass of `escapeForPostgres` leaves the number of quotes as it is (`QuotesKept`), so that neither pass meets its limit (`AllReplaced`) and the two together put one backslash before each backslash and each quote (`EscapedGrows`). The seven keys differ, so that the map has every value (`GetOnly`) |
| `RestClientProofs` | `ClientInv`: the place in the chain and the attempts made (`Place`), the attempts on the wire (`OnTheWire`), responses open and in hand (`InHand`), metrics (`Metered`), why the loop went on (`Verdict`), readers (`Body`) | an attempt that is over has ended on the wire or is late, so that a response in hand can only be the one of the attempt counted last; what else is open is late. A repetition goes through "decide" with an error that its policy does not take for permanent, and `Verdict` ties that error to what happened on the wire |
| `RateLimiterProofs`, windows | `OverrideInv`: types, and as long as no override that was applied has changed a duration, `WindowInv`: durations as configured, no admitted call lies after the end of a window (`InTime`), the count of a window bounds what was admitted in it (`Counted`) | the count is an upper bound and not more: a request that a later window turns down is counted in the earlier ones, and one that is late is counted in a window that began after its time. A reset may forget the count because of `InTime`. A step that applies an override which changes a duration ends what is claimed, and nothing makes `DurationsKept` true again |
| `RateLimiterProofs`, configuration | `WatchInv`: types, `CallSeesOneConfig`, and no call before the manager is there | the patterns change in steps that need `reading = {}`, for each kind of manager |
| `RateLimiterProofs`, comparison | none, the facts are about constants: `CompareMeans`, `ComparisonIsExact` | `combineRelationships` is a conjunction for each of the questions "within", "around" and a disjunction for "disjoint" (`CombineMeans`), so the loop over the segments has a closed form (`FoldFinds`), and the whole comparison is an order `AtMost` in each direction. A pattern that is at most another matches no more; one that is not matches a request that the other does not: `Sample` makes one, with a text or a method that no pattern mentions, or one segment longer for a `{...}` against a `{}` |
| `RateLimiterProofs`, patterns | `ListInv`: no refused path is in the list, any two patterns are compatible (`AllCompatible`), the order, and that the limiters go with the patterns | inserting before the first less specific pattern keeps the order: what stands before it is not less specific by the choice of the index; what stands after and were more specific would, by transitivity (`MoreSpecificIsStrictOrder`), be more specific than the pattern at the index. Two patterns that match one request are not disjoint, and being compatible and in order leaves only that the first is more specific (`FirstOfTwo`) |
| `ChatBotProofs`, loads | `DumpInv`: a load that has not failed has stored what it has not got left | rows are only added, so a step of another load takes nothing away; a lost answer leaves the thread in `left` whether or not the row is there |
| `ChatBotProofs`, embeddings | `GenInv`: the rows there were at the begin are rows still; after nil they have embeddings | the loop ends with a page that is empty, and rows and embeddings are only added |
| `ChatBotProofs`, threads | `LoopInv`, of the loop of `findThreads` and not of a state: the map has the messages placed so far, each with the thread it is in; every thread grows by answers from its first message; no answer to a message that is placed is missing | the loop looks at a message once and only at what the map says of the message it answers, so that a thread is complete needs both directions: a place in the map is a place in that thread, and a message left out answers one that was left out. The loop is a recursive function; that it has values (`LoopRuns`) and that they satisfy `LoopInv` (`ThreadsFound`) are inductions over its steps, each done as a least counterexample (`LeastNatural`) |
| `ChatBotProofs`, explanations | `ExplainInv`: questions are cached once each and after they were asked; the cache has the last one of each sender; what was explained was the last one then | the property looks back at the order in which overlapping questions were cached, which the cache no longer shows: `saved` and `before` are the history that the invariant is about |
| `ChatBotProofs`, searches | `SearchInv`: only the holder of the mutex appends and the length it has read is still the length (`Guarded`); the slice has all rows appended; while the caller waits, a cancellation has its reason (`ReasonInv`), a search that failed or `maxResults` rows | "no row lost" fails in the second half of an append unless the length is the one read. The goroutine that cancels has counted the rows under the mutex, and the slice only grows |

`AdmittedWithinLimit` is conditional on `DurationsKept`: the overrides that were
applied so far have changed limits and no durations. Without the condition the
property is false, as TLC shows with the override of the instance that shortens
a window: a call that is late starts the window anew before calls that it has
already admitted. The condition is part of the property and not an assumption
about the constants, so that the theorem covers every execution up to the first
override that changes a duration.

`FaultsAreReported` had a proof attempt that failed for a good reason: the
exception for cancellations named the first semantic error of the chain only,
while `PresentError` looks below a codeerr, so that NotFound around a codeerr
around Canceled is answered 500 and not reported. That takes four nodes, one
more than the instance had; the property now names a Canceled anywhere in the
chain, and the instance has such errors.

Proved and in no run: type correctness, and the exact count and bound of
the latch (`ImplementsSlots` checks what they amount to); that a clean wait has
closed everything; that callbacks follow a commit and attempts do not overlap;
the inductive invariants themselves.

Model-checked only:

* the liveness properties (`ConfigEventuallyApplied`,
  `WaitIsBounded`, `CancelEndsCall`, `StatementEnds`, `WatchedConfigIsLoaded`,
  `CallReturns`, `ShutdownIsBounded`, `TrafficStops`), since
  fairness is out of the prover's reach.

## 5. Not modelled

The ClickHouse and Redis clients, the OpenAI client and most storage queries
are pure I/O: one request or statement per operation and no state. Migrations
call a library and psql one after the other. The parsers of bus routes and
earthquakes, encodings and helpers are sequential and stateless. Logging,
metrics beyond those the properties count, tracing, the command line and test
support are output and wiring. The maps and caches of `concurrent` are shared
by nothing in the repository, `Value` excepted, which is the counter of
`InProcessJob`. The data race on `InProcessJob.trigger` (`SetTrigger` writes an
interface value that quartz reads without a lock) is treated as an atomic
assignment. Of the HTTP server, the health handler, the prefix rewriting and
the settings of `http.Server` are left out; of the errors, messages, details
and stack traces; of the limiters, the token buckets of `golang.org/x/time`.

## 6. Plan

Worth proving next:

* That each transaction of `SqlStatement`, seen from its caller, is a call of
  `RdbTx`.

Modelling worth adding: the semaphores and caches of `concurrent` once
something shares them; `Application` composed with `Scheduler` in one run.
