# Verification of the mywebapi.com TypeScript SDK

TLA+ models, TLC runs and TLAPS proofs for `@mywebapi.com/sdk` (`src/` of the
repository). The SDK is a client library: it holds one OAuth token for many
concurrent calls, repeats what may be repeated and nothing else, bounds every
call by a deadline, tells its caller what is certain of a trade and what is not, and
turns pushed SignalR streams into pulled ones. Its hard
parts are interleavings of JavaScript continuations around `await`s, timers and
aborts, and answers that are late or lost; those are what is modelled.

## 1. The system

| Component (source) | State | Operations | Interacts with |
| --- | --- | --- | --- |
| OAuth token provider (`src/src/auth.ts`) | `cached`, `refreshPromise`, `discoveryPromise` | `getToken`, `acquireToken`, `getDiscovery`, `fetchDiscovery`, `waitForAbortable` | identity server; called by the transport and the hub clients, which share one instance |
| Transport and retry (`mutator.ts`, `retry.ts`, `deadline.ts`, `mutator.context.ts`) | per call: attempt counter, the operation's `AbortSignal`, the deadline timer | `authenticatedFetch`, `customFetch`, `withRetry`, `sleep`, `withDeadline` | token provider, API server |
| Request timeout plan (`request-timeout.ts`, `request-timeouts.generated.ts`) | none; constant table | `planRequestTimeout`, `operationDefaultTimeout` | transport; the server's `X-Request-Timeout` |
| SignalR stream bridge (`signalr.ts`, `signalr.mt5.ts`: `toAsyncIterable`) | `queue`, `waiter`, `error`, `done`, the subscription | callbacks `next`/`complete`/`error`, consumer's `next()`/`return()` | `@microsoft/signalr` streams, `for await` loops |
| SignalR hub clients (`signalr.ts`, `signalr.mt5.ts`) | `connection`, `pendingHandlers` | `start`, `stop`, `register` (all `on*`), hub invocations | token provider, `HubConnection` |
| Pagination (`pagination.ts`, `client.paged`, `attachResponseMeta`) | `cursor` of one loop, the metadata on a payload | `paginate`, `collectAll`, `paged` | bound endpoint functions |
| Errors and recovery (`errors.ts`, `customFetch`) | none | `isOutcomeUnknown`, `isRetryable`, `codeForHttpStatus` | transport, server; the recovery loop with `Idempotency-Key` is the application's (repository `README.md`) |
| Client facade (`client.ts`, `index.ts`) | immutable context | `bind`, `mt4`, `mt5`, `listTradePlatforms`, `realtime` | everything above |
| Generated endpoints (`src/generated/*.ts`) | none | 174 functions, each with its URL builder | facade, `customFetch` |
| Environments (`environments.ts`) | constant table | URL checks | facade |
| Model types (`src/generated/model`), the timeout table generator, examples, e2e, docs, CI | none | | |

What makes each of them correct:

* **token provider**: one acquisition at a time whatever the number of callers; no
  caller left waiting; nobody's abort disturbs the others; `forceRefresh` brings a
  newer token; a cached token is valid when handed out; a failure, of discovery too,
  fails nobody who calls later.
* **transport**: a POST or PATCH is never sent twice; the budget of requests holds
  although two loops nest; a replay carries a newer token; nothing is sent after the
  deadline or an abort; every call settles.
* **timeout plan**: the client's deadline outlasts the timeout the server really
  applies, whatever of the four sources it came from, and never undercuts `timeoutMs`.
* **stream bridge**: items once and in order, the end last, no starving `next()`.
* **hub client**: no callback lost, one connection alive, and the one in use has every callback.
* **facade and endpoints**: a function reaches the operation it is named after with its
  caller's parameters, and its deadline is planned for that operation's timeout.
* **errors and recovery**: a change takes effect at most once however often it is repeated,
  and an error that says nothing was executed is right about it for good.
* **pagination**: a walk over a list that changes skips and repeats nothing, whatever other
  walks do, and ends.

The behaviours that are hard to test: a settled promise wakes many waiters in the
same turn; state is read before an `await` and used after it (`start()`, `stop()`);
a signal fires between any two steps; a token dies between acquisition and use;
answers are lost; the client's clock and the server's start at different moments; requests
that were given up arrive and are executed later; catalogues generated apart from each other drift.
`PROJECT.json` lists each under `hazards`, at its line.

## 2. Modules

```
SingleFlight  <--implements--  TokenProvider    <--proves about--  TokenProviderProofs
     ^ instance
RequestPipeline                                 <--proves about--  RequestPipelineProofs
RequestDeadline                                 <--proves about--  RequestDeadlineProofs
OrderedStream <--implements--  StreamBridge     <--proves about--  StreamBridgeProofs
HubClient                                       <--proves about--  HubClientProofs
Pagination                                      <--proves about--  PaginationProofs
AtMostOnce    <--implements--  Recovery         <--proves about--  RecoveryProofs
                                  ^ extends
                               Client           <--proves about--  ClientProofs
                                  | extends
                               Facade --extends--> MT4Endpoints, MT5Endpoints --> Endpoints
                                      --extends--> OperationTimeouts
```

Granularity: JavaScript runs a continuation, and the promise reactions it triggers,
without interruption. One action is therefore one macrotask: a call up to its first
`await` on the network or a timer, the arrival of an answer with everything that
follows from it in the same turn, a timer, an abort event. Awaits on promises that
are already settled are no interleaving point for other network events.

Time, where it matters, counts down: a variable holds the time *left* before a timer
is due, `Tick` lowers it, and `Tick` waits while a due timer has not fired. No clock
has to be bounded.

### SingleFlight (abstract)
A shared refresh as its callers see it: `flight` in the air, how each flight
`landed`, and each caller's `seat`. A token is named by the flight that brought it.
`TokenProvider` is shown to implement it, and `RequestPipeline` is built on it, so
what is checked of the pipeline holds over the real provider.

### TokenProvider (`auth.ts`, `deadline.ts`)
| Model | Code |
| --- | --- |
| `cached.tok`, `cached.left` | `cached.accessToken` (by acquisition), `expiresAt - Date.now()` |
| `discovery` | `discoveryPromise`: null, pending, resolved, rejected (a value the code's reaction replaces by null in the same turn; only a mutant lets it stay) |
| `refreshPromise`, `acqs` | the field; every `acquireToken()` ever started and its progress |
| `call[c]` | one `getToken()` call: state, acquisition joined, `forceRefresh`, result; `seen` is a history variable |
| `GetCached`, `JoinRefresh` | `getToken()` up to its await, with `acquireToken()` up to its own (`Acquire`, `FirstPhase`); `Arrival` is what the caller sees in that turn |
| `Abort` | `waitForAbortable` rejecting one caller |
| `DiscoveryOk`, `DiscoveryRejects`, `DiscoveryTimeout` | `fetchDiscovery` settling; `getDiscovery` dropping a rejected promise (`AfterRejection`) |
| `Issue` | external: the server issues the token, the answer is on its way |
| `TokenOk`, `TokenRejects`, `TokenTimeout` | the token request settling, with the reactions on the shared promise in their order: cache, `refreshPromise`, then the waiters |

URL and document validation, and OAuth error bodies, are abstracted to accepted or refused.
`cached.left` stops at 0 where `expiresAt - Date.now()` goes on below it: the code only asks
whether it is more than the skew.

### RequestPipeline (`mutator.ts`, `retry.ts`, `deadline.ts`)
Several calls at once over one `SingleFlight` provider. `pc` says where
`authenticatedFetch()` stands (waiting for a token, exchanging, sleeping, reading the
body), `attempt` is `withRetry`'s counter, `fired` the operation's signal, `sent` the
history of HTTP requests. `Receive` is the 401 replay, the retryable statuses and the
hand-over to the consumer; `Thrown` is the retry decision; `Fire` is the signal, from
the caller or the deadline. The API server answers 401 exactly when it no longer
accepts the token (`dead`), and otherwise as it likes, late or never. Backoff lengths
and `Retry-After` only decide how long a call sleeps and are left out.

### RequestDeadline (`request-timeout.ts`, `deadline.ts`)
`planRequestTimeout()` as operators over one record of options (`Send`,
`ServerSeconds`, `DeadlineOf`), what the server makes of the wire (`Applied`,
external), and the race of the two clocks: the deadline's timer starts with the call,
the server's timeout when the last request arrives.

### StreamBridge (`toAsyncIterable`) and OrderedStream (abstract)
The five closures over `queue`, `waiter`, `error`, `done`; one action each. The
consumer calls `next()` one at a time, as `for await` does, and may call `return()` at
any moment. SignalR's callbacks may still come after `dispose()`. Of SignalR it is taken that
`subscribe()` returns before its first callback, so that `sub` is set, and that `dispose()`
does not throw (`return()` would swallow that, the error callback would not: hazards).

### HubClient (`start`, `stop`, `register`)
`conns` are the `HubConnection`s built so far (external: state machine, automatic
reconnect), `connection` the field, `starts`/`stops` the calls under way. `start()` is
split at its two awaits (`CallStart`, `Build`, `Opened`/`OpenFails`), `stop()` at its
one (`CallStop`, `StopDone`, or `StopFails` when closing rejects and the field stays).
`Overlap` names the calls that need not have settled when the application makes another
one. `orderly` is history: so far each call was awaited before the next, and no `start()`
came during a reconnect.

### Endpoints, MT4Endpoints, MT5Endpoints (`src/generated`)
The catalogue: one record per generated function, with the HTTP method, the operation's
name in the path, the number of path parameters and of other arguments, and, from its
JSDoc, the server's timeout and whether a request that ran out of time changed anything.
One definition per tag and kind of operation; `MT4Modules` and `MT5Modules` list the
modules in the order in which the client spreads them.

### OperationTimeouts (`request-timeouts.generated.ts`)
The timeout table, transcribed row by row from its own source file, so that comparing it
with the catalogue means something.

### Facade (`client.ts`, `mutator.context.ts`, `request-timeout.ts`)
Pure operators: `Bind` and `Namespace` (suffix cut off, later module wins),
`BindArguments` (padding, the context in the place of the options, arguments after it
passed on), `RequestOf` (the URL of a
generated function), `Resolved` (what `new URL()` makes of the `.` and `..` segments of
any path), `OperationDefaultTimeout` (route matching) and `Served` (the server's routing,
external). A reader of a path selects positions of it (`At`): `Kept` says of a segment
whether a later `..` takes it along, by counting the names in between. That is the loop of
the URL parser without recursion, so that proofs can use it.

What is assumed of the catalogue is stated where it is used, and TLC evaluates it on all
174 functions and the whole table: `NamesAssumption` (a name stands for one function of its
namespace), `EndpointsAssumption` (an operation is a proper segment; two path parameters
after the platform at most), `RoutesAssumption` (method, namespace, operation and number of
parameters name one function, and where dropping a parameter leads to another one, that is
a read) and `TimeoutsAssumption` (the table has one row per endpoint, with its template and
its timeout).

### Recovery and AtMostOnce (abstract) (`errors.ts`, `mutator.ts`, `retry.ts`, `deadline.ts`)
One logical operation sent with the recovery loop that the repository's `README.md`
prescribes. `pc`, `try` and `attempt` are the caller's loop and `withRetry` within it;
`wire` and `executing` are all requests under way and being executed, given up ones
included; `holder` and `stored` are what the server keeps under the key (external, as
`README.md` describes it). `Readings` is what `customFetch()` makes of an answer whose
header or body was lost. `AtMostOnce` says what a caller may rely on: `verdict` is "done"
only after the one effect, "refused" only if there is none and never will be. A job
without a key is repeated only when `isRetryable()` says so.

Three readings that matter. A bare `Internal` is not a definite refusal (`Definite`),
because `codeForHttpStatus()` gives it to a gateway's 502 to 504 as well. Doubt stays:
an error that left the execution of one request open is not undone by a `Busy` for the
next. The server's idempotency window is taken to outlast the recovery.

### Client
`Facade` and `Recovery` composed: any function of both namespaces is invoked with any
of its argument shapes, and the request it makes is the job of a recovery.
Two more assumptions, evaluated like those of `Facade`: `MethodsAssumption`, no change is
called with a method `withRetry` resends, and `ValuesAssumption`, the values used as
parameters are no operations' names (a dotted one in front of another can move that one
into the operation's place).

### Pagination (`pagination.ts`, `client.paged`, `attachResponseMeta`)
Walks over one list, each at its `cursor`; `meta` is the metadata on a walk's payload and
`paging` what `paged()` read of it, behind an await at which other answers may come in.
The server (external) sorts its list by key and takes a cursor as a position; the list
changes at any time. `latest` and `missing` are history: the last item given, and the
items that were there all the time and have not been given. `ServeCut` is an answer
without metadata, or with `hasMore` and no cursor; the walk ends there. `ServeOther` is a
payload that is no array, which `paged()` takes for an empty page whose paging it keeps; the
walk goes on. After either nothing is claimed of what is missing.

## 3. Runs

| Run | Bounds | Shows |
| --- | --- | --- |
| `token_provider` | 2 callers, 2 calls each, `Skew` = `Timeout` = 1 tick, lifetimes 0 (malformed), 1 (as short as the skew), 3 | the invariants, `CacheHitIsValid`, `FailuresAreFresh`, the refinement of `SingleFlight`, `EveryCallSettles` |
| `request_pipeline` | a GET and a POST, 2 attempts, 2 dead tokens | `UnsafeSentOnce`, `SendsBounded`, `ReplayCarriesNewerToken`, `NothingSentAfterCancel`, `EveryRequestSettles` |
| `stream_bridge` | 4 items, 6 `next()` calls | order, no starvation, finality, the refinement of `OrderedStream` |
| `hub_client` | 2 callbacks, 3 starts, 2 stops, overlapping, reconnecting | `NoCallbackInLimbo`, `FirstConnectionHasAll`, `OrderlyIsSingle` |
| `request_deadline` | 144 combinations of options in ticks of five seconds, token at hand | `DeadlineOutlastsServer`, `NoAbortBeforeMinimum` |
| `client` | the whole catalogue; per function the usual parameters and each one replaced by an empty, `.` or `..` value, with none of the further arguments, all of them, options as well, and one argument too many; `MaxAttempts` 2, `MaxTries` 4 | `RightOperation`, `DeadlineKnowsOperation`, the refinement of `AtMostOnce`, `EveryCallEnds` |
| `pagination` | 2 walks, 3 keys, lists and pages of any length, cut or odd answers, any number of changes | `WalkIsFaithful`, `WalkEnds` |

Why these bounds are enough. Two callers are needed for a caller to join, abort or
force while another waits; a second call each is needed to meet the outcome of the
first. Two attempts reach every combination of the retry loop with the 401 replay
(four requests); two dead tokens let the replay be refused too. Four items and six
calls fill the queue, drain it and go on after the end. Three starts and two stops
give a connection a predecessor and a successor. Values of timeouts are chosen below,
at and above each other. Of the margin of 30 s the server's cold start may take 20 s, and
10 s are left for transfer and queueing (`request-timeout.ts:26-28`): `Transit` is one tick
of 5 s, the most that is less than 10 s, since with the whole 10 s the answer and the timer
of the deadline would be due at the same instant. Four tries let a request arrive after later ones were
answered, given up and repeated; two attempts let `withRetry` resend in each. Three keys make walks of three pages, so that there is a page in the
middle; two walks can exchange their metadata. No symmetry is used: the liveness properties would not
tolerate it, and the instances are small.

`CHECK_DEADLOCK FALSE` stands where a system really stops: all requests settled
(`RequestPipeline`), all calls of the bounded application made (`HubClient`), the call
over (`RequestDeadline`, `Client`), every walk at its end and the list as it is (`Pagination`).
`TokenProvider` (time goes on) and `StreamBridge` (`return()` may be
called again) never stop, and are checked for deadlock.

### Fairness
`TokenProvider`: weak fairness of `Tick` and of the two deadlines, because timers fire;
none of the identity server's answers, the callers or aborts. `RequestPipeline`: weak
fairness of each call's deadline and of the continuations that run once a token has
settled, because the event loop runs them; none of the API server, the refresh or the
callers. `Client`: weak fairness of the deadline of a try and of the pause between two
tries, which are timers; none of the network and the server. `Pagination`: weak fairness
of the end of a fetch, which has a deadline and its retries, of the continuation in
`paged()`, and of a consumer that neither leaves nor stops asking; none of changes to the
list. So `EveryCallSettles` and `EveryRequestSettles` and
`EveryCallEnds` hold although no server ever answers. `WalkEnds` needs that the keys of a
list are finitely many: a walk over a list that grows at its end faster than it is read
has no end.

### Where code and documentation disagree
Five runs expect a violation; each is a statement of a comment or of the README that
the code does not keep (`findings` in `PROJECT.json` quotes them).

* `list_trade_platforms`: `listTradePlatforms()` "force-refreshes the token once and
  retries. Any non-2xx response after that throws" (`client.ts:446-447`). It runs through
  `withRetry`: after a replay that is answered 503, another attempt follows, and maybe
  another refresh.
* `hub_client_reconnecting`: the client "holds a single HubConnection"
  (`signalr.ts:170`). `start()` during an automatic reconnect builds a second one and
  leaks the first.
* `hub_client_restart`: callbacks queued before `start()` are attached before the socket
  opens (`signalr.ts:180-182`). They are attached to the connection of that `start()`
  only: after it fails, the next `start()` opens a connection without them.
* `hub_client_stop_overtaken`: the same claim, by another way: `stop()` sets
  `this.connection` to null after its await, whatever is there by then. A `start()` made
  before `stop()` has settled leaves an open connection that nobody can stop.
* `request_deadline_slow_token`: "the client deadline always outlasts the server's"
  (`README.md:10`). The deadline also covers token acquisition, earlier attempts and
  backoff, so a slow token uses up the margin that a cold start needs.

## 4. Proofs

Every safety property and every refinement of the passing runs is a theorem.
Each proof module also proves the type invariant, `Spec => []TypeOK`.

### TokenProviderProofs
It proves, for every set of callers, skew, deadline, set of
lifetimes and number of calls (assumption `TokenAssumption`):

* `SingleRefresh`, `NoWakeUpIsLost`, `CacheOnlyGetsNewer`, `ForceBringsNewerToken`: the
  four invariants of the run.
* `Refinement`: `Spec => ImplementsSingleFlight`.
* `NoInheritedFailure`: `Spec => FailuresAreFresh`; it needs that no rejected discovery is
  left in its field (`Rejected` never holds), a part of `TypeOK`.
* `CacheHits`: `Spec => CacheHitIsValid`, if `Timeout <= Skew` (the defaults are 30 s and
  60 s; without it the property fails, since the answer may travel longer than the skew makes up for).

The inductive invariant `IInv` strengthens the four invariants by `PromiseIsLast` (the
shared acquisition is the latest one) and `AwaitsNewer` (a waiting call waits for a
later token than the one it saw). None of the four is inductive alone:
`CachedIsNewest` needs that only the latest acquisition can still succeed, which needs
single flight; `ForcedGetsNewerToken` needs that the flight joined is later than the
cached token, which needs both. Two lemmas carry the steps: `NothingSettles` for those
that leave the phases alone, `SomeSettle` for the three that settle acquisitions.
`CacheHits` adds `AgesBounded`: an answer under way has aged by what is gone of its
request's deadline, so the cache is at most one deadline too optimistic.

### RequestPipelineProofs
For every set of requests, every choice of the idempotent ones, and every `MaxAttempts`
and `MaxDead` (assumption `PipelineAssumption`):

* `UnsafeNeverRepeated`, `BudgetOfRequests`, `CancelledSendsNothing` follow from
  `BudgetInv`. `UnsafeSentOnce` and `SendsBounded` say nothing of where a call stands, so
  neither survives a step alone; `Budget` ties the number of requests sent to `pc`,
  `attempt` and `forced` (an attempt that waits for its first token has sent nothing yet;
  only an idempotent call with attempts left ever sleeps).
* `ReplaysAreNewer` follows from `ReplayInv`, which adds `ProviderInv` (who waits is on the
  latest flight, who was served has a token of a flight that landed well) and `Replayed` (all
  tokens sent were acquired; a call that waits for its replay sits on a later flight than the
  token it was refused with). A flight in the air is later than every landed one, which is
  why joining somebody else's refresh is as good as starting one.

### RequestDeadlineProofs
For every set of options and every margin, cold start, transit time and delay
(`DeadlineAssumption`): `PlanMatchesServer` and `DeadlineHasMargin` about the plan itself,
`MinimumHolds` from the invariant `Elapses` (time spent and time left make up the deadline),
and `ServerAnswerWins` from `Outlasts`, assuming `MaxDelay + ColdStart + Transit < Margin`:
the run `request_deadline_slow_token` shows what happens without it.

### StreamBridgeProofs
For a stream and a consumer of any length (`BridgeAssumption`): `NothingLost`,
`NobodyStarves`, `EndComesLast` and `Refinement`. The invariant adds `Waits`
(the waiting call is the last one and the only pending one, and then the queue is empty and
the stream open), `Closes` (the flags agree with what closed the stream) and `Tells` (who was
told the end has drained the queue). The refinement maps a waiting call's answer to one
combined abstract step, which needs `Waits`.

### HubClientProofs
For every set of callbacks and every number of calls (`HubAssumption`): `NoneInLimbo` and
`FirstHasAll`, whatever overlaps and reconnects, and `OnlyOneConnection`, `Spec =>
[]OrderlyIsSingle`, with and without automatic reconnect. Its invariant says of an orderly
application `OneCall` (one call under way) and `Alone` (a connection is on its way only while
the call under way is about it, and a `start()` about to build another one finds none alive).
The runs `hub_client_reconnecting` and `hub_client_stop_overtaken` show that both halves of
`orderly` are needed. The types include that no queued callback is on a connection already,
or the next `start()` would attach it a second time.

### RecoveryProofs and ClientProofs
For every `MaxAttempts` and `MaxTries` (`RecoveryAssumption`), and any number of requests
under way: `RecoveryTypes` and `RecoveryIsAtMostOnce`, `Spec => ImplementsAtMostOnce`. The
abstract specification says nothing of requests that are still on their way, so the
invariant adds where an effect can still come from. `NoDoubt`: as long as no error has
left anything open, only the last request can be anywhere. `WithKey`: at most one request
executes, it holds the key, and the result stored is the one that took effect.
`WithoutKey`: the caller stops at the first doubt, with no request behind the last.
`CallerKnowsTheTruth` says the same without the abstraction: after nothing but definite
errors no request is left anywhere that could still be executed. `RecoveryTypes` includes
the bound on requests of two nested loops, `MaxTries * MaxAttempts`; it rests on `Budget`,
which counts the requests of finished tries and of this one.

`ClientProofs` shows, for every function of the catalogue and every invocation of it:

* `CallsReachTheirOperation`: `ClientSpec => []RightOperation`. The argument follows the
  call. `NamespaceFinds`: under a name without its suffix a namespace has that function,
  whichever module comes last, because a name is unique. `BoundArguments`: the context lands
  in the place of the options and nowhere else, however many arguments were passed.
  `RequestFacts`: the request's path is `PathOf` the caller's parameters. `UsualServed`: such
  a path leads to its own endpoint and to no other. `EmptyIsShorter` and `DotIsShorter`: a
  path with an empty or dotted parameter is served, if at all, as the operation of the same
  name with fewer parameters, and that one is a read (`RoutesAssumption`); where a dot would
  move a parameter into the operation's place, no operation has that name.
* `DeadlineIsTheOperations`: `ClientSpec => []DeadlineKnowsOperation`, from
  `TableKnowsRoutes`, which is about every path whatever its segments are: if the server
  routes it to an operation, the row of that operation is the only one that matches
  (`OnlyRow`), so the choice of the most literal row never has to decide.
* `ClientImplementsRecovery`: each call is a behaviour of `Recovery`, since its request is one
  of `Recovery`'s jobs (`JobIsJob`); hence `ClientIsAtMostOnce`, `ClientTypes` and
  `ClientKnowsTheTruth`.

`KeptDot`, `KeptDots`, `AtGap` and `ResolvedFacts` are general: what a path resolves to when
one of its segments is a dot, for paths of every length. The proofs never expand the
catalogue; they know it by the six assumptions only, so they hold for any catalogue that
keeps them, and a regenerated one only has to be evaluated again.

### PaginationProofs
For every set of keys, any number of walks and pages of every length (`KeysAssumption`):
`PaginationTypes` and `WalksAreFaithful`. The invariant adds `Place` (what was given lies
up to the cursor, what is at hand or missing behind it) and `Covers` (the page at hand has
everything missing up to the next cursor, or everything). Neither property is inductive
alone: they say nothing of the cursor.

## 5. Not modelled, and why

* The 330 model types under `src/generated/model` and the query strings of the endpoints:
  types without behaviour, and data that no property tells apart.
* A server that answers with the cursor it was given, lists that cut or odd payloads shorten,
  the bound URL builders, a `Busy` after an unknown outcome, a `dispose()` that throws in the
  error callback: hazards with a note, because nothing in code or documentation promises
  otherwise. Repeats of operations by row position are repeats like any other: `AtMostOnce`
  covers them.
* `next()` calls that overlap (nothing promises they work), timer widths (a delay above
  2^31-1 ms fires at once), `maxAttempts` below 1: listed as hazards without a property.
  Overlapping `start()` calls are modelled, but nothing promises that they leave one
  connection: `OrderlyIsSingle` shows that without them it stays one.
* Hub invocations (`streamTicks`, subscriptions) only forward to the connection.
* Environments, the validation of options, the table generator, examples: no state, string
  handling, or build time.

Only model-checked: the liveness properties `EveryCallSettles`, `EveryRequestSettles`,
`EveryCallEnds` and `WalkEnds`, because fairness is out of the prover's reach. The six
assumptions on the catalogue are evaluated by TLC, not proved: they are facts about 174
literal records. The proofs of `Client` cover one odd parameter per call, as its invocations
do; what several dotted parameters at once resolve to is not claimed.

## 6. Plan

1. Done: `TokenProvider`, `SingleFlight`, `RequestPipeline`, `RequestDeadline`,
   `StreamBridge`, `OrderedStream`, `HubClient`, with their runs and proofs.
2. Done: the catalogue of endpoints and timeouts, `Facade`, `Recovery` with `AtMostOnce`,
   `Client`, `Pagination`, with their runs and proofs.
3. Done: the catalogue's properties proved from assumptions that TLC evaluates, the budget of
   requests of a recovery, and what its caller knows, stated without the abstraction.
4. Left: timers with their width; `next()` calls that overlap; an idempotency window that
   closes during a recovery; the composition of `Client` with `RequestPipeline`, so that the
   401 replay runs inside a recovery.
