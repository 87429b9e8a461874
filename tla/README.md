# Verification of the Celerity Node SDK

TLA+ models of the Celerity Node SDK (`src/packages/*`), the TLC runs that
model-check them, and TLAPS proofs of their most important properties.  Every
definition is translated from the TypeScript source; `PROJECT.json` maps it to
the lines it stands for.

The SDK runs an application's handlers in two hosts: AWS Lambda
(`serverless-aws`) and the Celerity runtime (`core/bootstrap/runtime-*`).  Both
bootstrap a dependency-injection container from a graph of modules, register
the handlers found there, and run each invocation through a pipeline of layers.
System layers of the resource packages (`config`, `cache`, `queue`, `topic`,
`datastore`, `bucket`, `sql-database`, `telemetry`) fill the container with
clients the first time an invocation passes them.

All of it is single-threaded JavaScript.  What makes it hard is that every
`await` is a point where other invocations run: a flag that is checked before
an await and set after it, a cache that is filled by whoever answers last, a
lock that is released by a `finally` that runs too early.  The models make each
stretch of code between two awaits one step, and let TLC choose the order.

## Inventory

| Part | State it keeps | Operations | What is hard | What makes it correct |
|---|---|---|---|---|
| DI container (`core/src/di`) | providers, instances, `resolving`, edges, close stack | register, registerValue, resolve, resolveClass, closeAll, validateDependencies | overlapping resolutions of one token, failures at any depth, cycles | one object per token, the lock set is exact, dependents close first, every call answers |
| Config namespaces (`config/src/config-service.ts`) | values, time of the last fetch | get, getOrThrow, getAll, parse | overlapping fetches answered out of order, failing refreshes | bounded staleness, never unloads, catches up |
| Layer pipeline (`core/src/layers/pipeline.ts`, `core/src/handlers/*-pipeline.ts`) | `index`, `result` | next(), the five pipelines | layers are arbitrary code: they call next() twice, late, or do not await it | each layer entered once and in order, no success without a reason |
| Cache layer and the other resource layers (`*/src/layer.ts`) | `initialized` | handle | first invocations overlap, an initialisation fails half-way | a handler never runs before its clients are registered, all handlers share one |
| SQS consumer (`serverless-aws/src/adapter.ts`, `event-mapper.ts`, `core/src/layers/validate.ts`) | the handler cached per environment | createConsumerHandler | partial failures, redelivery, exceptions that turn into empty responses | no message lost without a named reason, none handled twice |
| Lambda entry and other adapters (`serverless-aws/src/entry.ts`, `adapter.ts`) | the bootstrapped application, cached handlers, the shutdown hook | handler, createHandler, the five handlers, SIGTERM | overlapping cold starts, a failed bootstrap, a cache keyed by the first request | the application that serves is the one that is closed; an event gets the configured handler |
| Validation layers (`core/src/layers/validate.ts`) | the schemas | handle | schemas of several types, parts that are missing or no text | what a handler reads was parsed by its schemas, or at least accepted |
| Config layer and backends (`config/src/config-layer.ts`, `backends`) | the service, once made | handle, fetch | what the environment leaves out, fallbacks, pages, a store that changes meanwhile | a loaded namespace has all of its store |
| Module graph and bootstrap (`core/src/bootstrap/module-graph.ts`, `bootstrap.ts`) | the graph, what the container is told | buildModuleGraph, registerModuleGraph, validateModuleGraph | shared and cyclic imports, providers that replace each other, classes adopted during validation | imports come first, importers override, an accepted application can be resolved, a refused one could not |
| Handler registry, routing and scanners (`core/src/handlers`) | handlers in order of registration, by id, guards by name | the six scanners, register, getHandler, getHandlerById, matchRoute | several patterns match one path, one id declared twice | what is declared is found, and the handler found is the one declared |
| Runtime orchestrator and entry (`core/src/bootstrap/runtime-*`) | the runtime's callbacks | startRuntime, register*Handlers, resolveHandlerByModuleRef | four ways to find a handler, tried in order | a handler of the blueprint gets a callback of what was declared for it, start-up ends |
| Guard pipeline (`core/src/handlers/guard-pipeline.ts`) | the guards' auth results, their instances | execute | one guard of a chain refuses or throws, overlapping resolutions | no handler runs past a refusing guard, one object per guard class |
| Queue and topic clients (`queue`, `topic`) | the connection | sendMessage, sendMessageBatch, publish, publishBatch, close | chunks, partial failure, a closing connection | every message reported once |
| Datastore and bucket clients (`datastore`, `bucket`) | cursors | get, put, query, scan, list, batch | paging, conditions as expressions, unprocessed keys | no item skipped, none yielded that was not asked for |
| Cache client (`cache/src/providers`) | a Redis connection | about sixty commands | cluster slots, pipelines, replicas, repeated commands, key prefixes | an application sees only its own keys, a batch is its commands one by one |
| Credentials and token providers (`cache`, `sql-database`) | a token and its expiry | resolve*Credentials, getToken | overlapping refreshes, expiry, keys read one by one | no expired token is handed out |
| Telemetry (`telemetry`) | tracer, logger | handle, withSpan | initialisation as in the resource layers | |
| Testing (`testing`) | WebSocket mailbox | connect, nextMessage, close | messages, errors and waiters in any order | first in, first out, no waiter forgotten |
| CLI (`cli`), decorators | metadata, written once | extract, serialize | none at run time | |

The hazards this code is exposed to, each at its line, with the properties that
cover it, are listed under `hazards` in `PROJECT.json`.

## Modules

| Module | What it is |
|---|---|
| `Container` | The container, one frame per call of resolve, resolveClass and constructClass |
| `ServiceStore` | What the container promises: an object per token, built once, the same for every caller |
| `ContainerProofs` | Proofs about `Container` |
| `NamespaceConstants`, `ConfigNamespace`, `ConfigNamespaceProofs` | A namespace, its fetches, its store and its readers |
| `PipelineConstants`, `LayerPipeline`, `LayerPipelineProofs` | One invocation through its layers and the five pipelines |
| `CacheLayer`, `CacheLayerProofs` | The cache layer, overlapping requests, the container below it |
| `ResourceLayers`, `CacheLayerProofs` | The layers of queues, topics and databases, with a configuration that is refreshed |
| `ResourceCredentials`, `ResourcesProofs` | Credentials of caches and databases, token providers, the connections that use them |
| `ConfigLayer`, `ConfigNamespaceProofs` | The namespaces an environment makes, the backends they fetch from |
| `RedisSlots`, `RedisCache` | Hash slots down to the CRC; a cache handle on a server or a cluster with replicas |
| `Expressions`, `Listings` | Conditions and the expressions made of them; the iterators over pages that use them |
| `Batches` | Batches of queues, topics and tables, and the clients that send them |
| `ConsumerDelivery`, `ConsumerDeliveryProofs` | A queue, its Lambda environments, the adapter and the consumer pipeline |
| `Lambda`, `LambdaProofs` | A process of the AWS entry: applications, the adapter's caches, mapped events, SIGTERM |
| `ValidationLayer`, `RequestChecks`, `LayerPipelineProofs` | What a layer of schemas does and which handlers read it; a request through its guards and those layers |
| `ModuleGraph` | The walk over the imports, the registration and the validation of the graph |
| `Runtime` | The start of an application: extends `ModuleGraph` with the scanners, the registry's lookups and the orchestrator's callbacks |
| `RuntimeProofs` | Proofs about both |
| `MC*` | The constants of the TLC runs; `MCStart`, `MCServing` and `MCResources` hold several parts.  The two `*Constants` modules let them give an instance its constants |

Seeded faults (`EnterCircularWaits`, `ExtensionFailsEmpty`, ...) stand before the
definition they vary.  No specification uses them; each shows, put in the
definition's place, that one property would notice that bug.

### Container

A *frame* is a call of one of the container's async methods.  `stack` holds the
frames whose synchronous code has not returned; an action guarded by `OnTop`
is synchronous code, and one guarded by `Resumed` is a continuation run by the
event loop.  This distinction carries the model: `resolve` returns
`constructClass(...)` without `await` from a `try`/`finally`, so its `finally`
runs when `constructClass` first gives control back (`ReleaseEarly`), long
before the class is built, whereas with `await` it runs in a continuation
(`StoreClass`, `FactoryReturns`, `Reject`).  `Promise.all(inject.map(...))`
starts all resolutions in one synchronous stretch (`InjectNext`, `InjectAll`)
and rejects with the first failure while the others go on.  `heap` records what
each object was given, which is how `DependentsCloseFirst` knows the dependents.

`ImplementsStore` is a refinement: with `instances` as the store and finished
frames as answers, every behaviour of the container is one of `ServiceStore`,
in which an object is built once, or supplied by a layer's `registerValue`, and
given to all who ask.  It is checked and proved for wirings that are
`Bootstrapped`: every class has a provider, under its own token, and what layers
supply has no other provider.  With classes nobody registered it does not hold
(see the findings), nor with an alias `{provide: T, useClass: C}`, which builds
C anew and stores the object under both tokens.

### ConfigNamespace

The store behind the backend is a version that others move forward.  A fetch is
sent, reads the store at some moment and is answered within `Latency` ticks,
in any order.  `now` is taken before the await of a first fetch but after the
answer of a refresh, so `Loaded` and `Refreshed` stamp differently.  Time is
kept as ages that saturate where the code stops telling them apart.

### LayerPipeline

Layers are arbitrary: at any time, even after it has settled, a layer may call
`next()`, and it may settle with any value or error or with the outcome of a
`next()` it waited for.  `dispatch` and the pipelines around it are fixed.
`own` marks a promise whose own code decided its outcome; it lets
`SuccessMeansHandled` and `FailureHasCause` ask who decided what the pipeline
reports.

### CacheLayer

The layer is one object shared by all requests.  `initialized` is read before a
chain of awaits and set after them, so any number of requests may be inside the
initialisation, and one that fails leaves it half done.  Between the awaits the
model runs the part of the container that value providers go through: `register`
replaces a provider but not an instance resolved before, a resolve that meets
another one of the same token is refused, and a closer is tracked once.

### ResourceLayers

The layers of queues, topics, tables and buckets are one algorithm: the tracer
is resolved, a client made, and for each link its key read from the namespace
`resources` and a handle registered.  The SQL layer differs: no tracer, a
connection per link, four tokens each, and default tokens that are resolved and
registered again; both are in the module.  `instance` and `resolving` are the
part of the container those calls go through (`Lock`, `Refuse`, `Have`).  The
namespace is refreshed between any two reads, and a key may go missing.
`HandlesReach` asks what a request finds behind a layer: a handle under each
token, made by a client that exists, with a name its own key has had.

### ResourceCredentials

Credentials are read key by key (`ReadKey`), each an await, so that what is
resolved may mix two configurations.  Under IAM a provider keeps a token for
`CacheFor` of its `Validity`; it reads the clock before it awaits the signer
(`ConnectByToken`), and calls that overlap sign twice, the last answer being
kept (`Keep`).  Time passes while a signer works, at most `Latency` for a call.
`TokensUsable` is about connections when they are opened.  That the cache's
driver asks the provider it is given for each connection is external.

### ConfigLayer

A name in a store is a sequence of segments, an environment a record of the
variables `captureConfigLayerSettings` reads.  `Discovered`, `RefreshInterval`
and `ResolveBackend` are the layer's synchronous part.  A fetch is one step per
answer: the extension (which has a cache of its own, fails, or is no JSON), the
secret behind it, parameter pages with a token, the local Valkey.  Overlapping
fetches of one namespace are `ConfigNamespace`'s subject.

### RedisSlots and RedisCache

A key is a sequence of code units.  `HashSlot` is the client's table-driven CRC
over their low bytes, `NodeSlot` the remainder of polynomials over UTF-8 that a
cluster node computes.  `RedisCache` has every method of a handle as a query:
`DirectCommand` is what a method sends, `Queued` what a transaction queues, and
batches are grouped by slot and sent together (`groupBySlot`, `Promise.all`).
Master and replica keep abstract values; a command may run, be answered, be
repeated or be given up.  `Fulfilled` compares with the commands sent one by
one, `NoCrossSlot` uses the node's slots, `Isolated` is an action property over
two handles on one server.

### Expressions, Listings and Batches

`Expressions` builds token sequences the way `expressions.ts` does and parses
and evaluates them again with DynamoDB's precedence; `Meaning` is what the caller's
conditions say.  `Listings` iterates over pages of a bucket or table that others
change, leaves anywhere and resumes from the cursor: `ListedInFull` asks for
every item that was there throughout and, from S3, for none twice; what
DynamoDB's page-wise cursor repeats is the run `listing_resume`.  `Batches` has the chunks of SQS and SNS,
Redis pipelines and DynamoDB's single request, with every partial failure, a
caller that sends the failed entries again and a client closed in between.

### ConsumerDelivery

SQS and the Lambda poller are external: messages wait, are in flight to an
environment or gone; a response that does not name a message deletes it, a
failed invocation returns its batch, and a visibility timeout may run out.
Inside, the adapter looks up its handler, validation keeps the messages that
parse, and the pipeline merges what validation and handler report.  Every
misfortune the code meets is an action: a throw anywhere, a layer that answers
by itself, a handler that returns `undefined` (which throws inside or outside
the pipeline, depending on validation failures), leaves failures out or refuses
a message, a lost environment.  `excused` is a history variable: the messages
such a misfortune befell.

### Lambda

The process from its first invocation to SIGTERM.  `Invoke`, `Start` and
`StartFails` are `ensureBootstrapped`, with one application per overlapping
first call; `Enter` runs from there to the adapter's first await: the shutdown
hook, the entry's handler (made from the first event), the WebSocket sender and
the lookup by id.  `Resolve` is what follows the import of a module reference,
and overwrites what another call found in between.  The five handlers of the
adapter differ in `Mapped`, `RouteOf` and `NotFound`.

### ValidationLayer and RequestChecks

`Handle` is a layer of schemas for one value; `Validate` runs a handler's layers
and skips those of other types.  `Read` is what the handler gets of a part, and
depends on how it comes to it (`Forms`): the parsed value, but what arrived for
the parameter that stands for the whole request or event and for every schedule
function, whose first argument is `context.event` (`ReadsRaw`).

`RequestChecks` takes overlapping requests through the guards of a handler, where
the logger is made outside the `try` (`LoggerFails` rejects), and then through
`Check`.  They share the objects of a guard's and a controller's class: the first
request makes one in the container (`Construct`), another that asks meanwhile is
told of a circular dependency (`Circular`) and ends as a refusal or an error,
one that comes before it is kept finds it in the container (`Find`), later ones on
the handler (`UseKept`).  A function's tokens are resolved for every call
(`Inject`).

### ModuleGraph and Runtime

Starting up is sequential, and all the nondeterminism is `app`, the application
that is started: what its modules import, provide, export and declare, and what
its blueprint asks for.  `walks` is the stack of recursive calls of `walk`, each
at one of its imports; `resolving` and `graph` are the sets the code keeps of
modules in progress and done.  `at` and `member` are the indices of whatever
loop runs: over nodes and providers while registering, over nodes while
validating, over nodes and controllers while scanning.  `work` is the recursion
of `checkDependencies`: a class that no module owns is adopted, made visible and
registered, and its dependencies are checked before the token after it.

A routing key is a method and a path; a path is a sequence of segments in which
`"*"` is `{name}` and `"+"` is `{name+}`, so `MatchRoute` keeps what a pattern
distinguishes and drops the parsing.  A consumer or a schedule is registered
under its source and the method's name, or one of them alone (`MethodTag`,
`FunctionTag`), and looked up under both (`LookupKey`).  `GetHandler` returns the first HTTP
handler that matches but the last of any other kind under its key, as the list
and the maps of the registry do; `GetHandlerById` finds the last of any kind and
then asks for the kind.  `BindByKey`, `BindById` and `BindByModule` are the
steps of the orchestrator's lookup in their order, each with what the one before
it missed in its guard.  `Run` registers the `WebSocketSender` when the
blueprint has websocket handlers.  The callbacks themselves (pipelines, guards,
parameters) are taken up by `LayerPipeline` and are not repeated here.

`WalkExact`, `ValidationExact` and `DeclaredIsBound` compare the outcome with a
definition that knows nothing of order: reachability and cycles as a closure,
acceptance as a statement about every module and what it adopts, a declared
handler as a statement about metadata: `DeclaredFor` is what decorators and
functions of any reached module say under the key a blueprint's handler is looked
up by, or with its id, and the callback must be of one of these.  That some
documented forms are declared under a key that is never looked up is
`SourcelessIsBound`, which the run `sourceless` finds violated.

## Runs

| Run | What it asks | Bounds |
|---|---|---|
| `container_mixed` | of unregistered classes and replaced providers: `TypeOK`, `LockDiscipline`, `OneCloserPerToken` | two outside calls, 15 frames, one late registration, one closeAll |
| `container_loose_ring` | violated: a cycle of unregistered classes is not detected | one call, 14 frames |
| `container_diamond` | violated: a diamond of factories is called a cycle | one call, 10 frames |
| `serving` | of the layers: `EachOnceInOrder`, `SuccessMeansHandled`, `FailureHasCause`, `PipelineSettles`; of the checks: `HandledAreChecked`; of the queue: `InvalidNotHandled`, `HandledOnce`, `NoSilentLoss`, `ValidHandled`; of the process: `ServedIsClosed`, `HandledByOwn` | two layers, six calls of dispatch, all five kinds; two requests, eleven handlers with up to two guards and three layers; two messages (one bad), two environments, batches of two, two receives; two calls, four configurations, nine events |
| `resources` | `ReadyWhenServed`, `HandlesAgree`, `LockHeld` of the cache layer; `HandlesReach`; `TokensUsable`; `FetchesWhole`; `NoCrossSlot`, `Fulfilled`, `ScanFaithful`, `Isolated` of the cache handle; `NothingLost` of listings and batches | ten parts, see below |
| `listing_resume` | violated: a caller that resumes a listing of a table gets items again | the listings of `resources` |
| `batch_oversized` | violated: a batch beyond the provider's limit goes into one request | the batches of `resources` |
| `cache_close` | violated: a second client is never closed | two requests, one cache |
| `redis_slots` | violated: a batch over keys outside ASCII is sent to a slot that is not theirs | two keys, one `mget` |
| `start` | of an application: `ImportsFirst`, `WalkExact`, `ImporterOverrides`, `ValidationExact`, `Resolvable`, `DeclaredIsBound`, `ApplicationStarts`; of a namespace: `FreshnessBound`, `NeverUnloads`, `Converges`, `GetSettles`; of a container as bootstrap leaves it: `DependentsCloseFirst`, `CyclesDetected`, `ImplementsStore`, `EveryCallSettles` | three modules, at most two imports each, 1,666 applications; two readers, two fetches, interval 2, latency 1, two changes; two outside calls, 13 frames, one late value, one closeAll |
| `route_shadow` | violated: a route gets the callback of a pattern registered before it | the applications of `start` |
| `sourceless` | violated: a consumer or schedule method without a source gets no callback | the applications of `start` |

Where a run has parts, its first state chooses one, the variables of the others
stay empty, and each property begins with the part it is about.  The parts do not
interact; they share a run because each is small.

*Why the bounds are enough.* Two outside calls of the container are two
requests; a third adds no new pair of interleaved resolutions of one token. The
frames are never used up: in `start` a call that ran out of them would not
settle, and `EveryCallSettles` would fail; in `container_mixed`, which fires
every action of `Container`, two more of them add no state. In the namespace two
fetches can overtake each other, and two changes of the store give three
versions to confuse. In the pipeline the five calls after the first let each of
two layers call `next()` twice and one a third time. In the cache, three
requests are one that holds a handle, one that re-registers and one that
resolves in between; a second cache only repeats the loop, and the proofs cover
any number. In the consumer a bad message beside a good one, in two environments
with one redelivery, meets each case of the merge; the proofs cover more.

The parts of `resources`: two requests through a layer of two queues, a database
layer and a layer of one topic, with one refresh of a key; six environments that
differ in what `discoverNamespaces` tells apart, three entries and two changes,
enough for one between two pages and one after; two connections and a clock that
goes two past the validity of the first token, so that it is replaced and
overtaken; a cluster of two masters with three keys in two slots, one of them
repeated in a batch, one write beside it and one repeated command; every method
of a transaction on a single server under two prefixes; four items in pages of
two with two leaves and one change, so that a leave, a resumption and a change
meet on either side of a page's end; three entries in chunks of two
(`SQS_MAX_BATCH_SIZE` is 10), a full and a partial chunk, sent twice. In the
checks of `serving`, a class and a function guard, two requests that share the
objects of the guard's and the controller's class, and handlers of each form. The process of `serving` has no more than two calls because a third
would only repeat what one of two that overlap does to the caches.

The applications of `start` are three families. The first is every import
graph of three modules with at most two imports each: it has self-imports, two-
and three-cycles on and off the path to the root, diamonds and unreachable
modules. The second fixes a graph in which one module is imported twice and
varies who provides, exports and guards a token and two classes, beside a class
that adopts a class that adopts a pair of classes that need each other. The
third declares handlers of each kind as methods and as functions in each module
and in either order, consumers and schedules with a source and without, and asks
for them by route, tag, id, guard name and module reference, also where none was
declared.

*Fairness.*  `Container`: the event loop runs continuations whose promise has
settled, and factories and hooks settle; nothing outside has to happen.
`ConfigNamespace`: time passes, readers keep calling, fetches settle and do not
fail for ever.  `LayerPipeline`: a handler ends, and a layer ends once all it
called has ended - user code that never ends would hang the pipeline too.
`ConsumerDelivery`: an invocation goes on, and the poller takes every message
that waits again and again; this is the external service's promise, and it is
strong fairness because other messages may keep the environments busy.
Where a run has parts, a liveness property speaks of its own part, and the state
in which the others are left waits for nothing.
`Runtime`: weak fairness of the next step; `startRuntime` is one async call
whose awaits settle, so what is left to show is that its loops and recursions
end.

## Findings

* `container_loose_ring` - `container.ts:110` and `:146` return the promise of
  `constructClass` from `try`/`finally` without awaiting it.  A class without a
  provider leaves `resolving` before its dependencies are resolved: a cycle of
  such classes recurses for ever, and two dependents build one class twice.
* `container_diamond` - the tokens of a factory's `inject` are resolved
  concurrently (`container.ts:315`); the second branch of a diamond finds the
  shared token in `resolving` and fails as circular.
* `cache_close` - two first requests both open a client for one cache
  (`cache/src/layer.ts:50`); the container tracks one closer per token
  (`container.ts:290`), so `closeAll` leaves the second open.
* `redis_slots` - `cluster.ts:79` takes the low byte of a code unit where Redis
  Cluster hashes the bytes of UTF-8: two keys outside ASCII that are grouped as
  one slot may lie in two, and the cluster refuses the batch.
* `route_shadow` - `runtime-entry.ts:95` gets a callback for each route of the
  blueprint, but `registry.ts:97` matches the route as if it were a request's
  path and returns the first handler that fits: the route `/items/new` is given
  the handler declared for `/items/{id}` when that one was scanned first.
* `sourceless` - `startRuntime` looks consumers and schedules up under
  `<name>::<method>` only (`runtime-orchestrator.ts:116`, `:141`, `:160`), while
  methods declared without a source are registered under the bare name
  (`scanners/consumer.ts:84`, `schedule.ts:79`), although the comment above says
  that the two must match.  `@Consumer()`, `@ScheduleHandler()` and
  `@ScheduleHandler("rate(1 day)")` are documented (`decorators/consumer.ts:23`,
  `decorators/schedule.ts:40`) and never get a callback.
* `listing_resume` - the cursor of a listing of a table is documented to "resume
  from the exact position" (`datastore/src/types.ts:244`), and moves only when the
  items of a page are yielded (`dynamodb-item-listing.ts:56`): who leaves inside a
  page gets its items again, and in the first page has no cursor.
* `batch_oversized` - a batch "may be split into multiple requests if it exceeds
  provider limits" (`datastore/src/types.ts:76`, `:89`), and is sent as one
  (`dynamodb-datastore.ts:162`, `:203`), which the service refuses.

## Proofs

The theorems are listed in `PROJECT.json`.  They hold for every value of the
constants that satisfies the named assumption of its module.  In each module
`IInv` is inductive, `InitIInv` and `IInvStep` prove it, and the properties
follow.

* **Container** (`WiringAssumption`, `LateAssumption`: the wiring is well-typed).  `LockDiscipline`
  is nearly inductive: what is missing is the shape of the call stack, that
  frames on it are distinct and that a frame waits only for frames started after
  it, so that a `finally` releases its own token.  For `Bootstrapped` wirings
  `SInv` adds what happens while a token is held: a class is constructed by the
  one call its holder made (`Nested`), what is being built has no object yet, and
  an object just built is the one its holder will return (`Cached`), and every
  object was made by a call that succeeded or was supplied (`Counted`).  From
  this each step is a step of `ServiceStore` or none (`StoreImplemented`), and no
  class is under construction twice (`CyclesCorrect`).  `ClosersInOrder` needs
  that closers are tracked in the order their objects are made (`Ordered`).  It
  assumes `ClosedOnce`: no provider by class has an `onClose` and `closeAll` is called
  once.  Such a hook is tracked only when the call that holds the token resumes, after
  objects made meanwhile, and a second `closeAll` starts from an emptied stack.

  `NeverStuck` and `StepsAdvance` are the safety half of `EveryCallSettles`, for
  every wiring, cycles of classes and factories included.  `NoneStuck` lists the
  conditions under which the code of a call goes on, and says that some call meets
  one as long as any is not settled; it leaves out that a frame is left to start,
  which is the model's bound.  It needs `Orderly`: the call stack names each running
  frame once, and a frame's calls were started after it, so that among the frames
  that wait the last one waits for settled calls only.  A frame is in one of six
  stages (`Distance`); each step of a call takes some frame to a later one.

  `OneObjectPerToken` draws from the refinement what a user of the container sees:
  two calls that succeeded were given the same object exactly if they asked for
  the same token, tokens that are supplied by hand aside.

  `CircularIsRight` is the other side of `container_diamond`: it says when a
  "circular" error is true.  It assumes `Straight` (what a factory injects
  reaches nothing in common, a class is provided by itself, `resolveClass` is not
  asked for a factory's token, and what is registered late is a value) and
  `OneByOne` (the application calls when nothing it called before is in progress).
  Both are needed: each diamond, of a factory or of two calls, gives a false
  "circular".  Then such an error is only given to calls whose token
  reaches one that needs itself.  `Closure` is the least closed set, so that no
  induction over the graph is needed.  The invariant is `Branches`: of two calls that
  have not succeeded, either their tokens reach nothing in common, or the later was
  started on behalf of a call the earlier one made and still waits for; a call
  that finds its token in `resolving` has, by `LockDiscipline`, a holder that
  is related to it in the second way, and so to itself.
* **ConfigNamespace** (`IntervalAssumption`).  `FreshnessBound` needs to know of
  each fetch in flight that what it read is no older than the fetch itself, and
  of the memory that its content is at most one `Latency` older than its stamp.
  `WaitedFor` is the safety half of `GetSettles`: each get that waits has exactly
  one fetch in flight, its own, and no fetch is answered to a get that is over
  (`OneFetchEach`, inductive as it stands; it assumes that `"none"`, which marks a
  background refresh, is not the name of a reader).

  The same module holds the proof about `ConfigLayer`.  It assumes `ConfigTyped`:
  identifiers and names are sequences of strings.  `FetchesWhole` needs, besides
  itself, that every content the store had still has all that was never removed,
  and only what it is recorded to have had (`OnceThere`), for the extension may
  answer with an old one; that the pages collected so far hold only such values;
  and that no fetch on AWS falls back on a backend that answers with nothing.
  The rest is about sequences: what is left of a name behind the identifier and
  the prefix is what is left of it behind both (`PrefixedTwice`, `PrefixApplied`).
* **LayerPipeline** (`PipelineAssumption`).  `EachOnceInOrder` is inductive with
  the bounds of `index`.  `SuccessMeansHandled` needs an induction along the
  chain of `next()` calls: a promise that was passed on has an owner behind it.
  `KeepsGoing` is the safety half of `PipelineSettles`: until the pipeline answers,
  `dispatch(0)` has settled or some layer or handler runs and waits for nobody.  A
  `next()` is called after the call that made it (`CallersFirst`), so the last
  call still running has no call of its own running.

  The same module holds the proof about `RequestChecks` and `ValidationLayer`
  (`HandledAreCheckedCorrect`).  It assumes `HandlersTyped`: a handler has one of the
  five types and three forms, a list of guards' names and a list of layers, each with
  schemas for any of the eight parts, only HTTP, consumer and schedule handlers have a
  parameter for the whole, and a schedule's input is parsed or refused.  A request (`Sound`)
  is past the guards allowed so far in their order, and what it was let through by
  depends on its handler's layers alone: a layer either ends the request, or has
  parsed the parts it has a schema for and leaves those of earlier layers parsed
  (`ValidateParses`), by induction over how many layers it has passed; what a
  handler reads is then parsed or, where it is given what arrived, accepted
  (`TakenIsRead`).  That overlapping first requests make one object of a class
  needs that a class under construction has none and has one request constructing
  it, and that a request with an object in hand was given the only one (`OneObject`,
  `Objected`).
* **CacheLayer** (`LinksAssumption`).  `ReadyWhenServed` needs, for a request
  inside the loop, that the links before its own are registered, and
  `HandlesAgree` that a stored handle is the instance of its token and that the
  default token's is the named one's.

  `ClosedWhenAlone` is the other side of `cache_close`.  `Alone` says that one request
  at most has opened a client, so that initialisations neither overlapped nor
  were repeated after a failure half-way; then the clients are those of the first
  resources, each with its own closer, and `closeAll`, wherever it comes,
  closes those that were open.

  The same module holds the proof about `ResourceLayers`.  It assumes `LinksTyped`:
  the layers are of the five types, and the links of one type have distinct names,
  being keys of one JSON object.  `HandlesReach` speaks of whoever is past a layer;
  its invariant says what a request has behind it wherever it stands
  (`RequestOK`): the layers before its own, and the links before its own link, have
  handles made for them (`Reached`), so has a layer whose flag is set, and what
  tokens were resolved to was made for them too (`GivenOK`), for the SQL layer
  registers that again under its default tokens.  Requests do not undo each
  other's work because a step only adds clients and values a key has had, and
  replaces a handle only by one made for the same resource (`Grows`).
* **ResourceCredentials** (`Timing`, an assumption of each theorem: a token is kept
  for no more than its validity less the time a signer takes, and two signatures
  take less than that validity).  `TokensUsable` needs
  that a provider's token expires, for the provider, no later than `CacheFor`
  after it was signed, and that a call in progress holds a token that will still
  be valid when signing ends: it was recent when the call began, and the clock
  waits for calls that have their answer (`IInvStep`, `TokensValid`).

  The same module, `ResourcesProofs`, holds the proofs about `RedisCache`.  They
  assume `KeysTyped`: keys, prefixes and patterns are texts, methods get the keys
  their signatures ask for, a pattern that is given is not empty (the code takes
  an empty one for none), and every key has a master.  Nothing is assumed of how
  many calls overlap or how often commands are sent again.  `ScanInv` says of a call that its
  commands are those of its query and were accepted, and of a scan that it has
  yielded what it got and got, from each node it is done with, the matching keys
  that were there throughout; `ScanFaithful` then needs that keys match the pattern
  asked for, handle's prefix included, exactly if what is left of them matches
  the caller's (`PatternMatch`).  `NoCrossSlot` needs that
  groups, transactions and methods of several keys have keys of one slot for the
  client (`CommandsAre`), and assumes that the cluster computes the same slots
  (`SlotsAgree`), which `redis_slots` refutes for keys beyond ASCII.
  `Isolated` adds that commands change only what their own keys hold (`AppliedKeeps`),
  also the rest of a transaction of which some commands fail (`EffectKeeps`).
  `Fulfilled` assumes `Fitted` besides: a queued method has the arguments of its
  signature, and keys that are read are keys the model's servers hold.  The
  builder's table and the handle's agree (`QueuedSame`).  The groups of a batch
  have all its keys, each in one group and in order (`GroupsWhole`), so that a
  group's command leaves the last entry of each of its keys (`GroupWrites`), as
  the entries one by one do (`OneByOneLeaves`); carried out again, or after
  another group, it undoes nothing (`RanGroups`, `BatchRuns`).  A call that reads
  has seen what its keys hold now (`Sees`), so what it is answered is among what
  it has seen (`OutServed`).

  The module's last part is about `Batches`, for any number of entries, chunks of
  any size and any number of rounds (`Sized`).  `AllAccounted` needs that the two
  lists of a result are disjoint, name nothing twice and have exactly the entries
  of the requests behind (`Accounts`), and that what has failed or not been sent
  has not arrived, unless a call threw or the service is Redis (`SentOnce`).

  For `Listings`, `ListedCorrect` is the other half of `NothingLost`, for any items, any
  number of pages and any calls of `next()` (`Numbered`: items are numbered, a listing
  has finitely many, and a limit is at least one).  What was yielded comes from
  the items queried and kept (`OnlySelected`); a selected item behind the cursor or the
  start of a page was yielded, or is still in the page (`Covered`); and how often it was is
  bounded by where the cursor stands (`Once`, `OncePerLeave`).  The last bound is a
  theorem of its own (`RepeatsBounded`), the measure of what `listing_resume` finds:
  an item comes at most once more than the caller left.  That the
  expressions select what the caller means (`SelectsMeant`) is its hypothesis, for
  they nest and their evaluation is recursive; TLC evaluates it for every
  expression of the runs (`ExpressionsSelect` of `MCResources`).
* **ConsumerDelivery** (`DeliveryAssumption`).  `HandledOnce` needs that a message
  nobody excused is in flight exactly to the environment that works on it, and
  once handled is not among that environment's failures.
* **Lambda** (nothing is assumed of the constants).  `ServedIsClosed` needs that
  the listener is registered with the application of the entry's handler, in one
  step, and that a handler of WebSocket messages is never reached without a
  sender (`Ready`).  `HandledByOwn` needs that what the adapter keeps is justified
  by a lookup under the entry's type, and that a call whose import is in progress
  found nothing in the registry before it (`Unregistered`), so that what it finds
  afterwards is its own lookup's result.
* **Runtime** (`GraphAssumption`, `RuntimeAssumption`: the metadata is well-typed;
  the applications may be any, of any size).  `ImportsFirst` needs `WalkInv`: the
  calls of `walk` in progress are of distinct modules not yet in the graph, and
  every import a call has passed is in the graph, but for the one whose call is
  next in the stack.  `Resolvable` needs `ResInv`, of five parts: what registered
  nodes own has a provider (`OwnInv`); validated nodes export only what they own
  (`ExpInv`), so that, imports coming first, all a node sees has a provider
  (`VisInv`); checks are pending only while a node is validated (`WorkInv`); and
  what each provider needs is resolvable, among the pending checks, or the
  business of a node validation has not reached (`DepsInv`).

  `WalkExact` compares the walk with closures.  These are defined as least closed
  sets, so the walk is shown equal to them from both sides: all it has entered is
  reachable (`ReachInv`) and each call in progress imports the next (`PathInv`), so
  that an import found in progress closes a cycle; and what it has left is closed
  under imports and ordered, so that it has no cycle.  `ImporterOverrides` needs
  that once a module's provider was registered, the one in force is never that of
  a module it imports (`OverInv`), which is registered before it.  `ValidationExact` needs, for a node being checked, that
  what it adopted and what is pending are between what it needs and what that
  closes over (`CheckInv`), and for those behind, that each is free of fault as
  long as nothing was reported (`VerdictInv`).

  `DeclaredIsBound` assumes `HandlersDeclared`: methods, functions and the handlers
  of the blueprint have the shapes the decorators give them, and a guard of the
  blueprint has a name.  It needs both directions.  Wherever a scanner has been, what
  was declared there is in the registry or, by name, among the guards (`ScanInv`),
  under the tag made of its source and name (`TagPart`), and nothing else is
  (`KeepsOrigin`).  Once all six have been everywhere, a lookup by key finds
  something exactly if something was declared under that key, and what it finds
  was (`KeyFinds`, `KeyDeclared`); so does one by id if the functions with that id are
  of one kind (`IdFinds`, `IdDeclared`), for the last one registered answers for
  all kinds.  Hence each handler of the blueprint that was looked up and is
  declared has a callback of a function declared for it (`BindInv`).  What methods without a source
  are registered under is no key of the blueprint, and nothing is said of them.

  `RouteGetsItsHandler`, which `route_shadow` finds violated, holds where nothing
  shadows the route (`RoutesReached`): the callback of an HTTP route runs the first
  handler registered whose pattern matches, whenever one does (`FirstMatchServes`,
  by `ServesInv`), and a handler's own route is matched by its pattern; only an
  earlier handler with another pattern that matches can take its place
  (`Unshadowed` says there is none).

Only model-checked: everything under fairness (`EveryCallSettles`, `Converges`,
`GetSettles`, `PipelineSettles`, `ValidHandled`, `ApplicationStarts`), which is out of the
prover's reach (`NeverStuck` and `StepsAdvance` of the container, `WaitedFor`
and `KeepsGoing` are safety halves of the first, third and fourth); and that
expressions select what is meant (`ExpressionsSelect`), which is induction over how
they nest.  `RedisSlots` uses `Bitwise` and `Expressions` declares recursive
operators, so no theorem can be stated above them.

## Not modelled

Logging and tracing, headers, cookies and query parameters of the event mappers,
how parameters are extracted for a handler, operations that are one call of a
wrapped service, and the wrapped services' own behaviour where it is not said to
be external.  The parts listed `not_modelled` in `PROJECT.json` have their reasons
there: the runtime mapper and discovery copy fields and import one file,
telemetry and the CLI have no state of the application, decorators write
metadata once, the testing package is not part of a running application.
`Container.validateDependencies` and `has` are not modelled; neither are
containers used during and after `closeAll` beyond the step that drops what was
tracked in between.

What the properties do not judge, because no doc of the repository says what should
be.  Commands of the cache are repeated after a lost reply, whether or not they
may be: `Fulfilled` speaks of the answers, not of how often.  A schedule function
and the parameters for a whole event are given what arrived, also in a part
that has a schema: `HandledAreChecked` says that a schema accepted it, and of a
consumer's batch not even that; `InvalidNotHandled` is about handlers that work on the
messages they are given.  An exception, a layer that skips and a missing handler
delete a batch (`adapter.ts:196`): `NoSilentLoss` excuses them.  The handler cached
for the first route serves the later ones (`adapter.ts:64`), applications of
overlapping first invocations but one are never closed, the sender of WebSocket
messages keeps the first event's endpoint (`adapter.ts:118`), the reader's pool uses
tokens signed for the writer's host, and an interval that is no number is never
over.  `Resolvable` is about registered providers: the tokens that function
handlers, function guards and layers inject are not validated, and the container may
not know them.

## Plan

In order:

1. `TestMailbox`: the WebSocket test client (messages, errors and waiters in any
   order).
2. The telemetry layer: two SDKs of overlapping first requests, of which one is
   shut down.
3. `validateDependencies` of the container, and module discovery.
