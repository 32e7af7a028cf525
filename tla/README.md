# nodenative: a verification project

nodenative is a C++ library in the style of Node.js on top of libuv: an event
loop, promises and futures whose callbacks run on it, workers on a thread pool,
streams, timers, files, and an HTTP server and client. This directory models
its core in TLA+, checks the models with TLC and proves with TLAPS the safety
properties that are checked.

    tlc -config MCFutureLoop.cfg MCFutureLoop     # one run
    tlapm FutureLoopProofs.tla                    # the proofs

`PROJECT.json` lists components, runs, mutants, findings, hazards and theorems,
and maps every definition to the lines it models.

## The system

| part | state | operations | how it meets the others |
|---|---|---|---|
| futures and promises (`async/`) | `FutureShared::_resolver`, `_actions` | resolve, reject, then, error, finally | settling enqueues the attached actions |
| actions, `AsyncBase`, `async()` | an action's `_resolver`, `_instance`, `_uv_async` | enqueue, Async, AsyncClosed | each enqueue is one libuv async handle, called on the loop, closed and used again |
| workers (`worker/`) | `_uvWork`, `_instance`, `_resolver` | enqueue, Worker, WorkerAfter | the function runs on a pool thread, its result is given to a future on the loop |
| `Loop` | the map of loops by thread and its lock, `_started`, `_threadId` | Create, GetInstance, run, the destructor | every `then()` asks it which thread it is on; every handle keeps its loop alive |
| `Handle`, `Stream`, `Timer`, `Tcp`, `Pipe` | the uv handle, `_closingPromise`, callbacks | close, read, write, start | results are promises |
| `http::Server` | `_connections`, the listening socket, `LoopTimeoutEntries` | listen, createConnection, close, the timer callback | owns the connections and watches their timeouts |
| `http::ServerConnection` | `_socket`, `_request`, `_response` | parse, processRequest, close | reads requests, has the plugin execute them, answers |
| `ServerPlugin` | lists of callbacks and plugins | addMethod, addPlugin, the removals, execute | chains the matching callbacks with `then()`, by weak pointers |
| `OutgoingMessage`, `ServerResponse`, `IncomingMessage` | `_closed`, `_sent`, `_messageComplete`, ... | end, parse | `end()` is one write; its future resets the connection for the next request |
| `ClientRequest`, `http::get()` | `_socket`, `_response`, `_instance` | end, the callbacks of connect and read | connects a `Tcp`, writes, reads until the response ends, closes |
| `fs` | a descriptor, a buffer, a position | a `...Sync` function and an asynchronous form of each | the asynchronous form runs the other in `worker()` or `async()` |
| URI templates | the parameters of a template, the tree of values | match, extract | `ServerPlugin` matches paths and fills one tree for each request |
| URL codec, `Regex`, `Pipe`, `Process`, crypto | | | not modelled |

What is hard here: handlers attached from any thread while a future is being
settled; outcomes that reach a future along two lambdas; async handles that are
sent, running, closing and used again; results of pool threads; a request, its
chain of callbacks, the write of its response and the next request, all
asynchronous and sharing `_request` and `_response`; a timeout list that is
changed by all connections and read by one timer; closing what is closing; loops
that are found, run and dropped by several threads; messages that TCP cuts
anywhere; callbacks that are removed while a request waits for them; files that
change while they are read.

## Modules

| module | models |
|---|---|
| `FutureLoop` | futures, promises, the callback classes and `AsyncBase` on one loop |
| `Promises` | the abstract specification: what promises offer to their user |
| `WorkerLoop` | `FutureLoop` with `worker()` |
| `Loop` | loops of several threads: the registry, its lock, `run()`, destruction |
| `IncomingMessage` | a message put together from the parser's callbacks |
| `ServerPlugin` | registering, matching and executing callbacks and plugins |
| `HttpRequest` | the last two composed: a request from its first byte to its answer |
| `Fs` | the calls of `native::fs` on a file that others change |
| `HttpServer` | `http::Server`, its connections' sockets, the timeout list and its timer |
| `HttpConnection` | one `http::ServerConnection` with request, response and callback chain |
| `HttpClient` | `http::get()`: `ClientRequest` and `Tcp::connect`, several on one loop |
| `MC...` | the modules TLC is run on |
| `...Proofs` | the theorems about `FutureLoop`, `WorkerLoop`, `Loop`, `HttpRequest`, `Fs`, `HttpServer`, `HttpConnection` and `HttpClient` |

Definitions whose comment begins with *Variant* are not part of a
specification. They are slips that could have been made in the code, and each
one shows that some property would notice it (`mutants` in `PROJECT.json`).

### FutureLoop

A future is a number. Every callback object owns one result future, so the two
share a number. A value or an error is represented by the future that first
produced it. `kind` says which operation made the object: a promise, `async()`,
one of the handlers `then`, `error`, `finally`, the two lambdas `callFn` puts on
a returned Future (`fwdThen`, `fwdError`), or the job by which `then()` on
another thread attaches its action (`attach`).

`queue` is the list of async handles that were sent. Each enqueue initializes a
fresh handle and sends it at once, and libuv calls the handles of one wake-up in
the order of their initialization, so the queue is a FIFO. `closing` is a set:
the order of close callbacks does not matter to the code.

One step is a piece of code no other thread can interrupt in a way the code
notices: `Begin` and the start of a user's function, each call the function
makes (`PromiseSettle`, `AttachHandler`, ...), its return. Settling a future
and enqueueing all its actions is one step: it runs on the loop thread, and
another thread that posts in between can only be ordered before or after it.
`Async` and `ForeignAttach` are steps of any thread at any time.

`failed` is set when an `NNATIVE_ASSERT` of `resolve`, `reject` or `enqueue`
would throw, or when the library itself settles a settled future.

`Promises` is what all this amounts to for a user: a future is settled once,
handlers register behind each other, and the next in line is told the outcome.
`P` is the refinement mapping: `_resolver` is the outcome, `_actions` the
handlers, and those of them that `executeAsync` has run were told (`ToldBy`).

### WorkerLoop

`work` is the life of a request: waiting for a pool thread, running, done,
handed to the loop. `Worker` and `WorkerReturns` are steps of pool threads,
`WorkerAfter` of the loop. While a worker's function runs, everything
`FutureLoop` allows other threads can happen.

### Loop

A loop lives as long as somebody has a reference: the code of a thread
(`holds`), an open handle (`handles`; each is an object with a `_loop` member
that keeps itself until its close callback), or `deregisterLoop`, which locks
the weak pointer of every entry it passes. One step is what happens between two
points at which another thread can see a difference: the write lock
(`Lock`), each entry of the map (`Visit`, `Compare`), the second lock of
`registerLoop` (`Add`). `_started` and `_threadId` are plain fields, so
`Run` makes one of the two stores visible first, either one.

`Compare` has three outcomes. In the first the temporary reference is the last
one: `~Loop` runs inside `deregisterLoop` and asks for the lock its own thread
holds. The thread is `stuck` then, and every other user of the registry waits.
Two threads reach this.

`then()` is two steps, the question `isOnEventLoopThread` and the work on
`_actions`, so that two threads can be inside one future.

### IncomingMessage, ServerPlugin and HttpRequest

In `IncomingMessage` the parser is external: it hands over the parts of a datum
in pieces of any length, the last one empty when a chunk ended right behind the
datum. The callbacks are the code's: `on_header_field` and `on_header_value`
append, `on_url`, `on_status` and `on_body` assign. `split` remembers which of
the latter came in pieces, and their loss is part of the model. `on_url` calls
`UrlObject::parse`, which throws out of the read callback (`parseFailed`). It
takes each piece for a whole URL and may refuse any of them, the first one too;
and it refuses whole URLs that http_parser has let through character by character:
a port above 65535, no host, the target of a CONNECT request. Which ones is a
field of the message, `goodUrl`. A message is any record of the types
`MessagesAssumption` gives, with the conditions http_parser guarantees;
`MethodsAssumption`: a request has a method, so that `""`, under which `use()` is
kept, is no request's.

In `ServerPlugin` a path is the sequence of its segments, and a template has a
name where it has a parameter. `Route` is `execute()` down to the first callback,
through the plugins that come first. The instances are numbered from the server,
0, to `MaxPlugin`, so that a plugin has a greater number than its user: this is
possible because no plugin can be reached from itself. The other entries are
left in `chain.todo`, as weak pointers. A plugin that is not first gets the rest of the path behind its
match, which is empty because `getPattern()` ends with `$`, and finds nothing.
`getUriTemplateValues()` is one tree for the request, so `ExtractFails` looks at
the names of all matching templates. A callback returns a future (`Call`) or
throws a `FutureError` (`Throw`). The first one is called by `execute()` itself,
so that what it throws leaves `processRequest` and the read callback (`died`); the
others are called by `callFn`, which catches it and rejects the chain, and the
client gets 500.

`HttpRequest` runs `Execute` where the message is complete. Registrations and
removals are possible until the request is answered.

### Fs

The file is a sequence of bytes, each named by the change that wrote it, so that
a mix of two versions can be told. `uv_fs_read` returns any number of bytes up
to what is asked, and none only at the end. A call is one of five kinds: the two
forms of `readFile`, and the functions of one libuv call by the way their
asynchronous form treats an `Error`. `died` is set when an exception leaves a
worker's function or the loop: an assertion of `GetInstanceSafe` on a thread
without a loop, or an `Error` from the lambdas of `stat`, `fstat` and `lstat`,
which do not turn it into a `FutureError`. Calls share nothing but the file, and
others may change that at any time, so one call is enough.

### HttpServer

Times are kept as the time left until they are reached; the code only compares
them. `Place` is the loop of `insertConnection`, which looks for the first entry
that does not end earlier, also in a list that is not sorted. `RestartTime` sets
the time of the entry first, so the search meets the entry itself and the copy
never goes behind it. `OnTimeout` is the timer's callback together with what
libuv does before it calls it: a repeating timer is started again first, so
`setRepeat` counts from the next time on. `Without` is `list::remove_if`.

`closes` counts the then-callbacks on one `_closingPromise`. The first one takes
the connection out of the server, the second may find it destroyed
(`ClosedAgain`). Requests and responses are reported in any order: this covers
whatever `HttpConnection` does.

### HttpConnection

The callbacks on futures are jobs of the loop in the order in which `FutureLoop`
enqueues them. A job is the next callback of the chain, the lambdas that forward
a returned Future (one more for an error), the 404 and 500 handlers of
`processRequest`, the then-callback of `endData`, the then-callback of `close`.
Handlers return a settled future (`sync`), answer later (`later`), answer and
settle their future later (`early`), or throw a `FutureError`, with or without an
answer before it (`throws`). `failed` means that the program ends: an assertion
failed, a null pointer was used, the first callback or a URL (`ReceiveBadUrl`)
threw. A chunk that the parser refuses (`ReceiveBad`) may end the headers or the
request before the bad bytes, so that the connection is closed and the request is
processed; the client sends nothing behind it, which is a bound of the model. A
response that is ended on a socket closed in the same step is not written.
`Upgrade` is a free choice until the header is complete, because the field is not
initialized; read as true, it also keeps a refused chunk from closing the
connection. A client sends its next request when it has the answer to the last one,
so two requests never meet in the socket; the server may still be busy with the end
of the first.

### HttpClient

`end()` chains connect, write and read by `then()`; `jobs` are these callbacks
and the lambdas that forward the promise of the read callback to the future the
user has. `instance` is the reference by which the request keeps itself alive,
the only one its callbacks can count on. `response` is how far http_parser has
come: the code asks it after every chunk whether the message is complete or an
upgrade, and the second answer is arbitrary before the header is complete.
`ReceiveEmpty` is a read of length 0, which libuv reports for `EAGAIN` and the
code hands to the parser. In the error path the read callback uses its own
closure after `readStop` has destroyed it: the model goes on or fails. After a
failed connect nothing is closed or released, as in the code.

## Runs

| run | checks | states |
|---|---|---|
| `futures` | safety, liveness under `FairSpec`, and that `FutureLoop` implements `Promises`; 4 futures, all handlers | 216,080 |
| `worker` | safety and liveness with workers, 4 futures, one pool thread | 240,640 |
| `loop` | safety and liveness of the registry; 2 threads, 2 loops | 267,013 |
| `server` | safety and liveness of the timeout list; 2 connections | 32,425 |
| `request` | safety; 4 messages, 7 kinds of registrations of which 3 are made, one plugin | 4,819,650 |
| `connection` | safety; 2 requests, 2 callbacks | 120,595 |
| `connection_live` | liveness; 1 request, every event and every kind of handler | 113,207 |
| `client` | safety and liveness; 2 requests, every event | 12,237 |
| `fs` | safety and liveness; 1 call, files of up to 4 bytes, blocks of 2, 3 changes | 264,456 |
| `server_timeout` | what a comment says; violated | |
| `connection_chain`, `connection_reuse` | what an assertion and a test say; violated | |

**futures.** `NeverFails` and `HandlesReady`: no assertion of the callback
machinery fails. `DeliveredIffSettled`: no handler is missed, however attaching
and settling interleave. `AttachmentOrder`:
handlers run in the order of attachment. `SkippedIsTransparent`,
`AdoptsReturned`: an outcome reaches its consumer unchanged through skipped
handlers and returned Futures. `SettledForever`: outcomes are final.
`ImplementsPromises`: all this as one abstract machine.
`HandlersRun`, `HandlesClose`: while the loop runs, every handler of a settled
future is run, also behind a returned Future, and every async handle is closed. Four futures are enough
for a promise, a handler and the two lambdas of a returned Future, or for a
promise, two handlers attached from different threads and a third.

**worker.** `WorkerOutcome` says where a worker's outcome comes from;
`WorkersFinish` that a full pool only delays it; `FuturesHold` that `NeverFails`,
`DeliveredIffSettled` and `AdoptsReturned` also hold beside workers. `Room` keeps space for the
lambdas of Futures that workers return: it bounds the model, not the code.

**loop.** `RegistryExact`: though `registerLoop` takes its lock twice and every
scan passes the entries of other threads, a loop is found under the thread that
registered it last, and is missing only while that thread is inside
`registerLoop`. `NothingOpenAtEnd`: `HandleDeleter`, which calls
`uv_loop_close` until it succeeds, never meets an open handle.
`RaceOnlyOutsideRun`: two threads are inside the futures of one loop only if one
of them asked `isOnEventLoopThread` while `uv_run` was not on anybody's stack.
`LoopsEnd`: a loop that nobody uses is destroyed, unless a thread is `stuck`. Two
threads and two loops are what it takes for one thread to pass the loop of
another, for a loop to change its thread, and for two loops to follow each other
on one thread.

**request.** `MessageExact`: the headers of a message do not depend on how it was
cut; the other data do only if they were cut themselves. `RoutedInOrder`:
whatever is registered and removed meanwhile, a request runs what it found, in
the order of registration, nothing twice and nothing behind an answer or behind a
callback that threw, and 404 is sent only if the server's own callbacks for it all
ran and none threw. `DiesOnlyIf` gives the reasons for which the way of a request
ends in an exception or a null pointer. Reading it: the URL came in pieces, or is
refused as a whole. Executing it: one parameter name in two matching templates
(`Clash`), the first callback threw (`FirstThrew`), or something that was still to
run was removed and is kept by nobody (`DueGone`). It does not excuse the removal
of what has run, of what does not match, or of anything behind an answer or an
error. The messages have a repeated header, one with an empty value, a name and
values of two parts, a URL and a body of two parts, and a URL that is refused; the
registrations have parameters of equal and of different names, `use`, two methods
and a plugin with a callback of its own.

**fs.** `ReadIsSnapshot`: unless something of the file is lost, the many reads of
`readFile` give what the file held at one moment of the call, though it grows.
`CallsEnd`: every call ends and closes what it opened when it succeeds; a file
that gets shorter under the first loop of `readFileSync`, which then reads 0
bytes for ever, is the only exception, but for a program that has ended. Four bytes and blocks of two give full,
short and empty reads in every order.

**server.** `WatchedOnce`, `EntryIsDeadline`: the list's surgery in
`RestartTime` neither duplicates an entry nor loses its time. `TimerWatches`: the
timer runs while there is something to watch. `NeverEarly`: no connection is
dropped from the list before its time. `TimerEnds`, `NothingLeft`: the timer
goes away with the traffic, and everything goes away after `close`. Two
connections give a list in which an entry moves, is erased or expires before and
behind another. The
timeouts of 1 to 3 units with a second of 1 let entries be in order, out of
order and expired together.

**connection.** `ResponseStays`: the callback of a write finds the response it
was made for, across keep-alive, resets and malformed input.
`EveryRequestAnswered`: a complete request that does not find the ended response
of the one before it (`connection_reuse`) gets an answer, or a 404 or 500 when no
handler sends one, when it fails or throws. Two things end this: a closed
connection, and the end of the program. The run has one request, because a header in pieces, with `_upgrade` not set, has
`processRequest` called again and again, and two requests are too many states;
with `MaxRequests = 2` and no events the property holds as well (505,081 states).

**client.** `KeptAlive`: no callback of a request runs after what it
dereferences was reset. `OneContinuation`: a request is always in exactly one
place of its chain, so its future is settled once and never forgotten.
`Released`: a connected request that is over keeps neither itself nor its
socket. `Told`: the user hears of it unless the server is silent. Two requests
let the jobs of one stand between those of the other.

Deadlock is not checked: a program may end when nothing is left to do, and every
model stops at its bounds.

### Findings

* `server_timeout`: the documentation of the timeouts says "If the timeout is
  reached, the connection is closed." The timer callback only forgets the
  connection.
* `connection_chain`: with two matching callbacks, the response is dropped after
  the write before the end of the chain asks whether it was sent; a 404 follows
  the answer.
* `connection_reuse`: a request that is read before the callback of the last
  write has run finds the old request complete and the old response closed, and
  fails the assertion of `end()`, whether that callback was to keep the connection
  or to close it.

Other behaviours that no document or test speaks about are part of the models,
and the properties name them as exceptions: a second `close()` of a connection
uses a null pointer (`ClosedAgain` in `HttpServer`); `_upgrade` is read before it
is set (`Upgrade` in `HttpConnection`); a thread locks itself out of the registry
(`stuck` in `Loop`); a callback that was removed is used (`Step` in
`ServerPlugin`); an exception of the first callback, or of the URL, leaves the read
callback (`Execute`, `OnUrl`); `readFile` spins on a file that was truncated (`Read` in `Fs`).

## Fairness

`FutureLoop`: weak fairness of calling the oldest handle, of returning from a
function and of close callbacks: the loop thread runs `uv_run` and functions
return. User code and other threads owe nothing. `WorkerLoop` adds the pool's
threads. `HttpServer`: time passes, a timer that is due fires, closing sockets
are closed and callbacks on their futures run; clients owe nothing.
`HttpConnection`: the loop runs its jobs, libuv ends each write, and a handler
settles the future it returned, without which the library cannot answer.
`Loop`: a thread that is in the library's own code goes on; that the lock is
free again and again follows from it. `Fs`: a call goes on, though its reads need
not ever fail. `HttpClient`: the loop runs its jobs and libuv ends every connect. The server
owes nothing: the client has no timeout.

## Proofs

The theorems hold for every value of the constants that the assumptions in the
modules allow: any number of futures, threads, loops, connections, requests,
calls and callbacks, any handlers and events, messages and files of any length.
Every property of a passing run that is an invariant or an action property is
proved.

| module | theorems | from |
|---|---|---|
| `FutureLoopProofs` | `TypeCorrect`, `NoFailure`, `HandlesAreReady`, `CallbacksRunOnce`, `NoLostWakeup`, `Transparency`, `Adoption`, `OutcomesAreFinal` | `IInv` |
| | `OrderKept`, `Refinement` | `IInv` and `OrderInv` |
| `WorkerLoopProofs` | `WorkerTypeCorrect`, `FuturesHoldWithWorkers`, `WorkerResultArrives`, `OrderKeptWithWorkers`, `WorkersRefine` | `WInv`, and `OrderInv` |
| `LoopProofs` | `LoopTypeCorrect`, `RegisteredOnce`, `DestroyedWhenUnused`, `RacesOutsideRun` | `LoopInv` |
| `HttpServerProofs` | `ServerTypeCorrect`, `OneEntryEach`, `DeadlinesKept`, `TimerRuns`, `NoneDroppedEarly` | `ServerInv` |
| `HttpConnectionProofs` | `ConnectionTypeCorrect`, `ResponseNotReplaced`, `SentFindsItsResponse`, `NoRequestForgotten` | `ConnInv` |
| `HttpClientProofs` | `ClientTypeCorrect`, `CallbacksFindTheirRequest`, `NothingLostOrDoubled`, `NothingKeptAfterTheEnd` | `ClientInv` |
| `HttpRequestProofs` | `MessagePutTogether` | `MessageInv` |
| | `RequestRouted`, `RequestDiesOnlyIf` | `ChainInv` and `UrlFits` |
| `FsProofs` | `SnapshotRead` | `FsInv` |

Each invariant was checked with TLC on the run's instance before it was proved.
The proofs have one lemma per action and, under it, one step per conjunct that
the action can disturb; lemmas about lists, queues and sets come first, so that
the steps speak of sets of entries and not of indices.

**Futures.** No part of `IInv` is inductive alone. `NeverFails` needs that an
action is idle when its future settles, which is so because it was never enqueued
before (`AttachInv`), because it is attached to one future only and once
(`JobsInv` for the ones that wait in a posted job), and because that future is not
settled yet. That a future is settled only once needs who settles it: its own
action, which has then run (`OwnInv`), or, after a function returned a Future, one
of two lambdas (`PairInv`). That not both lambdas do it is `PairState`: with a
value the first settles the future and the second is skipped, because the first's
own result is a value; with an error the first is skipped and hands the error on.
`CallInv` says that a function was called for its kind of outcome only, which
gives transparency.

**Order and refinement.** That an earlier handler runs first is not inductive:
what a step needs is where the two stand in the queue. `OrderInv` adds that the
later one is never ahead. When the oldest handle starts, an earlier action of the
same future cannot be in the queue, and as the future is settled it has run
(`DeliveredIffSettled`). So it is the next in line of `Promises`, and every step
of `FutureLoop` is a step of `Promises` or changes nothing of it. `Promises` has
no fairness: what must happen is `HandlersRun` and `HandlesClose`.

**Workers.** `WInv` is `IInv` with the place of every worker's result: with the
function, in `_resolver`, in the future, or with the lambdas on a returned Future.
`WorkerAfter` settles a future that only it settles, because no lambdas forward to
the future of a worker that is not closed. Beside that, it does what `IInv`,
`OrderInv` and `Promises` allow.

**Loops.** `LoopInv` says who may hold what: a reference is to a loop that is
alive, a thread that registers or runs a loop holds it, one thread at a time
registers, runs or destroys a loop, and `deregisterLoop` has the lock from the
first entry it looks at to the last.

**Server.** `EntriesFit` says which entries the list has, as a set: one at most
for a connection, with the connection's deadline. Most of the module proves that
`insertConnection`, the erase behind the copy, `remove_if` and the loop over the
expired entries do to this set what they are meant to, in lists that need not be
sorted. Induction over the list is not needed: each search is the least index
with a property.

**Connection.** `ResponseStays` is about a queue whose head may reset the
response. `ConnInv` says that a write, or the job its end enqueues, exists only
while the response it belongs to is the connection's and has ended, and that
there is one of them. `SentFindsItsResponse` is the consequence for the code: the
callback of a write never dereferences a null `_response`. `NoRequestForgotten` is
what can be proved of `EveryRequestAnswered`: whatever step is taken, a complete
request without an answer has, unless the connection is closed or an exception has
ended the program, a handler that is pending or a job of a chain in the
queue, so that the loop cannot become idle over it. Every such job hands on to the
next of its chain, and the last ones end the response. That the loop and the
handlers go on is the fairness TLC checks it with.

**Client.** `ClientInv` names the places a request can be in: connecting, a job
of the loop, reading, the forwarding job, its result. They exclude each other, and
in each it is known what `_instance`, `_socket` and `_response` hold.

**Messages.** `MessageInv` says, for every place of the parser, which headers are
stored and what `_lastHeaderField`, `_lastHeaderValue` and `_wasHeaderValue` hold
of the one that is being read. A header is stored when the next one begins, so
the last one is stored by `on_headers_complete`.

**Requests.** The first half is about `Route` alone. `InOrder` sorts a set by rank,
and the lemmas about it say that it lists every element once and in order. That
`Route` satisfies its recursion equation is not given with its definition: it
follows because a plugin's number is greater than its user's and numbers are
bounded, by a least counterexample (counted down from `MaxPlugin`), and so does
what the equation gives: now, followed by later, is in order, has no entry twice,
none that was not listed or does not match, and all of the server's own. The second
half is the invariant. `ChainInv` says that `ran`, followed by the callbacks in
`chain.todo`, is such a row (`RanFits`, `TodoFits`, `RanFirst`); that as long as the
request is neither answered nor rejected none of the server's own callbacks is
missing in it (`NoneLost`), so that none is left out when `todo` is empty and 404 is
sent; that a callback that threw is the last of `ran`, and left the request dead or
rejected (`ThrewFits`); and, when `died`, why (`DeathFits`): a match of `chain.todo`
that is not alive was still to run, which `DueGone` needs. `UrlFits` says the same
of the URL: one that is not in pieces throws only if it is refused as a whole.
Registrations and removals change none of this: the row speaks of `offered`, what
was listed when the request came, and entries are never changed.

**Files.** `FsInv`: as long as others only append, the filled part of the buffer
is what the file begins with, after any number of reads of any length.

Only model-checked is liveness (`HandlersRun`, `HandlesClose`, `WorkersFinish`,
`LoopsEnd`, `TimerEnds`, `NothingLeft`, `EveryRequestAnswered`, `Told`, `CallsEnd`):
fairness and `ENABLED` are beyond the prover.

## Not modelled

* Which thread a caller is on is exact in `FutureLoop`. In the code
  `isOnEventLoopThread` is also true while the loop is not running; what follows
  from that for the threads is in `Loop`, but not the damage two of them do to
  `_actions`.
* Exceptions other than `FutureError` leave `uv_run` and end the program.
* Failures of `uv_async_init`, `uv_async_send`, `uv_queue_work`, of bind and of
  listen.
* Upgrade requests, `write()` of a part of a body, the text of headers that are
  sent, trailers of a chunked body, responses without a body because of their
  status.
* Named formats and regular expressions in URI templates, and the parser of
  templates: they are pure functions over strings.
* A plugin that can be reached from itself: `execute()` would not return.
* The bytes of `fs::read` and `fs::write`, the flags of `open`, `existsSync`,
  which takes every exception for "no".
* `Server::close` called twice; `ClientRequest::end` called twice.
* libuv, http_parser and OpenSSL, but for what the code relies on.
* The parts the plan names; and `Regex`, `Process`, `Pipe`, crypto, helpers and
  tracing, which have no protocol of their own.

## Plan

`Handle`, `Stream` and `Timer` with their instance counts as a module below
`HttpServer` and `HttpClient`; the URL codec and the tree of
`UriTemplateValue` as operators with reference definitions.
