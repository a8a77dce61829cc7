# Verification of beauty-cl

This directory holds the formal model of *beauty-cl*, a C++17/20 HTTP server and
client library on top of Boost.Asio and Boost.Beast: TLA+ specifications of its
concurrent components, TLC instances that model-check them, and TLAPS proofs of
their most important properties for every value of their parameters.

All paths below are relative to the root of the repository as it is laid out
under `src/`: `src/src/` is the implementation, `src/include/beauty/` the public
headers, `src/tests/` the tests. `CL`, `SC`, `SS`, `WS`, `WC` and `SE` stand for
`src/src/client.cpp`, `src/src/session_client.hpp`, `src/include/beauty/sse_session.hpp`,
`websocket_session.hpp`, `websocket_client.hpp` and `session.hpp`.

1. [The system](#1-the-system)
2. [The modules](#2-the-modules)
3. [What TLC checks](#3-what-tlc-checks)
4. [What is proved](#4-what-is-proved)
5. [Disagreements with the documentation](#5-disagreements-with-the-documentation)
6. [What is not modelled](#6-what-is-not-modelled)
7. [The plan](#7-the-plan)

To repeat the checks, in this directory:

    tlc -config SessionOneThread.cfg MCSessionClient   # and so on, see section 3
    tlapm SessionClientProofs.tla                      # and the other *Proofs.tla

## 1. The system

One `boost::asio::io_context` executes everything. `beauty::application` owns it
and runs it on a pool of threads (`start(n)`) or in the caller's thread (`run()`).
All other components are handlers of that io_context, kept alive by a
`shared_ptr` to themselves which the pending operation captures.

| component | state | operations |
|---|---|---|
| **Client** `client.hpp`, `client.cpp` | `_url`, one session for each scheme and kind of call | `get`, `put`, `post`, `patch`, `del` and their `*_before`; `send_request` with and without a callback |
| **Client session** `session_client.hpp` | `_requests` (queue), `_pending_request`, the socket, and per request its callback `cb`, its `too_late` flag, its deadline timer; `_requests_mtx` | `run()`; `on_resolve`, `on_connect`, `on_handshake`, `on_write`, `on_read`, `on_timer`; `do_*`, `fail()` |
| **Event stream** `sse_session.hpp`, `sse_stream.cpp` | `_queue` of messages, the heartbeat timer, the socket, a strand | `sse_session::run`, `send`, `close`, `do_write`, `start_heartbeat`, `start_drain` |
| **Application, timers** `application.cpp`, `timer.cpp` | `_state`, `_active_threads`, `_threads`, the io_context, the registered timers | `start`, `stop`, `run`, `wait`, `post`, destructor; `after`, `repeat`, `rearm`, `timer::stop`, `check_application` |
| **Signal set** `signal.cpp` | the wait for a signal, the callback | `signal()`, `signal_set::run`, its handler |
| **Server session** `session.hpp`, `response.hpp` | the request being handled, the response and its callback `_cb`, the stream | handshake, read, the request coroutine, write, shutdown; `response::postpone`, `done` |
| **Middleware chain** `session.hpp`, `middleware.hpp` | `chain->i`, `last_i`, the list of middlewares | `next()` |
| **WebSocket session and client** `websocket_session.hpp`, `websocket_client.hpp` | `_queue` of messages, the stream, `_ws_context` with its uuid | `run`, `on_resolve`, `on_connect`, `on_accept`/`on_handshake`, `on_read`, `send`, `do_write`, `on_write`, `fail`; `client::ws_connect`, `ws_send` |
| **Server, acceptor** `server.cpp`, `acceptor.cpp` | `_endpoints`, `_acceptors`, `_concurrency`, the listening sockets | `listen`, `stop`, `run`, `wait`, registration of routes; acceptor constructor, `run`, `stop`, `do_accept`, `on_accept` |
| **Router, route, attributes** `router.cpp`, `route.cpp`, `attributes.cpp` | routes of each method, sorted at every registration | `add_route`, `match`, `attributes` |
| **url, utils** `url.cpp`, `utils.cpp` | none | `url::url` and its accessors; `split`, `split_pair`, `escape`, `unescape` |
| **base64, sha1, swagger** | none | pure functions |

How they interact:

- *Shared state.* The client session's fields are shared by the threads that
  issue requests, all completion handlers and all deadline timers. All but
  `on_timer` take `_requests_mtx`, and callbacks of the user are called with it
  held (except by `on_timer`, again). The application's fields are shared by its
  callers and its workers; they are atomics that no lock ties together.
- *A client and its sessions.* The asynchronous calls of a client overwrite one member,
  `_url`, and the context of a request keeps views into its text; assigning to `_url` moves the
  text, and one that `std::string` keeps inside itself does not survive that. A synchronous call has a
  session, an io_context and a `_url` of its own.
- *Strands.* An event stream serialises `send`, `close` and its completion
  handlers on a strand; a server session does so for reads, coroutine and writes,
  but `response::done()` comes from whichever thread finishes a postponed response.
- *Callbacks.* User code is called from handlers and may call back into the
  component (a client callback issues a request, a handler or a signal's callback stops
  the application, `sse_connect` sends events).
- *Timers.* `cancel()` does not reach a timer whose wait is already over: its
  handler is queued and runs later. Deadlines, heartbeats and repeating timers
  are all exposed to that.

What is hard, and hence what the properties are for (the complete list, each at
its line, is `hazards` in `PROJECT.json`):

- *Client*: one operation at a time on the socket, although `run()`, completions
  and reconnections all start operations; a late response after a deadline must
  not be taken for the next request's; what is written for a request is its own
  although `_url` is overwritten by the next call; each callback is called once although a
  timer and a completion race for it; a queued request always has something
  working for it.
- *Event stream*: never two writes outstanding, never none while messages wait;
  the queue bounded by backpressure; order and completeness of what reaches the
  client; the heartbeat neither lost nor doubled, and ended by a close; the
  disconnect handler called once, and eventually.
- *Application*: `_active_threads` counts the workers over any number of restarts
  and exceptions, `stop()` returns only when none is left, and it does return.
- *Signal set*: it waits again after each signal, whatever `stop()` and `start()` do
  beside it and although it reads the state twice.
- *Server session*: one operation on the stream although `done()` comes from
  anywhere; requests are answered in order, each once and eventually.
- *Middlewares*: each runs once and in order whatever calls `next()` and how often.
- *WebSocket*: one write at a time with only the length of the queue to tell, through
  failures, reconnections and the overlap of handlers; `on_disconnect` once per
  connection although a read and a write may both fail; a message never stuck.
- *Server*: `listen()` over several endpoints, any of which may fail, leaves
  nothing behind that `stop()` does not know; an open port is served.
- *Router*: which route a request gets does not depend on the order of
  registration, nor its attributes on the routes tried before; a value the client escapes
  arrives as it was, whatever delimiters are in it.

## 2. The modules

| module | models | role |
|---|---|---|
| `SessionClient` | client session and its deadlines | component |
| `RequestContract` | what the client promises per request | abstract specification |
| `Client` | verbs, `_url`, choice of the session, synchronous calls | extends `SessionClient` and `Url` |
| `Url` | a URL and its components | operators |
| `Utils` | `split`, `escape`, `unescape` | operators, of `Url` and `Router` |
| `MCSessionClient`, `MCClient` | | symmetry, and the calls of a program, for TLC |
| `SseStream` | event stream | component |
| `WebSocket` | WebSocket session of the server and client | component |
| `EventChannel` | an ordered, gapless channel | abstract specification of both |
| `TaskQueue` | the tasks of a strand or executor | helper of both streams |
| `Application` | application, worker pool, timers | component |
| `Signals` | signal set | extends `Application` |
| `HttpSession` | server session, postponed responses | component |
| `MiddlewareChain` | `handle_request`'s chain | component |
| `Router` | construction, order, match and attributes of routes | operators |
| `RequestHandling` | registration, lookup and `handle_request` | composes `Router` and `MiddlewareChain` |
| `Server` | server and acceptors | extends `Application` |
| `MCRequestHandling`, `MCServer` | | routes, requests and targets for TLC |
| `DataProofs` | | lemmas about loops, task queues and texts |
| `*Proofs` | | theorems of the component of that name (`ApplicationProofs`: of `Signals` too) |

`HttpSession` abstracts what `MiddlewareChain` details: in it a request coroutine
ends with a response, an error response, a postponement or the loss of the
session. `Application` justifies the fairness of the others: it shows that the
pool keeps serving. The definitions marked *Mutant* in the comments are not part
of any specification: each is the definition it precedes with a plausible bug, and
shows that some property notices it.

### SessionClient

| state | code |
|---|---|
| `queue`, `pending`, `open` | `_requests`, `_pending_request`, `_socket.is_open()` |
| `cb`, `late`, `timer` | `request_context::cb`, `too_late`, `timer` |
| `ops` | outstanding asynchronous operations of each kind |
| `wire` | requests the server has read on this connection and owes a response |
| `work` | what each thread of the io_context does: in which handler it is, before or in which callback |
| `stage`, `calls`, `threw` | history: where `run()` brought a request, how often its callback was called, which handlers let `std::bad_function_call` out |

Every completion handler is an action. A handler with the mutex is one step,
except where it calls a user callback: the test `if (cb && !too_late)`, the call,
and what follows it are three (`OnRead`/`OnTimer`/`Fail`, `CallBack`, `Return`),
because `on_timer` may interleave there and the callback may issue another request,
one of `Nested` (`IssueInCallback`, then `Enter`, blocked if its own thread has the mutex).
`run()` is two: it arms the timer (`Issue`), then waits for the mutex (`Enter`).
The network answers with success, an error or, for a read, `end_of_stream`,
after which the code connects and writes again (`AnswerLost`). If OpenSSL refuses the name of
the host (one of `BadNames`), `fail()` is called by the thread in `run()`, `Caller`, under the mutex, and `run()` writes
after it although there is no connection (`NameRefused`). A deadline passes
in `Expire`, after which `cancel()` has no effect on it.
The server and the sockets are external, known by what the code assumes of them.

### Client, Url and Utils

| state | code |
|---|---|
| `asked`, `fate` | what the program asks for, one of `Usage`; where `send_request` has put each asynchronous call: refused, with the session, with another session |
| `held` | the request whose URL `_url` holds |
| `session` | the `shared_ptr` to the session for the scheme of this instance: none, made, reset after a refused URL |
| `peer`, `reached` | the endpoint that was resolved last; history: what was written, for which request and to which endpoint |
| `sync` | the outstanding operation of each synchronous call, or its result |

`Client` drives the session of `SessionClient`: its actions are those of the session, with
what they read from and write to the façade. `Run` is `send_request` with a callback and a
URL the session is for, by a thread of the program or inside a callback; `Refuse` and `Elsewhere` are its
other ends. The verbs (`Get`, `Post`, ...) make the request and convert seconds to milliseconds
as the code does: `Millis` is zero, no deadline, below a millisecond. `EnterHere` and
`ReadHere` resolve the endpoint of the request in front; it is `Unknown` if its text is gone because
`_url` was overwritten (`Seen`), and so is all that is read through the views of a URL of at most
`SmallBuffer` characters: the assignment to `_url` copies such a text, and the views look at the
temporary, which is gone (`Lost`). The session such a request goes to, its host and its target are then anything.
A synchronous call does not move its URL. It is one operation after another of a private
session, on the thread that called: `fail()` throws as there is no callback, a deadline ends it (`SyncEnd`, `SyncDeadline`).
When it leaves, the destructor of the session shuts the TLS stream down, which waits for the server without a
deadline (`SyncShutdown`).
Calls of the program come one at a time, because `client` is not made for concurrent ones.

A text is a sequence of tokens: delimiters, and runs of characters no step looks into. `Url!Parse`
is the constructor with `split_pair` and the port, `Url!Text` the grammar in the comment of the class as
its inverse. `Utils!Escape` and `Unescape` work on the codes of the characters that matter.

### SseStream

The strand is a sequence of tasks: `send` and `close` post one, and the kernel
(`WriteEnds`, `DrainEnds`) and the clock (`BeatFires`) post the completion handlers.
`RunStrand` takes the first and runs the handler as one step; `run()` itself
(`Begin` posts the header, `StartHeartbeat` arms the timer, then `Connected`, or `Refused` when `sse_connect` threw) and the callers
are not on the strand, which may have written the header, or failed to and closed the socket, before the heartbeat
is armed. `writes` remembers whether the socket of a write was open
when it was started, because a write started on a closed socket can only fail.
`asked` and `wrote` are histories. `EventChannel` is refined with them.

### Application

Calls are program counters (`pc`), one step per access to shared state: `start()` is
`StartCheck`, `StartRestart`, `StartMark`, `StartReset`, `StartSpawn`, and so on.
Worker threads and threads in `run()` are inside `ioc().run()` (`loop`), and take
handlers first-in first-out (`Take`, then the steps of the calls a handler makes,
then `Finish`). The constants say which user thread makes which calls, which is
how an instance states its usage. A worker catches `const std::exception &`: a handler that throws anything
else (`"abort"` of `Handlers`) ends the process in `Finish`, `life` is `"ended"` and no action is enabled any
more. In `run()` both reach the caller. Timers are `new`, `made`, `armed`, `due` (handler
queued), `called`, `off`; a repeating one goes back to `armed` in `Finish`. `StopTimer` is the
user's `timer::stop()`, without effect on a handler that is queued.

### Signals

`set` is where the signal set is: `new`, `idle` in somebody's hands, `waiting`, `posted` when the handler is
queued, `off` when it is destroyed. `at` is a second program counter of each thread, for
`signal_set::run()`: the first read of the state (`RunCheck`), the second, which starts the application if it is not
started (`RunRecheck`), the wait (`RunArm`); and for the handler (`Rerun` after the callback). The
handler is one of those of `Application`, `ahead` handlers being queued before it. `Raise` and
`Deliver` are the operating system and Asio, which keeps a signal until a wait takes it.

### HttpSession and MiddlewareChain

`HttpSession`: `at` is where the session itself waits, `writes` the responses being
written, `armed[r]` says that `response::_cb` of request r starts the write.
`Done` and `DoneReturn` are the call of `_cb` and its replacement by the empty one.
`Early` is the set of requests for which `done()` can come while the coroutine has
not ended; for the others whoever calls `done()` waits for that.

`MiddlewareChain`: `i` and `last` are the code's shared index and guard, `stack` is
the stack of suspended coroutines, `ran` the history of what was started. A
middleware calls `next()` up to `MaxCalls` times, returns, throws, or catches.

### Router and RequestHandling

`Route` is the constructor of a route: its segments are words or parameters. `Costs` is
the loop of `add_route` over the segments of a path, `Before` the comparison it sorts by, `Arrangements` the results `std::sort` may
have with it (it is not stable), `Match` and `Attributes` are `route::match` with the
class `attributes`, over texts: the query comes first, the parameters are appended to it, the
whole is split at `&` and `=`, the first value of a name stays and is unescaped, and a piece that is not
in two, as one with a raw, unescaped `=` in its value, is dropped. `Register` is any of `get`, `put`, ... `ws`, `sse`, as
`table` is changed before the server listens and never after it. `LookUp` is
`handle_request` up to the chain: an error response, a new owner of the socket, or the
chain of `MiddlewareChain`, which then runs as `RunChain`.

### WebSocket

One module for both sides, as the queue is the same code in both (WS:123-151, WC:153-192):
`role` says which one. `conn` is the stream, `attempts` the outstanding step of
resolving, connecting or shaking hands, `tasks` what is posted to the executor. On the client that is
a strand. On the server it is the io_context: `get_executor()` of the accepted socket is not
a strand, and handlers overlap when several threads run it. So a handler that uses the queue is two
steps, `Take` (push or pop) and `Decide` (test the length, write), with `work` in
between. `Retry` is a further `ws_connect`, whenever the user makes it: the repository's example makes one a
second after each `on_error`, whatever is outstanding by then. `hasty` counts those on top of an attempt or a read,
`linked` the connections, `thrown` the calls of `on_disconnect` that threw. All callbacks may throw: in `Fail` that leaves out what is after
them, so that the connection keeps its name, or is not closed. `Release` is the destructor. `asked` and `wrote` are histories, with which `EventChannel` is refined.

### Server

`step`, `caller` and `n` say where `listen()` or `stop()` is; their calls of the
application are steps of `Application` made by the calling thread (`Calls` enters, `Back`
returns). `Construct` is the constructor of an acceptor with its four ends: listening;
closed or open after a failure, with the application stopped; left by an exception. `port`
is what the kernel has, `accept` the outstanding `async_accept` or its queued completion. `OnAccept` is
`on_accept` in its three cases, in a thread of the pool; making a session takes until
`AcceptNext`, which arms the next accept. An endpoint that another acceptor listens on is
`Taken`, which is how a second `listen()` fails.

## 3. What TLC checks

| run | module | shows |
|---|---|---|
| `SessionOneThread` | `MCSessionClient` | with one io_context thread, over TLS, a callback that issues a request and a host that OpenSSL refuses: callbacks at most once, no request stranded before the first failure, a session that has failed stays so, the contract refined; everything answered if the network answers and no callback blocks its own thread |
| `Client` | `MCClient` | with two threads, every verb, URLs with each part of the grammar, a refused one and one of the other scheme: one operation at a time, responses to the right request, what is written is its caller's own, a short URL excepted, synchronous calls with a deadline end their operation; a callback that issues a request under the mutex blocks for ever |
| `SessionCalledTwice` | `MCSessionClient` | *violation*: two threads call one callback twice |
| `SseStream` | `SseStream` | bounded queue, one write, a heartbeat while open and none armed after, one disconnect, refinement of `EventChannel`; everything sent is written, a close is noticed |
| `AppPool` | `Application` | started and stopped by one thread, with a waiter, a destructor, a repeating timer and handlers that throw anything: while the process lives, the pool is counted, whole, gone after `stop()`; `stop()` returns and timers fire |
| `AppRun` | `Application` | `run()` in the caller's thread, stopped by its own handlers, returns |
| `Signals` | `Signals` | an application started and stopped beside a signal set, with a timer and callbacks that throw: every signal is served while the application runs |
| `SignalStops` | `Signals` | *violation*: a signal's callback that stops the application never returns |
| `Server` | `MCServer` | `listen()` and `stop()` called any number of times with every fault: all endpoints or a stopped application, no port forgotten, connections accepted |
| `Requests` | `MCRequestHandling` | a request goes to a most specific route, with the values the client escaped; each stage of its chain runs once and in order; a middleware that does not call `next()` stops the request if none calls it twice |
| `WebSocket` | `WebSocket` | from either side, with callbacks that throw and a `ws_connect` at any time: one write, `on_disconnect` once per connection and once more per throw, `EventChannel` refined; the server writes everything and notices the end |
| `Http` | `HttpSession` | one operation, answers in order, each once; requests whose `done()` waits are answered |

No run checks a type invariant or a supporting one: `TypeOK` of each module, `NoStall`,
`OneHeartbeat`, `OneChain`, `ActiveCounts`, `SingleWait` and `StuckIsPermanent` are proved instead (section 4).

**Bounds.**
`SessionClient`: three requests are one in front, one behind it and one that comes
later; two with deadlines race each other's and the network's answers; two errors
let a failure follow a failure; one `end_of_stream` re-sends a request in front of
others. Two threads suffice for the race of `on_timer` with the mutex holder, as
there can be only one holder. `MaxErrors` and `MaxEofs` bound what is otherwise a
loop (fail, reconnect); the proofs need no bound.
`Client`: two requests with a deadline and one without are those of `SessionClient`; the
programs of `Mixed` have each verb, a deadline that rounds to none (9 tenths of a millisecond), a
path or none, a query with delimiters, a port, a login, an address of IPv6, a port beyond 65535, both
schemes, and a text that fits into `SmallBuffer`. A token stands for a piece of any length, so the limit of 5 tokens
stands for the 15 characters of libstdc++; the proofs are for any limit. One error and one `end_of_stream` are enough for one request to be re-sent among others.
`Signals`: two signals, one while the other is being served; the application can be stopped and started
again in any step between. Three identities for the one worker, as `signal()` starts the
application itself and a worker may be leaving meanwhile; the pool has one thread, so the next
handler waits behind the one of the set.
`SseStream`: `Limit` 1 instead of 1024 makes backpressure happen with two sends and a
heartbeat; the limit is a parameter of the proofs. `MaxBeats` bounds the heartbeats of
an open stream, not the timer of a closed one.
`Application`: two workers are the first pool in which a worker leaves while another
stays; start and stop can follow each other any number of times, as nothing counts them.
`MaxReady` bounds what `post()` queues. Handlers that end the process are in `AppPool` only, where all threads are workers.
`RequestHandling`: two global and two route middlewares have every neighbourhood
(first, inner, the boundary between the lists, last); two calls are the first and
one that may come at any later moment, and the proofs are for any number. The
routes have every combination of word and parameter over two segments, of which three
at a time are registered in any order, so that every pair of routes meets with
a third between them, and routes for WebSocket and events share their paths. The values have each
character `escape()` and `unescape()` treat specially (blank, `+`, `%`, `&`, `=`, `/`, `?`),
one looks like an escape (`%20`), one is empty; a request has a query attribute with the name of a parameter, one
with a raw `=`, a second `?`, or no query.
`Server`: two acceptors are a first one that listens and a second that fails or
conflicts with it, and also two calls of `listen()` for one endpoint each; a third would add
its position in the middle. One thread in the pool, of two identities so that it may be
started again while the old one leaves. `MaxBacklog` 1: a connection waits while another
is accepted.
`WebSocket`: two messages in a queue, of three sends, the first being written; one more `ws_connect` comes after a failure or on top of the first, and
its own attempt, connection and reads may fail again. The proofs are for any number. One thread, as the server's properties need it (section 5).
`HttpSession`: three requests with a first, middle and last one, of which the middle
one waits for its coroutine; `done()` may come twice.

Deadlock checking is off everywhere because each of these systems may legitimately
stop: all requests answered, a stream closed, an application destroyed, a
connection ended. What must not stop is stated as a liveness property instead.

**Fairness.**
*SessionClient*: io_context threads run queued handlers, callbacks return, a thread that
waits for the mutex gets it if it stays free, deadlines pass. Nothing is assumed of the
network: a server may never answer. Only `AllAnswered` has that as its premise. Both it and
the deadlines of the contract also presuppose that no callback blocks its own thread, which
the code does not prevent.
*Client*: the thread in a synchronous call runs its io_context, so that a deadline that has
passed ends it; nothing else is assumed, so that the shutdown of a TLS connection may take for ever.
*Signals*: as for the application; the io_context polls for signals too, and a thread in
`signal_set::run()` goes on.
*SseStream*: the strand runs its tasks, the kernel ends writes (with success or an
error), the timer fires, `sse_connect` returns or throws, and a read on a closed
socket ends. A read on an open socket need not.
*Application*: every thread is scheduled and handlers return. `Expire` is strongly fair: the
io_context looks at its timers between any two handlers, and a thread is inside
`ioc().run()` infinitely, though not continuously, often. User threads need make no call.
*WebSocket*: handlers run, attempts and writes end, reads end on a stream that is not
open, and an object nobody refers to is destroyed. A read on an open stream need not end, and
nobody need send.
*Server*: threads are scheduled; the io_context polls its sockets between any two handlers,
so an accept that could complete again and again does (strong fairness); and it runs queued
completions in order, which excludes that one is passed over for ever. Nothing is
assumed of the user, who need not call `stop()`.
*HttpSession*: coroutines end, writes end, and whoever postponed a response calls `done()`;
a client need never send another request.

## 4. What is proved

All theorems are in the `*Proofs` modules, hold for every value of the constants that
satisfies the named assumptions, and rest on an inductive invariant, of which
TLC had checked the parts on the instances above.

**SessionClientProofs.** `Inv` is the conjunction of
`TypeOK`; `WorkOK` (a busy thread works for a request); `HolderOK` (the mutex has one
holder, and while a thread holds it across a callback no operation is outstanding);
`OperationOK` (an outstanding operation implies `pending`, which implies a non-empty
queue, and the wire is empty unless a read is outstanding); `SingleOperation` and
`ResponseMatchesRequest`. The last two are not inductive alone: that a
second operation is not started rests on `pending`, and that rests on who holds the mutex.
`Awake` adds to `NoLostWakeup` that, before the first failure, the callback a thread has tested is still there
when it is called: otherwise the handler would throw before its `do_write()`.
Theorems: `TypeCorrectness`, `OneOperationAtATime`, `NoMismatchedResponse`,
`FailureIsFinal` and `SelfBlockIsFinal` for any requests, threads and number of errors;
`NoRequestStranded` under `OneThread`, the io_context has a single thread;
`OneThreadCallsOnce` and `ContractKept` under `NoRace`, which adds that no request with a deadline has a host name
that OpenSSL refuses: of such a one `run()` calls the callback itself, beside the one
thread of the handlers. `ContractKept` is the safety part of the refinement of `RequestContract`, which
counts the calls of each callback: a second call would be no step of it. The assumption on the threads is
needed: `SessionCalledTwice` is the counterexample with two.

The same module has the theorems of `Client`. `FacadeIsSession`: every behaviour of a client is one of
its session, so all of the above holds for the session inside a client. `RequestsAreOwn`:
what is written for a request is what its caller meant, and where, for any program; of an asynchronous request
whose URL fits into the buffer of a short string, whose text the move into `_url` loses (CL:211), only method and body. Its
invariant is `FacadeOK` (a request the session has is one of its scheme; the one about to enter the
queue is the one `_url` holds; while something is queued or connected the peer is that of one of its requests,
or unknown after the server has ended a connection) and `SyncOK`. It assumes `WellFormedUsage`: the URLs of
the program follow the grammar of the class `url` and have one of its two schemes, as those of the instance do; by
`ShortAssumption` a name read from a lost text is one that OpenSSL may refuse.

What that grammar means to the constructor is `GrammarIsParsed`, for components of any length: `Parse(Text(c))` is `c`, with
the number of its port, or is refused if that port is no number or above 65535. `WellFormed` says which delimiters a component must not
contain and that a query has a path before it; all parts but the host may be missing, so the proof follows each cut to
where it falls: the columns at `/` (`UrlColumns`), the halves at `@` and `:` (`AuthorityParts`, `UserParts`), the
brackets of an IPv6 host (`HostParts`) and the `?` behind the authority (`PathAndQuery`).

**SseStreamProofs.** `Inv` adds to the types: `QueueBounded`; `WriteOK` (a write is
outstanding, or its completion is on the strand, exactly when it should be);
`BeatOK` (heartbeat armed or posted, not both, not twice, and neither before `start_heartbeat()` has run beside the
strand); `DrainOK` (the read that
detects the client's end, likewise, and the disconnect handler). They are about
tasks anywhere on the strand, which the lemmas of `DataProofs` on what posting a task
and taking the first do to the tasks of a kind make possible. Theorems: `TypeCorrectness`,
`Backpressure`, `WritesAreSerial`, `HeartbeatChain`, `DisconnectsOnce`, and `ClosedIsQuiet`, from the moment `run()` has armed
the timer: before, another thread may have written the header, failed and closed the socket, and `run()` arms the
timer of a closed stream once (SSE:138), which then finds it closed.

`ChannelKept` is the refinement of `EventChannel`. Its invariant `OrderOK` says where every message
is: `Accounted`, what was sent is what was written, then the queue, then the messages of the
sends on the strand (`Lists` gives the position of each); or, once backpressure has dropped one, `Gap`: the
written and queued messages still continue what was sent without a gap, but nothing is said of later ones. That is
enough because the send that drops a message closes the stream: as long as the socket is open a
close is posted, and of the queue at most the write that is under way, or its completion posted in front of that
close and the one write it starts, still reaches the client.

**ApplicationProofs.** `TypeCorrectness` is general. Those about the worker pool assume `OneController`: one
thread makes the controlling calls, nobody uses `run()`, handlers may throw anything but neither stop the
application nor create timers. `ControlInv` says that then at most that thread is inside a call;
`PoolInv` relates `active`, the workers alive, and how many are left to create at each program
point. Both hold while the process lives: a worker catches only `std::exception`
(`src/src/application.cpp:76`), and a handler that throws anything else ends the process, from any state. Theorems: `PoolIsCounted`, `StopIsFinal`, `PoolIsWhole`, `DestroyedWithoutWorkers`, for
every pool size. The assumption cannot be dropped: with `"stop"` among the handlers a
destructor, finding the application stopped already, leaves before the workers have ended; with
`"after"` a timer created in a handler may find the state changed between the two reads of
`check_application` (`src/src/timer.cpp:14`) and start the application while `stop()` is waiting.

`OneWaitOutstanding` is about `Signals` and assumes nothing of who controls the application: `SingleWait` says that
the set waits, or has its handler in the queue at the place `ahead` counts, or is in the hand of exactly one thread,
or is gone, so that no wait is lost or doubled and no signal is served twice. It is inductive with the types, once it is
known (`OthersAppend`) that nothing but a thread taking a handler moves those in the queue. It is the safety behind
`SignalServed`, which adds that the thread goes on.

**RequestHandlingProofs.** Of the chain, `Inv` is the types, `OnceInOrder`, and `Progress` (what ran is
exactly `0..last`, and the index has passed it by one, except at the route). Theorems:
`TypeCorrectness`, `StagesRunOnce` for every length of the chain and number of calls, and `ShortCircuit`
with one more conjunct, `Passed`: as long as nobody has called `next()` twice, every stage
before the last one started has called it. `HandlingRunsChain`: every behaviour of `RequestHandling` is
one of its chain, so both hold for the requests a router has found a route for.

`RouteIsMostSpecific` is about the table the requests meet: `TableOK` (for each method, no
route stands behind one that is `Before` it) is kept by a registration because it sorts, and `Routed` says
the route chosen is the first that matches, or there is none. What is left is that the cost of a route
decides at the leftmost segment in which two of them differ: the segments to its right weigh less together than
that one (`CostsBelow`, `LeftmostDecides`), by two inductions over the length of a path. `RoutesAssumption` is that a
path is a sequence. The theorem is about an unbounded cost: the `int` of the code overflows for more than 31 segments.

`AttributesAreBound` is `ParametersBound`: the value a client escapes is the one the handler reads. Its invariant is `Bound`
(the attributes are those of the chosen route and the request). Three facts about texts
carry it: `Unescape` undoes `Escape`, whatever the value (a blank, a `+`, what looks like an escape); an escaped value has no
`&` and no `=` in it, so that splitting the text of the attributes finds the pairs it was built
from, the query's before those of the path (`SplitConcat`); and the loop over the parameters puts one pair behind the text for each.
It assumes `PlainNames`: a name with a raw `&` or `=` in it would be cut, in the code as in the model.
The routes, targets and values may be any texts.

**HttpSessionProofs.** `Inv` is the types, `WritingLast` (only the current request
is being written, once, while the session is idle), `ArmedLast` (only the current, unanswered
request has an armed callback) and `InOrder`. Theorems: `TypeCorrectness`, `OneOperationAtATime`,
`AnswersInOrder`, also for early and repeated calls of `done()`.

**WebSocketProofs.** `Inv` is the types; `HandlerOK` (one thread is in a handler); `QueueOK`
(a write outstanding or reported implies a message in the queue; after a pop nothing is being written;
after a push the queue has more than one message if something is); `ChainOK` (one attempt, read or
completion of either, and at most one more for each `ws_connect` called while there was one already: `hasty` counts those). All theorems assume `OneHandler`: the client, whose strand
sees to it, or an io_context with one thread. Theorems: `TypeCorrectness` (which contains
that `pop_front` in `on_write` finds its message), `OneWriteAtATime`, `OneLinkAtATime`,
`StuckIsFinal`, for any number of messages and of `ws_connect` at any time; `DisconnectsOnce`, by counting: the
calls of `on_disconnect`, and one more while the connection has its uuid, do not exceed the connections made and
the calls that threw, as a call that throws leaves the uuid in place (WC:198-201) for the next failure to call it again; and `ChannelKept`, the refinement of `EventChannel`, with `OrderOK`: every message
is written, queued, or in a posted task, in the order of the calls of `send`.

**ServerProofs.** `Inv` is the types, with `n` inside the list `listen()` goes over, and `PortsOK`: an
open port is that of a listed acceptor, of one `stop()` has still to pass, or of the one `listen()`
is about to add. Theorems: `TypeCorrectness`, `NoPortIsForgotten`, for any endpoints and faults and
whatever the application does: no fact about it is used.

`ListenOpensAll` is `AllOrStopped`, and there what the application does matters: if anything started it again between
a failed bind and the end of `listen()`, it would run with endpoints missing. `CallInv` says that nothing does: `CallsOK`
(a thread that runs handlers, or is a worker, is in no call but `stop()`), `Alone` (while `listen()` is under way
only its caller may be in another, in the `start()` before the first endpoint), and so `ListenOK`: either all
endpoints so far listen or the application is stopped, or its caller is about to do that. It assumes that no handler creates
a timer, as `timer::start()` starts a stopped application if `stop()` comes between its two reads of the state.

**DataProofs** has what the others need to know of data, in three parts.
*Loops*: no induction theorem of the library can be used, as each takes an operator. An induction over a number is made
as the absence of a smallest counterexample (`Smallest`, `Induction`), from the well-foundedness
of subset inclusion in the finite-set theorems; that a recursive function (a `LET f[k] == ...` of `Utils` or `Router`) has the values its
equation gives it, for a loop of any length, follows by building them step by step (`Loop`, `LoopStep`).
*Tasks*: `Posting` and `Taking` on the kinds of tasks, `Counting` on how many there are, `Precedes` on their order, and
`Accounted` for a message that is posted, queued or written.
*Texts*: a text is cut at its separators and nowhere else (`Cuts`, `SplitIsColumns`); cutting two texts joined by a separator
gives the columns of the one and then those of the other (`SplitConcat`), cutting a text without one the text itself
(`SplitPlain`); and decoding what `Escape` has written is the identity (`UnescapeEscape`).

**Only model-checked**: every liveness property (`AllAnswered`, `CallsReturn`, `EventuallyWritten`,
`CloseIsNoticed`, `StopReturns`, `RunReturns`, `TimersFire`, `SignalServed`,
`PatientRequestAnswered`, `ConnectionsAccepted`, `EndIsNoticed`, the fair part of `ImplementsContract`), as
the prover does not handle liveness under fairness.

## 5. Disagreements with the documentation

Each is a run that TLC must find violated.

- `SessionCalledTwice`: `on_timer` (SC:372) is the only handler without the mutex. With two
  threads the callback of a request can be called by it and by `on_read` or `fail`; a test
  expects one call.
- `SignalStops`: the example of signals stops the application in the callback (`src/README.md:229`),
  and "it's easier to stop inside an handler" (`src/src/application.cpp:83`). But `stop()` waits until no thread is
  left in the io_context, also for the one it is called on: it never returns, and its worker is blocked for ever. The
  other threads leave `wait()` all the same, as that waits only for the state `stopped`, which `stop()` has set.

Others have no run of their own. The first group can be seen by changing a constant
or adding a property of the module to a run:

- "There is a waiting connection or read ack, nothing to do to rearm" (SC:154): after a failed operation there is
  none, `_pending_request` stays set, and no later request of the session is ever sent: `PendingIsWaiting`,
  added to `SessionOneThread`. `WedgeIsPermanent` shows it is final.
- A `done()` that comes before `on_read` registers the callback (SE:116) calls the
  empty one and the response is never written: `EveryRequestAnswered`, added to `Http`.
- A client that talks to two hosts with one scheme writes requests for the second on the connection to
  the first (CL:211): `OwnHost`, added to `Client` with `Usage <- TwoHosts`.
- `stop()` in any handler of the pool waits for its own thread, as in `SignalStops`: `StopReturns`, with `"stop"` among the
  `Handlers` of `AppPool`. The acceptor does just that when an accept fails (`src/src/acceptor.cpp:97`): one such failure
  blocks the pool. It also happens without any fault when `server::stop()` closes the port between
  the accept of a connection and the next `do_accept()`, which then fails on the closed
  acceptor: `StopReturns`, added to `Server` with `Faults = {}`. While another worker is in such a
  call, `stop()` of the server returns at once, as the application is stopped already.
- A destructor after `stop()` in a handler leaves before the workers have ended: `NoUseAfterDestroy`, same change.
- `after()` in a handler against `stop()`: `ActiveCounts`, `"after"` added.
- "reset wil cancel all current operations (timers)" (`src/include/beauty/application.hpp:46`), but a
  repeating timer whose handler is due or running is armed again, in no list: `WaitingIsRegistered`, added to `AppPool`.
- A middleware that calls `next()` twice runs what a short-circuiting one behind it had stopped:
  `NoBypass`, added to `Requests`; hence the premise of `ShortCircuits`.
- "We are not currently writing, so send this immediately" (WS:134) is wrong on a server with two
  threads: `OneWrite` with `Roles = {"server"}` and `Threads = {t1, t2}` in `WebSocket`.
- "Are we already writing?" (WC:159): on the client a failed write, or a message sent before the stream
  is open, leaves the queue not empty with nothing written: `QueueIsWritten`, added to `WebSocket`.

The second group is in what the actions do:

- Middlewares of the server do not run for WebSocket and event-stream routes, nor for a request that
  no route matches (SE:209-217); `src/README.md:340` describes them as server-wide.
- A query attribute with the name of a path parameter takes its place, and a value with a raw, unescaped `=` in
  it is dropped (`src/src/route.cpp:65`, `src/src/attributes.cpp:9`; the premises of `ParametersBound`).
- The path of a URL is optional in its grammar (`src/include/beauty/url.hpp:11`), but without one the query of
  `http://h?q` becomes part of the host, `h?q`.
- A deadline of less than a millisecond, given in seconds, is none (`Millis`).
- `_url = beauty::url(url)` (CL:211) moves a string together with the views of its parts (`src/include/beauty/url.hpp:49-64`). A
  text that fits inside the string object is copied, and the views look at that of the temporary, which is gone: endpoint,
  target, `Host` and the name for SNI of such a request are what is left there (`Lost`; `OwnRequest` excepts it).
- A synchronous call over https that has timed out waits in `~session_client` (SC:94) for the server's part of the shutdown: beyond its
  deadline, and for ever if the server is silent (`SyncShutdown`; `CallsReturn` excepts it).
- After a host name that OpenSSL refuses, `run()` calls `fail()` and goes on to write on the stream that has not been
  connected (SC:174, SC:159; `NameRefused`).
- An exception of a handler that is no `std::exception` ends the process (`src/src/application.cpp:76`; `EndsProcess`).
- An `on_disconnect` that throws is called again for the same connection (WC:198; `Fail`, `thrown`).
- The example calls `ws_connect` a second after every `on_error` (`src/examples/beauty_ws_client.cpp:37-41`), also while another
  attempt or read is under way, of which there are then two (`Retry`, `hasty`).
- A signal set whose callback throws, or which runs again while the application is stopped, is destroyed, and the
  next signal takes its default action (`off` in `Signals`).
- A second `listen()` opens the endpoints of the first again, which fails and stops the application;
  a failed bind is not reported to the caller of `listen()` at all (`src/src/server.cpp:59`).
- The client calls no `on_disconnect` when the server closes the connection normally (WC:137), and
  `client::ws` makes a new WebSocket client only if there is no HTTP session (`src/src/client.cpp:265`).
- `chain->next` captures the chain it is a member of (SE:236): neither is ever freed.

## 6. What is not modelled

- *Client*: a refused name of a request issued by a callback that `run()` itself has called, while the session is being
  left; calls of one client by two threads at once, for which it has no lock, and by which `_url` would be read while it is
  written; the constructor with certificates; a request that starts a stopped application. *Sessions*: TLS
  internals, the text of HTTP messages and events.
- *Application*: an external io_context (all calls return at once); a second `timer::start()` of one timer
  by the user; what is left true when two threads control it at the same time.
- *WebSocket*: what Beast does with overlapping attempts or reads on one stream beyond a nondeterministic result of each;
  the move of the URL (`src/src/client.cpp:266-269`), which has the short texts of CL:211 again, as no property is about
  where an attempt goes; an `on_disconnect` of the server that throws in the destructor, which ends the process; the strand of the
  resolver of the client.
- *Server*: an exception while a session is created in `on_accept`; handlers that end the process (`ServerAssumption`); `run()` by another thread next to `stop()` (both change the state of the application
  in steps, and every proof about it assumes one controlling thread); ports the kernel chooses; `enable_swagger`.
- *Router*: the width of the cost (`int`, paths of more than 31 segments), conversions of attributes.
- *URL, utilities*: `make_uuid`, `strip_login_password`, the texts of error responses.
- *Signal set*: a second set; a callback that runs `signal()` itself.
- *Base64, SHA-1*: standard functions that nothing in the library calls; the second, over 32-bit words, is out of TLC's reach.
- *Swagger, exceptions, certificates, version*: output, tables and configuration without state.

## 7. The plan

Done: client session and façade, URL and texts, event stream, application, signal set, middleware chain, server session,
WebSocket, router and request handling, server; the safety part of every refinement proved.

1. `Connection`: `HttpSession` with `RequestHandling` as its coroutine: which responses a connection
   sends for which requests, with the handover of the socket to a WebSocket or event stream.
2. `Application` with several controlling threads: what still holds of `start`, `stop` and `run`
   called at the same time.
