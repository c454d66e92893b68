# TLA+ models of httpserver-cpp

Models of the router, the per-connection session and the server of
`src/`, checked with TLC.

## The system

- **HttpServer / HttpServerImpl** (`src/src/http_server_impl.cpp`) own:
  - an `io_context` run by `thread_num_` threads;
  - an acceptor;
  - the route table;
  - the statistics.

  `run()` does the following, in order:
  1. validates the options;
  2. resets the global session id `HttpSession::s_id` and every counter;
  3. restarts the io_context;
  4. opens, binds and listens;
  5. starts accepting and runs the io_context until `stop()`.

  `stop()` stops the io_context, joins the threads and closes the acceptor.
- **HttpRouter** (`src/src/http_router.h`) is a trie of path segments.
  - `registerHandler` → `insert`, called before `run()`.
  - The session calls `search(segments_view)` for every request.
- **HttpSession** (`src/src/http_session.cpp`) is one per accepted socket, and is a `shared_ptr`.
  - Its callbacks run on its strand.
  - Its cycle is doRead → onRead → processRequest → (handler) → writeResponse → doWrite → onWrite → doRead or doClose.
  - Whatever holds a `shared_ptr` keeps it alive: the dispatched doRead, the pending read or write, and every `HttpResponseWriter`.
  - The destructor decrements `session_cnt_` and closes the socket.
- **HttpResponse** (`src/src/http_response.cpp`) is the value a handler builds: a body, `forceGzip`, `forceDisableKeepAlive`, user headers. The session's `writeResponse` turns it into the message on the wire: keep-alive, gzip, HEAD body suppression and `prepare_payload`.
- **HttpResponseWriter** (`src/src/http_response.cpp`) is given to the user's `APIHandler::handle`.
  - `send()` calls `writeResponse` directly on the calling thread, which may be off the strand.
  - The writer is copyable.
- **Statistics** (`http_statistics_internal.h`) are atomics bumped by session steps and reset by `run()`.

The hard parts are:
- the ownership of a session across callbacks and handler threads;
- the off-strand `send`;
- `io_context::stop()`, which neither cancels nor destroys pending handlers, so sessions outlive `stop()` and resume at the next `run()`;
- the trie walk's treatment of empty segments.

## Modules

| module | models | state | actions |
|---|---|---|---|
| `HttpRouter` | `HttpRouter<T>` | `nodes` (trie nodes as key sequences), `data` (`data_` per node), history `lastReg`, bound counter `inserts` | `Register` (insert returns), `RegisterRejected` (insert throws) |
| `HttpSession` | `HttpSession`, `HttpResponseWriter`, counters | per session: `state`, reference holders `posted`/`reads`/`writes`/`writers`, `open`, `keep_alive` bound into onWrite, `request`, `current_request_id`, `session_id`; global `s_id`, `session_cnt`, `statistics` | `Construct`, `DoRead`, `OnReadEof`/`Timeout`/`Fail`/`Success`, `WriterSend`, `WriterDrop`, `OnWriteSuccess`/`Timeout`/`Fail` |
| `HttpServer` | `HttpServerImpl`, composition | `reactor` (io_context stopped/restarted/running), `acceptor_open`, pending `accepts`, queued `aborted` accept completions, `runs` | `Run`, `Stop`, `Accept`, `OnAcceptError`, every session step |
| `HttpServerLifecycle` | `run()` and `stop()` as thread steps | runner `rpc`, `ctx_stopped` (io_context stopped()), `pool` (io_thread_pool_ entries), `acceptor_open`, per stopper `spc` and loop index `idx`, `terminated`, history `after_run` | `RunCall`, `RunRestart`, `RunOpen`, `RunSpawn`, `RunReturn`, `WorkerExit`, `StopCheck`, `StopStop`, `StopJoin`, `StopClose` |
| `HttpLog` | `initLog`, `setLogLevel` | `init_flag`, spdlog's default `logger` (kind, sinks), `level` | `InitLog`, `SetLogLevel` |
| `HttpResponse` | `HttpResponse` and `writeResponse`'s assembly | `request` answered, `rsp` being built (body length, the two flags, a Connection header), `wire` (the message handed to async_write) | `ForceGzip`, `ForceDisableKeepAlive`, `Header`, `Send` |
| `HttpConnection` | abstract spec of one connection (spec 4.3) | `phase`, `served` | `Open`, `Receive`, `Respond`, `Continue`, `Close` |

Details:
- Route search is the recursive operator `Descend`. It is checked against the reference definition `DeepestNode` over all bounded requests.
- `HttpSession` instantiates `HttpRouter` with the trie that a fold of `AfterInsert` over the constant `Registrations` builds (`RoutesAfter`).
- `processRequest` is inside `OnReadSuccess`.
  - The three 400 replies and the dispatch come from `Reply`, in the code's order: URL parse, then route, then method `> put`.
  - The handler's choice is `\E call \in HandlerCalls`: send now, defer to another thread, drop the writer, or send and keep a copy.
- `Release` is the destructor. It runs when a step leaves no holder: `--session_cnt_` (mod `CntModulus`) and `doClose()`.
- Strand steps need `reactor = "running"`. `WriterSend` and `WriterDrop` run on a handler thread and do not.
- `stop()` closes the acceptor, which cancels the pending `async_accept`. Its completion (`operation_aborted`) waits in the stopped io_context, and `OnAcceptError` runs it at the next `run()`: `onAccept` calls `doAccept()` whatever the error.
- `HttpServerLifecycle` splits `run()` and `stop()` into the calls that touch shared state. This exposes the gap between `stop()`'s `stopped()` test and its `io_context_.stop()`, and the loops over `io_thread_pool_`. Each loop iteration is one step.
- `HttpServerLifecycle`'s `StopperThread` says where each `stop()` runs: on a thread of its own (as the tests do) or in a handler on pool thread i. The second joins its own thread.
- `HttpResponse`'s operator `WriteResponse` is `writeResponse` as a function of the response and the request. `HttpSession` uses its keep-alive part `KeepAliveOf`: a handler may force keep-alive off or set a Connection header, which `response_.keep_alive()` reads back.
- `HttpLog` abstracts `LogOptions` to the branches `initLog` takes (`LogOptionRecords`), including a file the file sink cannot open: spdlog's file sinks open the file in their constructor and throw. A logger spdlog creates starts at level info: this is spdlog behaviour, not repository code.
- `HttpServer` maps each session to an `HttpConnection` (`Phase`, `served <- handled_id`) and checks `Conn!Spec` as a property. This is the refinement.

Abstractions:
- A URL path is its first byte plus its segments.
- A request is its verb, target form (plain, containing `|`, unparseable), segments and keep-alive.
- In `HttpSession`, headers, gzip, HEAD body suppression, parameters and the body are left out because no property tells them apart; `HttpResponse` models the response side of them as body lengths.
- `session_cnt_` is a uint32. Its width is scaled down to `CntModulus = 2^8` because TLC integers are 32-bit signed; the wrap at 0 is what matters.

## Runs

| run | cfg | expect | shows |
|---|---|---|---|
| router | `MC_HttpRouter.cfg` | pass | Up to 4 registrations of paths of ≤2 segments over {a, b, "", ".."}, 2 handlers, with symmetry on handlers. It checks two properties: search reaches the deepest matching node (`SearchFindsDeepestNode`, against a reference definition), and a trailing `/` is ignored (`TrailingSlashIgnored`, the header's rule). |
| router_last_registration | `MC_HttpRouter_LastRegistrationWins.cfg` | violation | Registering `//a` overwrites the root and never resolves. |
| router_longest_prefix | `MC_HttpRouter_LongestRegisteredPrefix.cfg` | violation | With `/` registered, `/a` gets no handler, against spec 4.1 and the glossary (longest registered prefix). The spec contradicts itself: section 8 scenario 4 and the router test agree with the code. |
| server | `MC_HttpServer.cfg` | pass | 2 sessions, ≤2 requests each, timeouts on, 2 run/stop cycles, handlers that send, defer or drop. It checks: `OneHolderPerLiveSession`, i.e. never a read and a write at once, no leak, no dangling writer; the connection refinement; `SessionsReleased`. |
| server_bookkeeping | `MC_HttpServer_Bookkeeping.cfg` | violation | `stop()` returns with a session alive, and the next `run()` resets `session_cnt_` and `s_id` under it (`SessionBookkeeping`: the count and the distinct ids of the live sessions). |
| server_double_send | `MC_HttpServer_DoubleSend.cfg` | violation | A handler keeps a copy of its writer and sends; a second thread sends again while the first write is in flight, so two `async_write`s are outstanding on one stream (`NoConcurrentStreamOps`). |
| server_accept_chain | `MC_HttpServer_AcceptChain.cfg` | violation | After `stop()`/`run()`, the aborted accept re-arms beside `run()`'s own doAccept, giving two accept chains. |
| lifecycle_pool | `MC_HttpServerLifecycle_Pool.cfg` | violation | `stop()` on another thread iterates `io_thread_pool_` while `run()` emplaces into it. A thread emplaced after the join loop is cleared while joinable, which calls std::terminate. The same property covers a handler on a pool thread calling `stop()`: its `join()` of its own thread throws out of the thread. |
| lifecycle_lost_stop | `MC_HttpServerLifecycle_LostStop.cfg` | violation | A `stop()` that falls between `run()`'s entry and `io_context_.restart()` is lost, and `run()` blocks forever. |
| log_init_retry | `MC_HttpLog_InitRetry.cfg` | violation | An `initLog` that throws on invalid options still sets `init_flag`, so the corrected retry is rejected. |
| response_framing | `MC_HttpResponse_Framing.cfg` | violation | A HEAD response to a 10-byte body carries `Content-Length: 0`, because `prepare_payload` runs after the HEAD body was left out (`HeadContentLength`). |
| server_method_filter | `MC_HttpServer_MethodFilter.cfg` | violation | The route lookup comes before the method filter, and `verb::unknown` is dispatched. |

The findings in `PROJECT.json` explain each violation against the spec, comment or test it contradicts.

### Bounds

The router bounds allow every case its code distinguishes:
- a path through a missing child;
- an empty segment in the middle and at the end;
- `..`;
- a non-`/` path;
- overwriting a handler.

In the server run:
- `MaxRequests = 2` gives a keep-alive loop followed by a close.
- `MaxRuns = 2` gives a `stop()`/`run()` with sessions left over.
- Two sessions give cross-session interleavings on the shared counters.
- The pass run uses only the routed target `/hello`. A 400 reply changes a session exactly as a handler that sends at once does, and the violation cfgs keep the unrouted `/x`. This keeps the run under a minute (about 230,000 states), the pace the mutant runs need.
- The pool run has two stoppers: one on its own thread and a handler on pool thread 1. `thread_num_ = 3` gives two pool threads, so the emplace loop takes more than one step.
- The lost-stop run has one stopper and `thread_num_ = 1`, which is enough.
- The response run covers GET and HEAD, with and without keep-alive and `Accept-Encoding: gzip`, and bodies of 0, 10 and 600 bytes: empty, short, and over the 500-byte gzip threshold.
- The log run enumerates all 128 abstract option records.

CHECK_DEADLOCK is FALSE where the system really stops:
- the router after its last registration;
- the server after its last `stop()`;
- the lifecycle once every thread has returned;
- a response once it is sent.

### Fairness

Weak fairness applies only to steps the code drives by itself once they are enabled:
- the dispatched `doRead` (an io thread runs ready handlers);
- read and write timeouts (timers fire when armed with a non-zero timeout);
- handlers giving their writer back (the APIHandler contract).

The peer is not fair. It may stay silent, so only timeouts bound a read or a write.

## Mutants

Each property of a passing run is broken by a seeded fault that a plausible bug in the code would cause. Each fault is an operator defined just before the definition it replaces:

| property | fault |
|---|---|
| router `TypeOK` | `InsertNoEmptyBreak` |
| `SearchFindsDeepestNode` | `InsertNoIntermediate` |
| `TrailingSlashIgnored` | `SearchRootOffByOne` |
| server `TypeOK` | `ReleaseSigned` |
| `OneHolderPerLiveSession` | `ReleaseIgnoringWriters` |
| `ConnectionRefinement` | `DoReadNoIncrement` |
| `SessionsReleased` | `OnReadTimeoutInverted` |

## Not modelled

- spdlog's sinks and the formatting of log lines are I/O; `HttpLog` keeps only which logger and level are installed.
- The `LOG_LOGGER_*` macros and `httpLog` change no state: they compare `getLogLevel()` with the message's level and write through spdlog's sinks.
- `setLogLevel` before `initLog` is lost, because `set_default_logger` installs a logger at spdlog's default level. `InitLog` models this reset, but no run states the header's "default is LogLevel::Info" as a property of the level a caller set.
- A persistent accept error re-arms forever. That busy loop changes no modelled state.
- `HttpRequest` is a value with accessors and shares no state.
- `compressData` is modelled only by its output being non-empty. `compressionLevel`, the status and the content type do not change framing. Request header and parameter copying is data.
- The `HttpServerImpl` that the aborted accept keeps alive (a `shared_from_this()` cycle through its own io_context) would need the user's `HttpServer` and its destruction as state; the models stop at `stop()`.
- The demo (`src/demo/main.cpp`) is one use of the library: `setLogLevel(Info)`, one handler registered at `/hello` that answers synchronously, and `run()` with no `stop()`. The server runs' registration of `/hello` and their `send` handler call are that configuration; the demo adds no state of its own. The tests are not modelled; one router test is cited by a finding.
- writeResponse's keep-alive rule: a handler that forces keep-alive off and also sets `Connection: keep-alive` gets a kept-alive connection, because the user headers are copied after the keep-alive decision (`KeepAliveOf` models this order). Spec 4.3 step 7 says force-disable gives false. No run states this rule yet (the case needs a handler that contradicts itself); the response_framing run checks the HEAD Content-Length part of the same step.
- An empty response gets neither Content-Length nor chunked encoding, so on a keep-alive connection an HTTP/1.1 client reads its body until the server closes. `WriteResponse` produces this message, but no run states the framing rule for empty bodies.

## Plan

What remains would each need a run of its own:
- `~HttpServer` as a step, to show that the impl is never released after `run()`.
- The keep-alive rule of spec 4.3 step 7 as a property of `HttpResponse`.
- Passing runs for `HttpServerLifecycle` under the tests' usage (stop() only after run() is serving) and for `HttpLog`.
