------------------------------ MODULE HttpSession ------------------------------
(***************************************************************************)
(* HttpSession (src/src/http_session.cpp) and HttpResponseWriter           *)
(* (src/src/http_response.cpp): one object per accepted TCP connection.    *)
(*                                                                         *)
(* A session is a shared_ptr kept alive by whatever holds a copy:          *)
(*   - the handler net::dispatch'ed by run() (posted),                     *)
(*   - each outstanding async_read / async_write (reads, writes),          *)
(*   - each HttpResponseWriter a handler still holds (writers).            *)
(* When the last one lets go, ~HttpSession decrements session_cnt_ and     *)
(* closes the socket.  Completion handlers run on the session's strand,    *)
(* and only while the io_context is being run (reactor = "running");       *)
(* HttpResponseWriter::send calls writeResponse on the handler's thread.   *)
(*                                                                         *)
(* A strand callback is one atomic step: it runs to its end without        *)
(* another callback of the same session interleaving.  processRequest and  *)
(* the handler's synchronous part are inside the onRead step.              *)
(***************************************************************************)
EXTENDS Integers, Sequences, FiniteSets

CONSTANTS
  Sessions,       \* connections the acceptor may hand over (model values)
  MaxRequests,    \* most requests read successfully on one connection
  ReadTimeOut,    \* HttpServerOptions::read_time_out_, 0 = never
  WriteTimeOut,   \* HttpServerOptions::write_time_out_, 0 = never
  CntModulus,     \* 2^width of session_cnt_ (a uint32 in the code)
  Verbs,          \* request methods clients send (beast::http::verb names)
  TargetForms,    \* "plain", "pipe" (contains '|'), "invalid" request targets
  Targets,        \* path segment sequences of request targets
  Registrations,  \* <<path, handler>> registered before run(), in order
  HandlerCalls,   \* what APIHandler::handle does with its writer
  Segments, DotDot, Handlers, NoHandler, MaxSegments   \* see HttpRouter

ASSUME ReadTimeOut \in Nat /\ WriteTimeOut \in Nat /\ MaxRequests \in Nat
ASSUME CntModulus \in Nat \ {0}
ASSUME HandlerCalls \subseteq {"send", "defer", "drop", "send_and_keep"}

\* The route table: run() serves the trie registerHandler built.
RT == INSTANCE HttpRouter WITH nodes <- {<<>>}, data <- [n \in {<<>>} |-> NoHandler],
                              lastReg <- <<>>, inserts <- 0, MaxInserts <- 0
Router == INSTANCE HttpRouter WITH nodes <- RT!RoutesAfter(Registrations).nodes,
                                  data <- RT!RoutesAfter(Registrations).data,
                                  lastReg <- <<>>, inserts <- 0, MaxInserts <- 0

\* The response a handler builds; processRequest's 400 replies set nothing.
Rsp == INSTANCE HttpResponse WITH request <- {}, rsp <- {}, wire <- {},
                                  BodySizes <- {}, Requests <- {}, AutoGzip <- FALSE
PlainReply == [force_disable_keep_alive |-> FALSE, connection |-> "unset"]

VARIABLES
  reactor,            \* io_context: "stopped", "restarted" or "running"
  state,              \* [Sessions -> {"unborn", "live", "dead"}]
  posted,             \* run()'s dispatched doRead not yet executed
  reads,              \* outstanding async_read operations
  writes,             \* outstanding async_write operations
  writers,            \* HttpResponseWriter copies held by handler threads
  open,               \* stream_.socket().is_open()
  keep_alive,         \* response_.keep_alive() as bound into onWrite
  request,            \* HttpSession::request_, the last request read
  current_request_id, \* HttpSession::current_request_id_
  handled_id,         \* history: current_request_id_ of the last request read
  session_id,         \* HttpSession::id_
  s_id,               \* HttpSession::s_id, the global id generator
  session_cnt,        \* HttpStatisticsInternal::session_cnt_
  statistics          \* the other counters of HttpStatisticsInternal

sessionVars == <<state, posted, reads, writes, writers, open, keep_alive,
                 request, current_request_id, handled_id, session_id>>
counterVars == <<s_id, session_cnt, statistics>>

\* beast::http::verb values: processRequest compares them numerically.
VerbCode == [unknown |-> 0, delete |-> 1, get |-> 2, head |-> 3, post |-> 4,
             put |-> 5, connect |-> 6, options |-> 7, trace |-> 8]

Requests == [verb : Verbs, form : TargetForms, segs : Targets,
             keep_alive : BOOLEAN]

\* request_ as default-constructed: no method, empty target, HTTP/1.1.
DefaultRequest == [verb |-> "unknown", form |-> "plain", segs |-> <<>>,
                   keep_alive |-> TRUE]

Counters == {"read_timeout_cnt", "read_success_cnt", "read_fail_cnt",
             "write_timeout_cnt", "write_success_cnt", "write_fail_cnt",
             "handle_request_cnt"}
\* working_handler_cnt_ is incremented and decremented around handle()
\* inside one strand step, so it is 0 between steps and is left out.

ZeroStatistics == [c \in Counters |-> 0]

Bump(c) == statistics' = [statistics EXCEPT ![c] = @ + 1]

-----------------------------------------------------------------------------
(***************************************************************************)
(* processRequest's decision: which 400 reply, or dispatch to a handler.   *)
(***************************************************************************)

\* For GET only, '|' is replaced by "%7C" before parse_origin_form; a '|'
\* anywhere else makes the origin-form parse fail.
UrlParses(req) ==
  \/ req.form = "plain"
  \/ req.form = "pipe" /\ req.verb = "get"

\* The checks in the order processRequest makes them: URL, route, method.
Reply(req) ==
  CASE ~UrlParses(req)                          -> "url invalid"
    [] Router!Search(req.segs) = NoHandler      -> "current url not support"
    [] VerbCode[req.verb] > VerbCode["put"]     -> "current method not support"
    [] OTHER                                    -> "dispatch"

-----------------------------------------------------------------------------
(***************************************************************************)
(* Helpers shared by the steps.                                            *)
(***************************************************************************)

\* Seeded fault (see README, "Mutants"): session_cnt_ as a signed counter.
ReleaseSigned(s, closing) ==
  LET held == posted'[s] \/ reads'[s] + writes'[s] + writers'[s] > 0
  IN  /\ state' = [state EXCEPT ![s] = IF held THEN @ ELSE "dead"]
      /\ session_cnt' = IF held THEN session_cnt ELSE session_cnt - 1
      /\ open' = [open EXCEPT ![s] = @ /\ held /\ ~closing]

\* Seeded fault: a writer that does not keep its session alive.
ReleaseIgnoringWriters(s, closing) ==
  LET held == posted'[s] \/ reads'[s] + writes'[s] > 0
  IN  /\ state' = [state EXCEPT ![s] = IF held THEN @ ELSE "dead"]
      /\ session_cnt' = IF held THEN session_cnt
                        ELSE (session_cnt - 1) % CntModulus
      /\ open' = [open EXCEPT ![s] = @ /\ held /\ ~closing]

\* The step lets go of references; if none is left, ~HttpSession runs:
\* --session_cnt_ (unsigned, so 0 wraps) and doClose().  `closing` is
\* TRUE when the step itself called doClose().  Must follow the step's
\* assignments to posted, reads, writes and writers.
Release(s, closing) ==
  LET held == posted'[s] \/ reads'[s] + writes'[s] + writers'[s] > 0
  IN  /\ state' = [state EXCEPT ![s] = IF held THEN @ ELSE "dead"]
      /\ session_cnt' = IF held THEN session_cnt
                        ELSE (session_cnt - 1) % CntModulus
      /\ open' = [open EXCEPT ![s] = @ /\ held /\ ~closing]

\* Seeded fault: doRead without ++current_request_id_.
DoReadNoIncrement(s) ==
  /\ current_request_id' = current_request_id
  /\ reads' = [reads EXCEPT ![s] = @ + 1]

\* doRead: ++current_request_id_, arm the read timer, start async_read.
DoReadOp(s) ==
  /\ current_request_id' = [current_request_id EXCEPT ![s] = @ + 1]
  /\ reads' = [reads EXCEPT ![s] = @ + 1]

\* writeResponse + doWrite for a response with keep-alive choices r:
\* async_write starts with Rsp!KeepAliveOf bound into onWrite.  (Gzip,
\* body and framing are HttpResponse's.)
WriteResponseOp(s, r, req_ka) ==
  /\ keep_alive' = [keep_alive EXCEPT ![s] = Rsp!KeepAliveOf(r, req_ka)]
  /\ writes' = [writes EXCEPT ![s] = @ + 1]

-----------------------------------------------------------------------------
(***************************************************************************)
(* Session steps.                                                          *)
(***************************************************************************)

\* HttpSession's constructor and run(): id_ = ++s_id, ++session_cnt_, and
\* doRead dispatched to the new strand (the dispatch holds a reference).
Construct(s) ==
  /\ state' = [state EXCEPT ![s] = "live"]
  /\ s_id' = s_id + 1
  /\ session_id' = [session_id EXCEPT ![s] = s_id + 1]
  /\ session_cnt' = (session_cnt + 1) % CntModulus
  /\ posted' = [posted EXCEPT ![s] = TRUE]
  /\ open' = [open EXCEPT ![s] = TRUE]
  /\ UNCHANGED <<reads, writes, writers, keep_alive, request,
                 current_request_id, handled_id, statistics>>

\* The dispatched doRead runs on the strand.
DoRead(s) ==
  /\ reactor = "running"
  /\ posted[s]
  /\ posted' = [posted EXCEPT ![s] = FALSE]
  /\ DoReadOp(s)
  /\ UNCHANGED <<state, writes, writers, open, keep_alive, request,
                 handled_id, session_id, counterVars>>

\* onRead with end_of_stream: the peer closed; doClose().
OnReadEof(s) ==
  /\ reactor = "running"
  /\ reads[s] > 0
  /\ reads' = [reads EXCEPT ![s] = @ - 1]
  /\ UNCHANGED <<posted, writes, writers, keep_alive, request,
                 current_request_id, handled_id, session_id, s_id, statistics>>
  /\ Release(s, TRUE)

\* Seeded fault: the read timer armed only when read_time_out_ is 0.
OnReadTimeoutInverted(s) ==
  /\ reactor = "running"
  /\ ReadTimeOut = 0
  /\ reads[s] > 0
  /\ reads' = [reads EXCEPT ![s] = @ - 1]
  /\ Bump("read_timeout_cnt")
  /\ UNCHANGED <<posted, writes, writers, keep_alive, request,
                 current_request_id, handled_id, session_id, s_id>>
  /\ Release(s, TRUE)

\* onRead with beast::error::timeout: ++read_timeout_cnt_, doClose().
OnReadTimeout(s) ==
  /\ reactor = "running"
  /\ ReadTimeOut # 0
  /\ reads[s] > 0
  /\ reads' = [reads EXCEPT ![s] = @ - 1]
  /\ Bump("read_timeout_cnt")
  /\ UNCHANGED <<posted, writes, writers, keep_alive, request,
                 current_request_id, handled_id, session_id, s_id>>
  /\ Release(s, TRUE)

\* onRead with any other error (bad request, body over max_request_size_,
\* socket error): ++read_fail_cnt_, doClose().
OnReadFail(s) ==
  /\ reactor = "running"
  /\ reads[s] > 0
  /\ reads' = [reads EXCEPT ![s] = @ - 1]
  /\ Bump("read_fail_cnt")
  /\ UNCHANGED <<posted, writes, writers, keep_alive, request,
                 current_request_id, handled_id, session_id, s_id>>
  /\ Release(s, TRUE)

\* onRead success: ++read_success_cnt_ and processRequest().  Every path of
\* processRequest does ++handle_request_cnt_.  A 400 reply is written at
\* once; a dispatched request goes to the handler, which sends before it
\* returns, keeps the writer for another thread, or drops it.
OnReadSuccess(s) ==
  /\ reactor = "running"
  /\ reads[s] > 0
  /\ open[s]
  /\ current_request_id[s] <= MaxRequests
  /\ \E req \in Requests :
       /\ reads' = [reads EXCEPT ![s] = @ - 1]
       /\ request' = [request EXCEPT ![s] = req]
       /\ handled_id' = [handled_id EXCEPT ![s] = current_request_id[s]]
       /\ statistics' = [statistics EXCEPT !.read_success_cnt = @ + 1,
                                           !.handle_request_cnt = @ + 1]
       /\ IF Reply(req) # "dispatch"
          THEN /\ WriteResponseOp(s, PlainReply, req.keep_alive)
               /\ UNCHANGED writers
          ELSE \E call \in HandlerCalls, r \in Rsp!KeepAliveChoices :
                 /\ IF call \in {"send", "send_and_keep"}
                    THEN WriteResponseOp(s, r, req.keep_alive)
                    ELSE UNCHANGED <<writes, keep_alive>>
                 /\ writers' = [writers EXCEPT ![s] =
                                  IF call \in {"defer", "send_and_keep"}
                                  THEN @ + 1 ELSE @]
       /\ posted' = posted
       /\ Release(s, FALSE)
  /\ UNCHANGED <<current_request_id, session_id, s_id>>

\* HttpResponseWriter::send on the thread the handler handed the writer
\* to: writeResponse runs there, off the strand, and the writer is then
\* destroyed.  It does not wait for the io_context to run.
WriterSend(s) ==
  /\ writers[s] > 0
  /\ writers' = [writers EXCEPT ![s] = @ - 1]
  /\ \E r \in Rsp!KeepAliveChoices :
       WriteResponseOp(s, r, request[s].keep_alive)
  /\ UNCHANGED <<state, posted, reads, open, request, current_request_id,
                 handled_id, session_id, counterVars>>

\* The handler's thread destroys a writer without sending.  If it held the
\* last reference, the session is destroyed on that thread.
WriterDrop(s) ==
  /\ writers[s] > 0
  /\ writers' = [writers EXCEPT ![s] = @ - 1]
  /\ UNCHANGED <<posted, reads, writes, keep_alive, request,
                 current_request_id, handled_id, session_id, s_id, statistics>>
  /\ Release(s, FALSE)

\* onWrite success: ++write_success_cnt_; with keep-alive, response_ is
\* cleared and doRead starts the next request, else doClose().
OnWriteSuccess(s) ==
  /\ reactor = "running"
  /\ writes[s] > 0
  /\ open[s]
  /\ writes' = [writes EXCEPT ![s] = @ - 1]
  /\ Bump("write_success_cnt")
  /\ IF keep_alive[s]
     THEN DoReadOp(s)
     ELSE UNCHANGED <<reads, current_request_id>>
  /\ UNCHANGED <<posted, writers, keep_alive, request, handled_id,
                 session_id, s_id>>
  /\ Release(s, ~keep_alive[s])

\* onWrite with beast::error::timeout: ++write_timeout_cnt_, doClose().
OnWriteTimeout(s) ==
  /\ reactor = "running"
  /\ WriteTimeOut # 0
  /\ writes[s] > 0
  /\ writes' = [writes EXCEPT ![s] = @ - 1]
  /\ Bump("write_timeout_cnt")
  /\ UNCHANGED <<posted, reads, writers, keep_alive, request,
                 current_request_id, handled_id, session_id, s_id>>
  /\ Release(s, TRUE)

\* onWrite with another error: ++write_fail_cnt_, doClose().
OnWriteFail(s) ==
  /\ reactor = "running"
  /\ writes[s] > 0
  /\ writes' = [writes EXCEPT ![s] = @ - 1]
  /\ Bump("write_fail_cnt")
  /\ UNCHANGED <<posted, reads, writers, keep_alive, request,
                 current_request_id, handled_id, session_id, s_id>>
  /\ Release(s, TRUE)

=============================================================================
