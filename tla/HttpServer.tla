------------------------------ MODULE HttpServer ------------------------------
(***************************************************************************)
(* HttpServerImpl (src/src/http_server_impl.cpp) composed with its         *)
(* sessions (HttpSession) and its route table (HttpRouter).                *)
(*                                                                         *)
(* run() resets the session id generator and the statistics, restarts the *)
(* io_context, opens the acceptor and runs the io_context; stop() stops    *)
(* the io_context and closes the acceptor.  io_context::stop() neither     *)
(* cancels nor destroys pending handlers: sessions stay as they are and    *)
(* resume when a later run() restarts the io_context.                      *)
(***************************************************************************)
EXTENDS HttpSession

CONSTANT MaxRuns   \* most run() calls in one behaviour

ASSUME MaxRuns \in Nat \ {0}

VARIABLES
  acceptor_open,   \* acceptor_.is_open()
  accepts,         \* async_accept operations pending on the acceptor
  aborted,         \* onAccept completions with operation_aborted, queued
  runs             \* run() calls so far

acceptVars == <<acceptor_open, accepts, aborted>>
vars == <<reactor, sessionVars, counterVars, acceptVars, runs>>

-----------------------------------------------------------------------------

\* HttpServerImpl's constructor: io_context_.stop(), nothing accepted yet.
Init ==
  /\ reactor = "stopped"
  /\ state = [s \in Sessions |-> "unborn"]
  /\ posted = [s \in Sessions |-> FALSE]
  /\ reads = [s \in Sessions |-> 0]
  /\ writes = [s \in Sessions |-> 0]
  /\ writers = [s \in Sessions |-> 0]
  /\ open = [s \in Sessions |-> FALSE]
  /\ keep_alive = [s \in Sessions |-> FALSE]
  /\ request = [s \in Sessions |-> DefaultRequest]
  /\ current_request_id = [s \in Sessions |-> 0]
  /\ handled_id = [s \in Sessions |-> 0]
  /\ session_id = [s \in Sessions |-> 0]
  /\ s_id = 0
  /\ session_cnt = 0
  /\ statistics = ZeroStatistics
  /\ acceptor_open = FALSE
  /\ accepts = 0
  /\ aborted = 0
  /\ runs = 0

\* HttpServerImpl::run() (called only when stopped, as its header asks; the
\* options are valid).  s_id and all statistics are reset and the
\* io_context restarted before the acceptor is set up; open, set_option,
\* bind or listen may then throw, leaving those resets done, the acceptor
\* possibly open, and nobody running the io_context.  Only a listening
\* acceptor gets doAccept().
Run ==
  /\ reactor = "stopped"
  /\ runs < MaxRuns
  /\ runs' = runs + 1
  /\ s_id' = 0
  /\ session_cnt' = 0
  /\ statistics' = ZeroStatistics
  /\ \E outcome \in {"listening", "open_failed", "bind_failed"} :
       /\ reactor' = IF outcome = "listening" THEN "running" ELSE "restarted"
       /\ acceptor_open' = (outcome # "open_failed")
       /\ accepts' = IF outcome = "listening" THEN accepts + 1 ELSE accepts
  /\ UNCHANGED <<sessionVars, aborted>>

\* HttpServerImpl::stop(): if the io_context is not stopped, stop it and
\* join the worker threads; close the acceptor if it is open.  Closing
\* cancels the pending async_accept: its onAccept is queued with
\* operation_aborted and, the io_context being stopped, waits there.
Stop ==
  /\ reactor # "stopped"
  /\ reactor' = "stopped"
  /\ acceptor_open' = FALSE
  /\ accepts' = 0
  /\ aborted' = aborted + accepts
  /\ UNCHANGED <<sessionVars, counterVars, runs>>

\* onAccept without error: make_shared<HttpSession>(...)->run(), then
\* doAccept() again.
Accept(s) ==
  /\ reactor = "running"
  /\ accepts > 0
  /\ state[s] = "unborn"
  /\ Construct(s)
  /\ UNCHANGED <<reactor, acceptVars, runs>>

\* onAccept with an error (the operation_aborted left by stop()): no
\* session, but doAccept() is called all the same.
OnAcceptError ==
  /\ reactor = "running"
  /\ aborted > 0
  /\ aborted' = aborted - 1
  /\ accepts' = accepts + 1
  /\ UNCHANGED <<reactor, sessionVars, counterVars, acceptor_open, runs>>

\* A session step leaves the server's own state alone.
OnStrand(A) == A /\ UNCHANGED <<reactor, acceptVars, runs>>

Next ==
  \/ Run
  \/ Stop
  \/ OnAcceptError
  \/ \E s \in Sessions :
       \/ Accept(s)
       \/ OnStrand(DoRead(s))
       \/ OnStrand(OnReadEof(s))
       \/ OnStrand(OnReadTimeout(s))
       \/ OnStrand(OnReadFail(s))
       \/ OnStrand(OnReadSuccess(s))
       \/ OnStrand(WriterSend(s))
       \/ OnStrand(WriterDrop(s))
       \/ OnStrand(OnWriteSuccess(s))
       \/ OnStrand(OnWriteTimeout(s))
       \/ OnStrand(OnWriteFail(s))

\* Completion handlers run when the io_context runs them (io threads take
\* every ready handler); timers fire when armed with a non-zero timeout;
\* handlers eventually send or drop their writer (APIHandler contract).
\* The peer is not fair: it may stay silent, so only the timeouts bound a
\* read or a write.
Fairness ==
  \A s \in Sessions :
    /\ WF_vars(OnStrand(DoRead(s)))
    /\ WF_vars(OnStrand(OnReadTimeout(s)))
    /\ WF_vars(OnStrand(OnWriteTimeout(s)))
    /\ WF_vars(OnStrand(WriterSend(s) \/ WriterDrop(s)))

Spec == Init /\ [][Next]_vars /\ Fairness

-----------------------------------------------------------------------------
(***************************************************************************)
(* Properties.                                                             *)
(***************************************************************************)

TypeOK ==
  /\ reactor \in {"stopped", "restarted", "running"}
  /\ state \in [Sessions -> {"unborn", "live", "dead"}]
  /\ posted \in [Sessions -> BOOLEAN]
  /\ reads \in [Sessions -> Nat]
  /\ writes \in [Sessions -> Nat]
  /\ writers \in [Sessions -> Nat]
  /\ open \in [Sessions -> BOOLEAN]
  /\ keep_alive \in [Sessions -> BOOLEAN]
  /\ request \in [Sessions -> Requests \cup {DefaultRequest}]
  /\ current_request_id \in [Sessions -> Nat]
  /\ handled_id \in [Sessions -> Nat]
  /\ session_id \in [Sessions -> Nat]
  /\ s_id \in Nat
  /\ session_cnt \in 0..(CntModulus - 1)
  /\ statistics \in [Counters -> Nat]
  /\ acceptor_open \in BOOLEAN
  /\ accepts \in Nat
  /\ aborted \in Nat
  /\ runs \in 0..MaxRuns

\* References to session s: the dispatched doRead, pending operations and
\* writers held by handler threads.
Holders(s) == (IF posted[s] THEN 1 ELSE 0) + reads[s] + writes[s] + writers[s]

\* A live session is held by exactly one thing at a time, a destroyed one
\* by nothing: never a read and a write (or two of either) at once on one
\* connection, never a session leaked with nothing left to drive it, and
\* never a completion or a writer left pointing at a destroyed session.
\* (doRead is only started from run() and from onWrite; the writer's
\* shared_ptr keeps the session alive.)
OneHolderPerLiveSession ==
  \A s \in Sessions : Holders(s) = IF state[s] = "live" THEN 1 ELSE 0

\* Spec 4.5 (a second send() is a no-op or a panic) and beast's rule of
\* one async_read and one async_write in flight per stream: a connection
\* never has two stream operations outstanding at once.  A handler that
\* keeps a copy of its HttpResponseWriter may call send() again while the
\* first async_write is in flight; send() has no guard against it.
NoConcurrentStreamOps ==
  \A s \in Sessions : reads[s] + writes[s] <= 1

\* The view of a session as an HttpConnection.
Phase(s) ==
  CASE state[s] = "unborn"         -> "idle"
    [] state[s] = "dead"           -> "closed"
    [] posted[s] \/ reads[s] > 0   -> "reading"
    [] writes[s] > 0               -> "writing"
    [] OTHER                       -> "handling"

Conn == INSTANCE HttpConnection
          WITH Connections <- Sessions,
               phase <- [s \in Sessions |-> Phase(s)],
               served <- handled_id

\* Each session implements the one-request-at-a-time protocol, and the
\* request ids handlers see on it are 1, 2, 3, ... (current_request_id_ is
\* incremented by every doRead, including the ones that start a failed
\* read, which closes the session).
ConnectionRefinement == Conn!Spec

\* While the server keeps running, every session is eventually destroyed:
\* read and write timeouts bound how long a peer can hold it, and handlers
\* give their writer back.
SessionsReleased ==
  \A s \in Sessions : state[s] = "live" ~> (state[s] = "dead" \/ reactor # "running")

\* Spec 4.6 and 8 (session_cnt_ rises on create, falls on destroy, is 0 at
\* quiescence), 4.3 ("Any state -> Closed when the server is stopping") and
\* the session id being globally monotonic: run()'s reset of s_id and
\* session_cnt_ agrees with the sessions alive, i.e. session_cnt_ counts
\* them and their id_s are distinct.  It takes a session outliving stop()
\* and a second run() to break.
SessionBookkeeping ==
  LET live == {s \in Sessions : state[s] = "live"}
  IN  /\ session_cnt = Cardinality(live)
      /\ \A s, t \in live : s # t => session_id[s] # session_id[t]

\* onAccept's "accept another connection": the server has one accept
\* chain, so at most one async_accept is pending or about to be re-armed.
\* Each stop()/run() cycle leaves the aborted accept to start another.
SingleAcceptChain == accepts + aborted <= 1

\* Spec 4.3 steps 2-4 and 6: a request whose URL parses but whose method
\* is not DELETE, GET, HEAD, POST or PUT is answered 400 "current method
\* not support" (the method filter comes before the route lookup) and
\* never reaches a handler.
OnlySupportedMethodsDispatched ==
  \A s \in Sessions :
    LET req == request[s]
    IN  (handled_id[s] > 0 /\ UrlParses(req)
           /\ req.verb \notin {"delete", "get", "head", "post", "put"})
          => Reply(req) = "current method not support"

=============================================================================
