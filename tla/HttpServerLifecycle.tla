-------------------------- MODULE HttpServerLifecycle --------------------------
(***************************************************************************)
(* HttpServerImpl::run() and HttpServerImpl::stop()                        *)
(* (src/src/http_server_impl.cpp) as the threads that execute them.        *)
(*                                                                         *)
(* run() is called on one thread (the runner) and blocks in                *)
(* io_context_.run(); stop(), documented thread-safe, is called on other   *)
(* threads (the stoppers), as the tests do.  Each step below is one call   *)
(* the code makes on shared state: io_context_.stopped()/stop()/restart(), *)
(* io_thread_pool_ (a std::vector<std::thread>) and acceptor_.  Sessions,  *)
(* statistics and the route table are left to HttpServer.                  *)
(***************************************************************************)
EXTENDS Naturals, Sequences, FiniteSets

CONSTANTS
  Stoppers,    \* threads that call stop()
  ThreadNum,   \* HttpServerOptions::thread_num_ (valid: > 0)
  StopperThread \* [Stoppers -> 0..ThreadNum-1]: 0 for a thread outside
                \* io_thread_pool_, i for a handler on pool thread i

ASSUME ThreadNum \in Nat \ {0}
ASSUME StopperThread \in [Stoppers -> 0..(ThreadNum - 1)]

VARIABLES
  rpc,          \* where the runner is in run()
  ctx_stopped,  \* io_context_.stopped()
  pool,         \* io_thread_pool_: "running", "exited" (joinable) or "joined"
  acceptor_open,\* acceptor_.is_open()
  spc,          \* [Stoppers -> where each is in stop()]
  idx,          \* [Stoppers -> position of its range-for over the pool]
  terminated,   \* a joinable std::thread was destroyed: std::terminate()
  after_run     \* history: [Stoppers -> stop() was entered after run()]

vars == <<rpc, ctx_stopped, pool, acceptor_open, spc, idx, terminated, after_run>>

\* The constructor calls io_context_.stop().
Init ==
  /\ rpc = "call"
  /\ ctx_stopped = TRUE
  /\ pool = <<>>
  /\ acceptor_open = FALSE
  /\ spc = [c \in Stoppers |-> "idle"]
  /\ idx = [c \in Stoppers |-> 1]
  /\ terminated = FALSE
  /\ after_run = [c \in Stoppers |-> FALSE]

-----------------------------------------------------------------------------
(* The runner.                                                             *)

\* run(): the options are valid; s_id and the statistics are reset.
RunCall ==
  /\ rpc = "call"
  /\ rpc' = "restart"
  /\ UNCHANGED <<ctx_stopped, pool, acceptor_open, spc, idx, terminated, after_run>>

\* io_context_.restart().
RunRestart ==
  /\ rpc = "restart"
  /\ ctx_stopped' = FALSE
  /\ rpc' = "open"
  /\ UNCHANGED <<pool, acceptor_open, spc, idx, terminated, after_run>>

\* open, set_option, bind, listen and doAccept; open or a later call may
\* fail and throw out of run().
RunOpen ==
  /\ rpc = "open"
  /\ \E outcome \in {"listening", "open_failed", "bind_failed"} :
       /\ acceptor_open' = (outcome # "open_failed")
       /\ rpc' = IF outcome = "listening" THEN "spawn" ELSE "threw"
  /\ UNCHANGED <<ctx_stopped, pool, spc, idx, terminated, after_run>>

\* One iteration of the loop emplacing thread_num_ - 1 threads that each
\* run io_context_.run(); after the last, the runner runs it too.
RunSpawn ==
  /\ rpc = "spawn"
  /\ IF Len(pool) < ThreadNum - 1
     THEN /\ pool' = Append(pool, "running")
          /\ UNCHANGED rpc
     ELSE /\ rpc' = "running"
          /\ UNCHANGED pool
  /\ UNCHANGED <<ctx_stopped, acceptor_open, spc, idx, terminated, after_run>>

\* io_context_.run() returns once the io_context is stopped.
RunReturn ==
  /\ rpc = "running"
  /\ ctx_stopped
  /\ rpc' = "returned"
  /\ UNCHANGED <<ctx_stopped, pool, acceptor_open, spc, idx, terminated, after_run>>

\* A pool thread's io_context_.run() returns, once the io_context is
\* stopped and the handler it runs (a stop() called from it) has returned.
WorkerExit(i) ==
  /\ pool[i] = "running"
  /\ ctx_stopped
  /\ \A c \in Stoppers : StopperThread[c] = i => spc[c] \in {"idle", "done"}
  /\ pool' = [pool EXCEPT ![i] = "exited"]
  /\ UNCHANGED <<rpc, ctx_stopped, acceptor_open, spc, idx, terminated, after_run>>

-----------------------------------------------------------------------------
(* The stoppers.                                                           *)

\* if (!io_context_.stopped()): the test, separate from the stop() call.
\* A stopper on pool thread i is a handler running on that thread.
StopCheck(c) ==
  /\ spc[c] = "idle"
  /\ StopperThread[c] > 0 =>
       StopperThread[c] <= Len(pool) /\ pool[StopperThread[c]] = "running"
  /\ spc' = [spc EXCEPT ![c] = IF ctx_stopped THEN "close" ELSE "stop"]
  /\ after_run' = [after_run EXCEPT ![c] = (rpc # "call")]
  /\ UNCHANGED <<rpc, ctx_stopped, pool, acceptor_open, idx, terminated>>

\* io_context_.stop(), then the range-for over io_thread_pool_ begins.
StopStop(c) ==
  /\ spc[c] = "stop"
  /\ ctx_stopped' = TRUE
  /\ spc' = [spc EXCEPT ![c] = "join"]
  /\ idx' = [idx EXCEPT ![c] = 1]
  /\ UNCHANGED <<rpc, pool, acceptor_open, terminated, after_run>>

\* One iteration: if (thread.joinable()) thread.join(), which returns when
\* that thread has left io_context_.run().  After the last one,
\* io_thread_pool_.clear() destroys the threads; destroying one that is
\* still joinable calls std::terminate().  join() on the calling thread's
\* own std::thread throws resource_deadlock_would_occur; it leaves stop(),
\* the handler and io_context_.run(), and an exception escaping a thread's
\* function calls std::terminate().
StopJoin(c) ==
  /\ spc[c] = "join"
  /\ IF idx[c] = StopperThread[c]
     THEN /\ terminated' = TRUE
          /\ spc' = [spc EXCEPT ![c] = "threw"]
          /\ UNCHANGED <<pool, idx>>
     ELSE IF idx[c] <= Len(pool)
     THEN /\ pool[idx[c]] # "running"
          /\ pool' = [pool EXCEPT ![idx[c]] = "joined"]
          /\ idx' = [idx EXCEPT ![c] = @ + 1]
          /\ UNCHANGED <<spc, terminated>>
     ELSE /\ terminated' = (terminated \/ \E i \in 1..Len(pool) : pool[i] # "joined")
          /\ pool' = <<>>
          /\ spc' = [spc EXCEPT ![c] = "close"]
          /\ UNCHANGED idx
  /\ UNCHANGED <<rpc, ctx_stopped, acceptor_open, after_run>>

\* if (acceptor_.is_open()) acceptor_.close(); stop() returns.
StopClose(c) ==
  /\ spc[c] = "close"
  /\ acceptor_open' = FALSE
  /\ spc' = [spc EXCEPT ![c] = "done"]
  /\ UNCHANGED <<rpc, ctx_stopped, pool, idx, terminated, after_run>>

Next ==
  \/ RunCall \/ RunRestart \/ RunOpen \/ RunSpawn \/ RunReturn
  \/ \E i \in 1..Len(pool) : WorkerExit(i)
  \/ \E c \in Stoppers :
       StopCheck(c) \/ StopStop(c) \/ StopJoin(c) \/ StopClose(c)

\* Every thread is scheduled: each step, once enabled, is taken.
Fairness ==
  /\ WF_vars(RunCall \/ RunRestart \/ RunOpen \/ RunSpawn \/ RunReturn)
  /\ WF_vars(\E i \in 1..Len(pool) : WorkerExit(i))
  /\ \A c \in Stoppers :
       WF_vars(StopCheck(c) \/ StopStop(c) \/ StopJoin(c) \/ StopClose(c))

Spec == Init /\ [][Next]_vars /\ Fairness

-----------------------------------------------------------------------------
(* Properties.                                                             *)

TypeOK ==
  /\ rpc \in {"call", "restart", "open", "spawn", "running", "returned", "threw"}
  /\ ctx_stopped \in BOOLEAN
  /\ pool \in Seq({"running", "exited", "joined"})
  /\ Len(pool) <= ThreadNum - 1
  /\ acceptor_open \in BOOLEAN
  /\ spc \in [Stoppers -> {"idle", "stop", "join", "close", "done", "threw"}]
  /\ idx \in [Stoppers -> Nat]
  /\ terminated \in BOOLEAN
  /\ after_run \in [Stoppers -> BOOLEAN]

\* The threads inside a loop over io_thread_pool_: run()'s emplace loop
\* and the range-for of each stop().
PoolUsers ==
  (IF rpc = "spawn" THEN {"runner"} ELSE {}) \cup {c \in Stoppers : spc[c] = "join"}

\* stop() is documented thread-safe: io_thread_pool_ (an unsynchronised
\* std::vector) is never iterated by one thread while another emplaces
\* into it or clears it, and the process is never ended by
\* std::terminate(): no std::thread is destroyed while joinable, and no
\* stop() called from a handler joins its own thread.
PoolExclusive ==
  /\ Cardinality(PoolUsers) <= 1
  /\ ~terminated

\* run() "will block until stop() is called": a stop() entered after
\* run() was called eventually makes run() return (or run() fails).
StopEndsRun ==
  \A c \in Stoppers :
    (spc[c] = "done" /\ after_run[c]) ~> (rpc \in {"returned", "threw"})

=============================================================================
