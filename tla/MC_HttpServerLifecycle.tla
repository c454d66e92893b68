------------------------- MODULE MC_HttpServerLifecycle -------------------------
(* Instantiates HttpServerLifecycle for TLC: threads calling stop() are    *)
(* model values.                                                           *)
EXTENDS HttpServerLifecycle, TLC

CONSTANTS c1, c2

MC_OneStopper == {c1}
MC_TwoStoppers == {c1, c2}

\* c1 calls stop() from a thread of its own (as the tests do); c2 is a
\* handler on pool thread 1 that calls stop().
MC_OutsidePool == [c \in MC_OneStopper |-> 0]
MC_HandlerOnThread1 == (c1 :> 0) @@ (c2 :> 1)
=============================================================================
