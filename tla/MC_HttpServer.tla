---------------------------- MODULE MC_HttpServer ----------------------------
(* Instantiates HttpServer for TLC: two connections, one handler          *)
(* registered at "/hello" (HttpServer::registerHandler("/hello", h1)).     *)
EXTENDS HttpServer, TLC

CONSTANTS s1, s2, h1, dd, null

MC_Sessions == {s1, s2}
MC_Segments == {"hello", "x", ""}
MC_Handlers == {h1}
\* registerHandler("/hello", h1)
MC_Registrations == << << [lead |-> "slash", segs |-> <<"hello">>], h1 >> >>
\* Request targets "/hello" (routed) and "/x" (no route).
MC_Targets == {<<"hello">>, <<"x">>}
\* The pass run: a 400 reply changes the session exactly as a handler that
\* sends at once, so one routed target covers both.
MC_RoutedTargets == {<<"hello">>}
\* session_cnt_ is a uint32; TLC's integers are 32-bit signed, so the
\* width is scaled down to 8 bits: 0 - 1 still wraps to the maximum.
MC_CntModulus == 2^8
=============================================================================
