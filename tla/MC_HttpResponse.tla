---------------------------- MODULE MC_HttpResponse ----------------------------
(* Instantiates HttpResponse for TLC: GET and HEAD requests with and       *)
(* without keep-alive and Accept-Encoding: gzip, and bodies that are       *)
(* empty, short, and over the 500-byte gzip threshold.                     *)
EXTENDS HttpResponse

MC_BodySizes == {0, 10, 600}
MC_Requests == [method : {"get", "head"}, keep_alive : BOOLEAN,
                accept_gzip : BOOLEAN]
=============================================================================
