----------------------------- MODULE HttpResponse -----------------------------
(***************************************************************************)
(* One response from its construction by a handler to the message         *)
(* HttpSession::writeResponse hands to async_write: the HttpResponse      *)
(* builder of src/src/http_response.cpp, then writeResponse's keep-alive, *)
(* user headers, gzip, HEAD and payload steps (src/src/http_session.cpp). *)
(*                                                                         *)
(* A body is its length in bytes.  Headers are abstracted to the one that  *)
(* writeResponse's outcome reads back, Connection.  Status, content type   *)
(* and compression level are left out: every StatusType carries a body,    *)
(* and the level only changes the compressed bytes.                        *)
(***************************************************************************)
EXTENDS Naturals, Sequences

CONSTANTS
  BodySizes,  \* body lengths handlers pass to HttpResponse(...)
  Requests,   \* request_ being answered: [method, keep_alive, accept_gzip]
  AutoGzip    \* HttpServerOptions::auto_gzip_

VARIABLES
  request,   \* HttpSession::request_ (fixed while the response is built)
  rsp,       \* the HttpResponse the handler builds
  wire       \* {response_ as doWrite hands it to async_write}, {} before

vars == <<request, rsp, wire>>

\* compressData: a gzip member is a 10-byte header, the deflate stream (2
\* bytes for empty input) and an 8-byte trailer, so it is never empty.
\* Only its being non-empty is told apart.
GzipLen(n) == 20 + n

\* The handler has just run HttpResponse(status, body, content_type):
\* neither flag set, no headers.
Init ==
  /\ request \in Requests
  /\ rsp \in [body : BodySizes, force_gzip : {FALSE},
              force_disable_keep_alive : {FALSE}, connection : {"unset"}]
  /\ wire = {}

\* The builders, before the response is moved into send().
Building == wire = {}

ForceGzip ==
  /\ Building
  /\ rsp' = [rsp EXCEPT !.force_gzip = TRUE]
  /\ UNCHANGED <<request, wire>>

ForceDisableKeepAlive ==
  /\ Building
  /\ rsp' = [rsp EXCEPT !.force_disable_keep_alive = TRUE]
  /\ UNCHANGED <<request, wire>>

\* header("Connection", v).
Header(v) ==
  /\ Building
  /\ rsp' = [rsp EXCEPT !.connection = v]
  /\ UNCHANGED <<request, wire>>

\* What a handler may do to a response's keep-alive: force it off, and set
\* a Connection header (headers_ is a map, the last value wins).
KeepAliveChoices ==
  [force_disable_keep_alive : BOOLEAN,
   connection : {"unset", "close", "keep-alive"}]

\* writeResponse's keep-alive, as doWrite binds it into onWrite:
\* keep_alive(false) when forced off, else request_'s keep-alive (on the
\* HTTP/1.1 response_ this sets or removes "Connection: close"); the user
\* headers are copied over it, and response_.keep_alive() reads the
\* Connection field back.
KeepAliveOf(r, req_ka) ==
  CASE r.connection = "close"      -> FALSE
    [] r.connection = "keep-alive" -> TRUE
    [] OTHER -> ~r.force_disable_keep_alive /\ req_ka

\* writeResponse: the keep-alive above; then gzip if
\* forced, or if the body is over 500 bytes, auto_gzip_ is on and the
\* request accepts gzip.  Only a non-empty body is written (not for HEAD)
\* and given prepare_payload, which sets Content-Length to the body written
\* (content_length is <<n>> for "Content-Length: n", <<>> for none).
WriteResponse(r, q) ==
  LET gz  == r.force_gzip \/ (r.body > 500 /\ AutoGzip /\ q.accept_gzip)
      len == IF gz THEN GzipLen(r.body) ELSE r.body
      sent == IF len > 0 /\ q.method # "head" THEN len ELSE 0
  IN  [keep_alive |-> KeepAliveOf(r, q.keep_alive), gzip |-> gz, body |-> sent,
       content_length |-> IF len > 0 THEN <<sent>> ELSE <<>>]

\* HttpResponseWriter::send(std::move(rsp)).
Send ==
  /\ Building
  /\ wire' = {WriteResponse(rsp, request)}
  /\ UNCHANGED <<request, rsp>>

Next ==
  \/ ForceGzip
  \/ ForceDisableKeepAlive
  \/ \E v \in {"close", "keep-alive"} : Header(v)
  \/ Send

Spec == Init /\ [][Next]_vars

-----------------------------------------------------------------------------
(* Properties.                                                             *)

TypeOK ==
  /\ request \in Requests
  /\ rsp \in
       [body : BodySizes, force_gzip : BOOLEAN,
        force_disable_keep_alive : BOOLEAN,
        connection : {"unset", "close", "keep-alive"}]
  /\ wire \in SUBSET [keep_alive : BOOLEAN, gzip : BOOLEAN, body : Nat,
                      content_length : Seq(Nat)]

\* Spec 4.3 step 7 as written: gzip when forced, or when auto_gzip is on,
\* the body is over 500 bytes and Accept-Encoding has gzip or *.
SpecEncodedLength(r, q) ==
  IF r.force_gzip \/ (AutoGzip /\ r.body > 500 /\ q.accept_gzip)
  THEN GzipLen(r.body) ELSE r.body

\* Spec 4.3 step 7 ("HEAD requests suppress the body but retain headers
\* and Content-Length") and RFC 7230 3.3.2 (a Content-Length sent for
\* HEAD must be the length a GET would get): when writeResponse gives a
\* HEAD response a Content-Length, it is the length of the body the same
\* response would carry for GET.
HeadContentLength ==
  \A m \in wire :
    (request.method = "head" /\ m.content_length # <<>>)
      => m.content_length = <<SpecEncodedLength(rsp, request)>>

=============================================================================
