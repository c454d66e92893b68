---------------------------- MODULE HttpConnection ----------------------------
(***************************************************************************)
(* What one server-side HTTP/1.1 connection promises (spec.md 4.3 and 5): *)
(* it reads one request at a time, answers it before reading the next     *)
(* (no pipelining), numbers the requests it receives 1, 2, 3, ... and,    *)
(* once closed, does nothing more.                                         *)
(***************************************************************************)
EXTENDS Naturals

CONSTANT Connections

VARIABLES
  phase,   \* "idle", "reading", "handling", "writing" or "closed"
  served   \* number of requests received, = id of the latest one

vars == <<phase, served>>

Init ==
  /\ phase = [c \in Connections |-> "idle"]
  /\ served = [c \in Connections |-> 0]

\* The connection is accepted and waits for its first request.
Open(c) ==
  /\ phase[c] = "idle"
  /\ phase' = [phase EXCEPT ![c] = "reading"]
  /\ UNCHANGED served

\* A request arrives.  The server answers it itself, hands it to a
\* handler, or the handler gives it up and the connection closes.
Receive(c) ==
  /\ phase[c] = "reading"
  /\ phase' \in {[phase EXCEPT ![c] = p] : p \in {"handling", "writing", "closed"}}
  /\ served' = [served EXCEPT ![c] = @ + 1]

\* The handler's response is being written.
Respond(c) ==
  /\ phase[c] = "handling"
  /\ phase' = [phase EXCEPT ![c] = "writing"]
  /\ UNCHANGED served

\* The response is out and the connection is kept alive.
Continue(c) ==
  /\ phase[c] = "writing"
  /\ phase' = [phase EXCEPT ![c] = "reading"]
  /\ UNCHANGED served

\* End of the connection: peer close, error, timeout, no keep-alive, or a
\* handler giving up its response.
Close(c) ==
  /\ phase[c] \in {"reading", "handling", "writing"}
  /\ phase' = [phase EXCEPT ![c] = "closed"]
  /\ UNCHANGED served

Next ==
  \E c \in Connections :
    Open(c) \/ Receive(c) \/ Respond(c) \/ Continue(c) \/ Close(c)

Spec == Init /\ [][Next]_vars

=============================================================================
