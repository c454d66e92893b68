\* A handler builds one response and sends it; auto_gzip_ is on (default).
CONSTANTS
  BodySizes <- MC_BodySizes
  Requests <- MC_Requests
  AutoGzip = TRUE

SPECIFICATION Spec
INVARIANT HeadContentLength
\* After send() the handler is done; the write belongs to HttpSession.
CHECK_DEADLOCK FALSE
