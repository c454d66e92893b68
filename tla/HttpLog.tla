------------------------------- MODULE HttpLog -------------------------------
(***************************************************************************)
(* The process-wide log set-up of src/src/http_log.cpp: initLog, which may *)
(* be called once, and setLogLevel.                                        *)
(*                                                                         *)
(* LogOptions is abstracted to what initLog branches on: the console flag, *)
(* the file flag with an empty or non-empty file name and rotation on or   *)
(* off (file_size_ and files_count_ both non-zero), whether the file can  *)
(* be opened (the basic and rotating file sinks open it in their          *)
(* constructor and throw spdlog_ex when they cannot), and the async flag  *)
(* with valid or invalid queue size / thread count.  spdlog's default     *)
(* logger is the one of kind "default" (a colour stdout sink).  A logger   *)
(* spdlog creates starts at level info (2).                                *)
(***************************************************************************)
EXTENDS Naturals

CONSTANT LogOptions   \* the option records callers pass

\* LogOptions (with its FileModeOptions and AsyncModeOptions) as initLog
\* reads it: enable_console_mode_, enable_file_mode_, file_name_ == "",
\* file_size_ and files_count_ both non-zero, the file openable,
\* enable_async_mode_, queue_size_ and thread_count_ both non-zero.
LogOptionRecords ==
  [console : BOOLEAN, file : BOOLEAN, name_empty : BOOLEAN, rotating : BOOLEAN,
   file_opens : BOOLEAN, async : BOOLEAN, async_valid : BOOLEAN]

ASSUME LogOptions \subseteq LogOptionRecords

Levels == 0..7        \* LogLevel: Trace = 0 ... Off = 6, Invalid = 7
Info == 2
Sinks == {"console", "basic_file", "rotating_file"}

VARIABLES
  init_flag,   \* the static init_flag of http_log.cpp
  logger,      \* spdlog's default logger: [kind, sinks]
  level        \* its level, what getLogLevel() returns

vars == <<init_flag, logger, level>>

DefaultLogger == [kind |-> "default", sinks |-> {"console"}]

Init ==
  /\ init_flag = FALSE
  /\ logger = DefaultLogger
  /\ level = Info

\* The sinks initLog collects for options o.
SinksOf(o) ==
  (IF o.console THEN {"console"} ELSE {})
    \cup (IF o.file THEN {IF o.rotating THEN "rotating_file" ELSE "basic_file"}
          ELSE {})

\* The options initLog accepts once past init_flag: a file name when file
\* mode is on and a file the sink can open, at least one sink, a valid
\* pool when async.
Valid(o) ==
  /\ o.file => ~o.name_empty
  /\ o.file => o.file_opens
  /\ SinksOf(o) # {}
  /\ o.async => o.async_valid

\* initLog(opts) past its "already initialized" check: init_flag is set
\* first; then one of the three throws or a sink constructor's, or the
\* new logger (console, file
\* and async set-up, set_default_logger, set_pattern) replaces spdlog's.
InitLog(o) ==
  /\ ~init_flag
  /\ init_flag' = TRUE
  /\ IF Valid(o)
     THEN /\ logger' = [kind |-> IF o.async THEN "async" ELSE "sync", sinks |-> SinksOf(o)]
          /\ level' = Info
     ELSE UNCHANGED <<logger, level>>

\* setLogLevel(lvl): spdlog::set_level.
SetLogLevel(l) ==
  /\ level' = l
  /\ UNCHANGED <<init_flag, logger>>

\* initLog once init_flag is set throws and changes nothing: a stutter.
Next ==
  \/ \E o \in LogOptions : InitLog(o)
  \/ \E l \in Levels : SetLogLevel(l)

Spec == Init /\ [][Next]_vars

-----------------------------------------------------------------------------
(* Properties.                                                             *)

TypeOK ==
  /\ init_flag \in BOOLEAN
  /\ logger \in [kind : {"default", "sync", "async"}, sinks : SUBSET Sinks]
  /\ level \in Levels

\* Spec 6, 7 and 9 ("init_log(options) (once per process)", "reinit of
\* log" is an error, "double-init rejects"): initLog is refused only
\* after a call that initialised the logger, so a call that threw on
\* invalid options can be retried.
InitRejectedOnlyAfterInit ==
  init_flag => logger # DefaultLogger

=============================================================================
