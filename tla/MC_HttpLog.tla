-------------------------------- MODULE MC_HttpLog --------------------------------
(* Instantiates HttpLog for TLC with every combination of the options     *)
(* initLog branches on.                                                    *)
EXTENDS HttpLog, TLC

MC_LogOptions == LogOptionRecords
=============================================================================
