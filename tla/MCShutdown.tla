------------------------------ MODULE MCShutdown ------------------------------
(* Instances of Shutdown for TLC.                                          *)
EXTENDS Shutdown

CONSTANTS d1, d2

\* every queued operation but the timed scan, and what opens and closes the
\* adapter: the requests a callback may make while shutdown() waits
CallbackOps ==
  {"startScan", "stopScan", "connect", "disconnect", "read", "write",
   "enable", "adapterOpen", "adapterClose"}

=============================================================================
