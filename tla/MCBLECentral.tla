---------------------------- MODULE MCBLECentral ----------------------------
(* Instances of BLECentral for TLC: the operations each run exercises.     *)
EXTENDS BLECentral

CONSTANTS d1, d2

\* everything but the scan with a time limit
UntimedOps == (QueuedOps \ {"scan", "stopScanDone"}) \cup ImmediateOps

\* everything the README lists, with callbacks that are not empty
DocumentedOps == UntimedOps \ {"enableNull"}

\* everything but stopping a scan before its time limit
TimedOps == {"scan", "connect", "disconnect", "read", "write", "enable"}

\* the sequence of examples/ble_scan: scan, stop, connect
ScanStopConnectOps == {"scan", "stopScan", "connect"}

=============================================================================
