------------------------------ MODULE MCExamples ------------------------------
(* Instances of Examples for TLC.                                          *)
EXTENDS Examples

CONSTANT d1

\* all that the programs use
ExampleOps == {"enable", "scan", "stopScan", "connect", "disconnect", "read", "write"}

\* all failures but those the programs have no answer to
Foreseen ==
  [p \in {"ble_scan", "read", "write"} |->
     IF p = "ble_scan" THEN {"scan", "connect", "disconnect"}
                       ELSE {"read", "write", "disconnect"}]

=============================================================================
