------------------------------- MODULE Examples -------------------------------
(***************************************************************************)
(* The two example programs (examples/ble_scan, examples/read_write) as    *)
(* clients of the central: in place of an application that asks for        *)
(* anything, their main loop and their callbacks, which ask for the next   *)
(* operation or end the loop; then shutdown() and the end of the program.  *)
(*                                                                         *)
(* called is the callback being run, a pair <<role, result>>: each body is *)
(* an action, and nothing else happens before it has run.  role tells      *)
(* which callbacks an action was given.  What the programs print is left   *)
(* out.  Their target is the only device there is.                         *)
(***************************************************************************)
EXTENDS Shutdown

CONSTANTS
  Target,      \* the device named on the command line
  MayFail,     \* MayFail[p]: the operations that may fail while p runs
  MaxSightings \* bound: the times a scan comes upon the target

Programs == DOMAIN MayFail

ASSUME ExamplesAssumption ==
  /\ Programs \subseteq {"ble_scan", "read", "write"}
  /\ Devices = {Target} /\ MaxRequests >= 3 + 2 * MaxSightings

VARIABLES
  program,     \* "read" and "write" are read_write with that operation
  doContinue,
  called,      \* the callback to be run, <<>> if there is none
  role,        \* role[i]: what the program asked for action i for
  sightings    \* the times the target has been discovered

clientVars == <<program, doContinue, called, role, sightings>>
examplesVars == <<shutdownVars, clientVars>>

Roles == {"none", "scan", "stop", "stopToConnect", "connect", "use"}

ExamplesInit ==
  /\ ShutdownInit
  /\ program \in Programs
  /\ doContinue = TRUE
  /\ called = <<"main", "ok">>
  /\ role = [i \in Ids |-> "none"]
  /\ sightings = 0

-----------------------------------------------------------------------------
(* The bodies of main() and of the callbacks                               *)

runsBody(r, result) == called = <<r, result>> /\ called' = <<>>

\* A request is made, its callbacks having the role r.
asks(request, r) ==
  /\ request
  /\ role' = [role EXCEPT ![nextId] = r]
  /\ UNCHANGED <<shutdownOnly, program, doContinue, sightings>>

endsLoop ==
  /\ doContinue' = FALSE
  /\ UNCHANGED <<shutdownVars, program, role, sightings>>

doesNothing == UNCHANGED <<shutdownVars, program, doContinue, role, sightings>>

\* main() enables the central; if there is no adapter the failure callback
\* ends the loop before it has begun.
Main ==
  /\ runsBody("main", "ok")
  /\ \/ Enable("enable") /\ UNCHANGED <<shutdownOnly, program, doContinue, role, sightings>>
     \/ endsLoop

\* useEnabledBLECentral()
Enabled ==
  /\ runsBody("enable", "ok")
  /\ IF program = "ble_scan" THEN asks(Scan("scan"), "scan")
                             ELSE asks(Connect(Target), "connect")

\* The scan is done when its time limit has passed, and is stopped even so.
ScanDone == runsBody("scan", "ok") /\ asks(StopScan, "stop")

Found == runsBody("found", "ok") /\ asks(StopScan, "stopToConnect")

\* Failures to stop a scan are only printed.
StopFailed ==
  /\ runsBody("stop", "fail") \/ runsBody("stopToConnect", "fail")
  /\ doesNothing

StoppedToConnect ==
  /\ runsBody("stopToConnect", "ok")
  /\ IF isConnected(Target) THEN endsLoop ELSE asks(Connect(Target), "connect")

\* onConnect() ends ble_scan.  read_write goes on to its operation, which may
\* be refused: the characteristic is not there, or there is no connection.
ConnectDone ==
  /\ runsBody("connect", "ok")
  /\ \/ program = "ble_scan" /\ endsLoop
     \/ program = "read" /\ asks(Read(Target), "use")
     \/ program = "write" /\ asks(Write(Target), "use")
     \/ program # "ble_scan" /\ endsLoop

\* read_write gives connect() no failure callback.  That of ble_scan looks
\* whether it was connected before, when the loop is over anyway.
ConnectFailed ==
  /\ runsBody("connect", "fail")
  /\ IF program = "ble_scan" THEN endsLoop ELSE doesNothing

\* The other callbacks, and every failedCallback(), end the loop.
LastCallback ==
  /\ \/ runsBody("enable", "fail")
     \/ runsBody("scan", "fail")
     \/ runsBody("stop", "ok")
     \/ \E result \in {"ok", "fail"} : runsBody("use", result)
  /\ endsLoop

Body ==
  \/ Main \/ Enabled \/ ScanDone \/ Found \/ StopFailed \/ StoppedToConnect
  \/ ConnectDone \/ ConnectFailed \/ LastCallback

-----------------------------------------------------------------------------
(* The central, and the callbacks it calls                                 *)

noBody == called = <<>> /\ goesOn

\* Only what may fail does; and a scan is not stopped that is not going on.
failures ==
  \A k \in DOMAIN asyncActions :
    LET a == asyncActions[k]
    IN outcome'[a.id] = Append(outcome[a.id], "fail") =>
         \/ a.op \in MayFail[program]
         \/ a.op = "stopScan" /\ \A g \in gattlib : g.op \notin ScanOps

\* The callback of the action that is reported, if any, is to be run.
callsBack ==
  /\ failures
  /\ LET reported == {i \in Ids : outcome'[i] # outcome[i] /\ role[i] # "none"}
     IN called' = IF reported = {} THEN <<>>
                  ELSE LET i == CHOOSE i \in reported : TRUE
                       IN <<role[i], outcome'[i][Len(outcome'[i])]>>
  /\ UNCHANGED <<program, doContinue, role, sightings>>

\* while (doContinue) processAsync(), or the loop in shutdown().
LoopTurns ==
  /\ noBody
  /\ stage = "no" => doContinue
  /\ TickBegins
  /\ UNCHANGED clientVars

\* ble_scan is called with a device discovered, and looks for its target.
TargetDiscovered(g) ==
  /\ noBody
  /\ sightings < MaxSightings
  /\ DeviceDiscovered(g)
  /\ called' = <<"found", "ok">>
  /\ sightings' = sightings + 1
  /\ UNCHANGED <<shutdownOnly, program, doContinue, role>>

Answered(g) ==
  /\ noBody
  /\ Answer(g)
  /\ callsBack
  /\ UNCHANGED shutdownOnly

EventsEnd ==
  /\ noBody
  /\ TakeReports
  /\ UNCHANGED <<shutdownOnly, clientVars>>

\* gattlib_adapter_powered() decides which callback of enable() was pushed.
EnableReported ==
  /\ noBody
  /\ UserStep
  /\ called' \in {<<"enable", "ok">>, <<"enable", "fail">>}
  /\ UNCHANGED <<shutdownOnly, program, doContinue, role, sightings>>

OtherReport ==
  /\ noBody
  /\ DiscoverServicesStep \/ DiscoverCharacteristicsStep \/ ConnectedStep \/ DataStep
  /\ callsBack
  /\ UNCHANGED shutdownOnly

LoopEnds ==
  /\ noBody
  /\ TickEnds
  /\ callsBack

\* main() has left its loop.
MainShutsDown ==
  /\ noBody /\ phase = "app" /\ ~doContinue
  /\ ShutdownCalled
  /\ UNCHANGED clientVars

ShuttingDown ==
  /\ called = <<>>
  /\ DoneCb \/ ShutdownReturns
  /\ UNCHANGED clientVars

ProgramStep ==
  \/ Body
  \/ LoopTurns \/ EventsEnd \/ EnableReported \/ OtherReport \/ LoopEnds
  \/ MainShutsDown \/ ShuttingDown

ExamplesNext ==
  \/ ProgramStep
  \/ \E g \in gattlib : TargetDiscovered(g) \/ Answered(g)
  \/ Ended /\ UNCHANGED clientVars

\* As in BLECentral, with the programs in place of an application that ticks.
ExamplesSpec ==
  /\ ExamplesInit /\ [][ExamplesNext]_examplesVars
  /\ WF_examplesVars(ProgramStep)
  /\ \A i \in Ids : SF_examplesVars(\E g \in gattlib : g.id = i /\ Answered(g))

-----------------------------------------------------------------------------
(* Properties                                                              *)

\* "errors or the end of the line have let us out of our main loop" (ble_scan
\* 109, read_write 138): as long as only what may fail does, the program comes
\* to its end, by way of shutdown().
ProgramEnds == <>hasReturned

\* The programs end with the adapter closed and nothing asked of gattlib left
\* unanswered, or shutdown() has waited for an answer to its limit.
NothingLeftBehind ==
  stage = "returned" => ~adapter_is_open /\ gattlib = {}

\* README.md:129: "do one BLE operation after the other".  connect() refuses a
\* device that is connected (BLECentral.cpp:466-470), so that gattlib is never
\* asked for a second connection to it, if that is kept to.
ConnectsOnce ==
  [][\A g \in gattlib' \ gattlib :
       g.op = "connect" => connection[g.dev] = None]_examplesVars

=============================================================================
