----------------------------- MODULE BLECentral -----------------------------
(***************************************************************************)
(* The BLECentral singleton (gattlibpp/BLECentral.cpp) between the         *)
(* application that calls it and the C library gattlib below it.           *)
(*                                                                         *)
(* Everything runs on one thread.  The application is in control between   *)
(* two calls of processAsync() and inside each of its callbacks: appTurn   *)
(* is TRUE exactly then, and requests are made only then.  A callback is   *)
(* always the last thing the library's code does, so the step that calls   *)
(* it ends there, and the next step of the library is the return from it.  *)
(* processAsync() is cut into the steps between which a callback may run:  *)
(* the deliveries of gattlib, the reports of the local copy q, the turn of *)
(* the first asynchronous action.                                          *)
(*                                                                         *)
(* An empty callback is, for the state, one that makes no request.  A      *)
(* request that is refused calls its failure callback in place and changes *)
(* nothing, except that it may have opened the adapter: AdapterOpen stands *)
(* for it.  Which characteristic a read or a write finds is left open.     *)
(***************************************************************************)
EXTENDS Naturals, Sequences

CONSTANTS
  Devices,       \* addresses of the peers the application knows
  None,          \* the empty string of connected_to, the NULL connection
  Ops,           \* the operations the application uses
  OneOperation,  \* does it follow "do one BLE operation after the other"?
  OneDevice,     \* does it connect to one device at a time?
  EmptyReads,    \* may a characteristic's value be empty?
  MaxRequests,   \* bound: actions queued in a behaviour
  MaxReports     \* bound: reports the application has pending

ScanOps == {"scan", "startScan"}     \* with a time limit; until stopScan
QueuedOps == ScanOps \cup
  {"stopScan", "stopScanDone", "connect", "disconnect", "read", "write"}
ImmediateOps ==
  {"enable", "enableNull", "adapterOpen", "adapterClose", "setAutoDiscover"}

ASSUME BLECentralAssumption ==
  /\ None \notin Devices
  /\ Ops \subseteq QueuedOps \cup ImmediateOps
  /\ {OneOperation, OneDevice, EmptyReads} \subseteq BOOLEAN
  /\ MaxRequests \in Nat /\ MaxReports \in Nat

VARIABLES
  phase,            \* where processAsync() is; "app" outside of it
  appTurn,          \* is the application's code running?
  adapter_is_open,
  is_scanning,
  auto_discover,
  connected_to,     \* the device connect() was last asked for
  connection,       \* devices[d].connection: the peer it leads to, or None
  asyncActions,     \* the queue of AsyncAction::Details
  reportQueue,      \* the callbacks to run in the next processAsync()
  draining,         \* the part of its local copy q still to run
  gattlib,          \* calls gattlib has accepted and not yet answered
  nextId,           \* history: number of the next action queued
  outcome           \* history: outcome[i] are the callbacks action i has had

central == <<adapter_is_open, is_scanning, auto_discover, connected_to, connection>>
vars == <<phase, appTurn, central, asyncActions, reportQueue, draining,
          gattlib, nextId, outcome>>

Ids == 1..MaxRequests
Actions == [id : Ids, op : QueuedOps, dev : Devices \cup {None},
            state : {"Pending", "Triggered", "Completed"}]
Calls == [id : Ids, op : QueuedOps, dev : Devices \cup {None}]
\* "discover..." and "connected" are the steps autoDiscover...Step() pushes,
\* "data" hands a value read to its callback, "user" and "null" are callbacks
\* pushed by enable() and its like, the latter an empty std::function.
Reports == [op : {"discoverServices", "discoverCharacteristics", "connected",
                  "data", "user", "null"}, id : Ids \cup {0}]

TypeOK ==
  /\ phase \in {"app", "events", "reports", "crashed"}
  /\ appTurn \in BOOLEAN
  /\ adapter_is_open \in BOOLEAN
  /\ is_scanning \in BOOLEAN
  /\ auto_discover \in BOOLEAN
  /\ connected_to \in Devices \cup {None}
  /\ connection \in [Devices -> Devices \cup {None}]
  /\ asyncActions \in Seq(Actions)
  /\ reportQueue \in Seq(Reports)
  /\ draining \in Seq(Reports)
  /\ gattlib \subseteq Calls
  /\ nextId \in 1..(MaxRequests + 1)
  /\ outcome \in [Ids -> Seq({"ok", "fail", "cancelled"})]

Init ==
  /\ phase = "app" /\ appTurn = TRUE
  /\ adapter_is_open = FALSE
  /\ is_scanning = FALSE
  /\ auto_discover = TRUE
  /\ connected_to = None
  /\ connection = [d \in Devices |-> None]
  /\ asyncActions = <<>>
  /\ reportQueue = <<>> /\ draining = <<>>
  /\ gattlib = {}
  /\ nextId = 1
  /\ outcome = [i \in Ids |-> <<>>]

-----------------------------------------------------------------------------
(* The asynchronous actions and their queue                                *)

\* Mutated: back() for front().
front_Back == asyncActions[Len(asyncActions)]
front == asyncActions[1]

isPending(a) == a.state = "Pending"
isRunning(a) == a.state = "Triggered"
\* Mutated: a running action counts as done.
isDone_WhenStarted(a) == a.state # "Pending"
isDone(a) == a.state = "Completed"

\* Mutated: the last action is marked, asyncActions.back() for front().
withState_OfTheLast(state) == [asyncActions EXCEPT ![Len(asyncActions)].state = state]
withState(state) == [asyncActions EXCEPT ![1].state = state]
reportTo(id, result) == outcome' = [outcome EXCEPT ![id] = Append(@, result)]

\* Mutated: markCompleted() is missing.
completedWith_Unmarked(result) ==
  /\ UNCHANGED asyncActions
  /\ appTurn' = TRUE
  /\ reportTo(front.id, result)

\* The first action is marked completed and its callback called.  A read has
\* no success callback: its data goes through the report queue.
completedWith(result) ==
  /\ asyncActions' = withState("Completed")
  /\ IF result = "ok" /\ front.op = "read"
       THEN appTurn' = FALSE /\ UNCHANGED outcome
       ELSE appTurn' = TRUE /\ reportTo(front.id, result)

\* What gattlib's callbacks do once they have updated their part of the
\* state: the first action in the queue, if any, is taken for the one meant.
currentOp(result) ==
  IF asyncActions = <<>>
    THEN appTurn' = FALSE /\ UNCHANGED <<asyncActions, outcome>>
    ELSE completedWith(result)

queueAsyncAction(queue, op, d) ==
  /\ nextId \in Ids
  /\ asyncActions' = Append(queue, [id |-> nextId, op |-> op, dev |-> d,
                                    state |-> "Pending"])
  /\ nextId' = nextId + 1

pushReport(op, id) == reportQueue' = Append(reportQueue, [op |-> op, id |-> id])

-----------------------------------------------------------------------------
(* Requests of the application                                             *)

\* Nothing the application has asked for is unfinished or unreported.
Idle ==
  /\ \A i \in DOMAIN asyncActions : isDone(asyncActions[i])
  /\ reportQueue = <<>> /\ draining = <<>>

MayRequest(op) == appTurn /\ op \in Ops /\ (OneOperation => Idle)

\* stopScan() is meant to be called while a scan is unfinished.
MayStopScan ==
  /\ appTurn /\ "stopScan" \in Ops
  /\ OneOperation => \A i \in DOMAIN asyncActions :
                        isDone(asyncActions[i]) \/ asyncActions[i].op \in ScanOps

\* The adapter is open or has just been opened; otherwise the request is refused.
openAdapterIfRequired == adapter_is_open' = TRUE

\* Mutated: the device last asked for counts as connected.
isConnected_WhenAskedFor(d) == connected_to = d
isConnected(d) == connection[d] # None

\* adapterOpen(name): reopening under another name may fail and leave it closed.
AdapterOpen ==
  /\ MayRequest("adapterOpen")
  /\ adapter_is_open' \in BOOLEAN
  /\ UNCHANGED <<phase, appTurn, is_scanning, auto_discover, connected_to, connection,
                 asyncActions, reportQueue, draining, gattlib, nextId, outcome>>

AdapterClose ==
  /\ MayRequest("adapterClose")
  /\ adapter_is_open
  /\ adapter_is_open' = FALSE
  /\ UNCHANGED <<phase, appTurn, is_scanning, auto_discover, connected_to, connection,
                 asyncActions, reportQueue, draining, gattlib, nextId, outcome>>

SetAutoDiscoverOnConnect ==
  /\ MayRequest("setAutoDiscover")
  /\ auto_discover' \in BOOLEAN
  /\ UNCHANGED <<phase, appTurn, adapter_is_open, is_scanning, connected_to, connection,
                 asyncActions, reportQueue, draining, gattlib, nextId, outcome>>

\* enable(), isEnabled() and isConnected() push one of the two callbacks they
\* are given, without looking whether it is empty (the default argument).
Enable(op) ==
  /\ MayRequest(op)
  /\ Len(reportQueue) < MaxReports
  /\ openAdapterIfRequired
  /\ pushReport(IF op = "enableNull" THEN "null" ELSE "user", 0)
  /\ UNCHANGED <<phase, appTurn, is_scanning, auto_discover, connected_to, connection,
                 asyncActions, draining, gattlib, nextId, outcome>>

\* A scan asked for while one is in progress returns true and does nothing.
\* The disconnection prepared for the case that a device is connected
\* (autodisconn) is not queued by the code, hence absent here.
Scan(op) ==
  /\ MayRequest(op)
  /\ openAdapterIfRequired
  /\ ~is_scanning
  /\ queueAsyncAction(asyncActions, op, None)
  /\ is_scanning' = TRUE
  /\ UNCHANGED <<phase, appTurn, auto_discover, connected_to, connection,
                 reportQueue, draining, gattlib, outcome>>

\* Mutated: a scan that has not been started is cut short too.
scanRuns_WhenQueued == asyncActions # <<>> /\ front.op \in ScanOps

\* Only a scan that is the first action and has been started is cut short.
scanRuns ==
  /\ asyncActions # <<>>
  /\ isRunning(front)
  /\ front.op \in ScanOps

StopScan ==
  /\ MayStopScan
  /\ openAdapterIfRequired
  /\ IF is_scanning /\ scanRuns
       THEN /\ reportTo(front.id, "cancelled")
            /\ queueAsyncAction(withState("Completed"), "stopScan", None)
       ELSE /\ queueAsyncAction(asyncActions,
                 IF is_scanning THEN "stopScan" ELSE "stopScanDone", None)
            /\ UNCHANGED outcome
  /\ UNCHANGED <<phase, appTurn, is_scanning, auto_discover, connected_to, connection,
                 reportQueue, draining, gattlib>>

\* Mutated: connected_to is not set.
Connect_Unnoted(d) ==
  /\ MayRequest("connect")
  /\ OneDevice => \A e \in Devices : ~isConnected(e)
  /\ openAdapterIfRequired
  /\ ~isConnected(d)
  /\ queueAsyncAction(asyncActions, "connect", d)
  /\ UNCHANGED <<phase, appTurn, is_scanning, auto_discover, connected_to, connection,
                 reportQueue, draining, gattlib, outcome>>

Connect(d) ==
  /\ MayRequest("connect")
  /\ OneDevice => \A e \in Devices : ~isConnected(e)
  /\ openAdapterIfRequired
  /\ ~isConnected(d)
  /\ connected_to' = d
  /\ queueAsyncAction(asyncActions, "connect", d)
  /\ UNCHANGED <<phase, appTurn, is_scanning, auto_discover, connection,
                 reportQueue, draining, gattlib, outcome>>

\* A request that is refused unless the device is connected when it is made.
UseConnection(op, d) ==
  /\ MayRequest(op)
  /\ openAdapterIfRequired
  /\ isConnected(d)
  /\ queueAsyncAction(asyncActions, op, d)
  /\ UNCHANGED <<phase, appTurn, is_scanning, auto_discover, connected_to, connection,
                 reportQueue, draining, gattlib, outcome>>

Disconnect(d) == UseConnection("disconnect", d)
Read(d) == UseConnection("read", d)
Write(d) == UseConnection("write", d)

Request ==
  \/ AdapterOpen
  \/ AdapterClose
  \/ SetAutoDiscoverOnConnect
  \/ \E op \in {"enable", "enableNull"} : Enable(op)
  \/ \E op \in ScanOps : Scan(op)
  \/ StopScan
  \/ \E d \in Devices : Connect(d) \/ Disconnect(d) \/ Read(d) \/ Write(d)

-----------------------------------------------------------------------------
(* processAsync(): the callbacks of gattlib                                *)

ProcessAsync ==
  /\ phase = "app"
  /\ phase' = "events"
  /\ appTurn' = FALSE
  /\ UNCHANGED <<central, asyncActions, reportQueue, draining, gattlib, nextId, outcome>>

\* gattlib_async_process_all() answers call g.
answers(g) == phase = "events" /\ gattlib' = gattlib \ {g}

\* devDiscoveredCb is called, any number of times, as long as the scan goes on.
DeviceDiscovered(g) ==
  /\ phase = "events" /\ g.op \in ScanOps
  /\ appTurn' = TRUE
  /\ UNCHANGED <<phase, central, asyncActions, reportQueue, draining, gattlib,
                 nextId, outcome>>

\* Mutated: scanCompleted() leaves is_scanning set.
ScanEnded_StillScanning(g) ==
  /\ g.op \in {"scan", "stopScan"}
  /\ answers(g)
  /\ is_scanning' = (is_scanning /\ g.op = "scan")
  /\ currentOp("ok")
  /\ UNCHANGED <<phase, adapter_is_open, auto_discover, connected_to, connection,
                 reportQueue, draining, nextId>>

\* scanCompleted() and scanDisableCompleted()
ScanEnded(g) ==
  /\ g.op \in {"scan", "stopScan"}
  /\ answers(g)
  /\ is_scanning' = FALSE
  /\ currentOp("ok")
  /\ UNCHANGED <<phase, adapter_is_open, auto_discover, connected_to, connection,
                 reportQueue, draining, nextId>>

\* Mutated: an empty connection is reported as a success.
connectResult_Always(peer) == "ok"
connectResult(peer) == IF peer = None THEN "fail" ELSE "ok"

\* Mutated: an empty connection is discovered too.
discovers_Unchecked(peer) == auto_discover
discovers(peer) == peer # None /\ auto_discover

\* A connection to peer, or None, is handed over: it goes to the device
\* connected_to names by now.  There is none if that has been cleared.
DeviceConnected(g, peer) ==
  /\ g.op = "connect"
  /\ answers(g)
  /\ UNCHANGED <<adapter_is_open, is_scanning, auto_discover, connected_to, draining, nextId>>
  /\ IF connected_to = None
       THEN /\ phase' = "crashed"
            /\ appTurn' = FALSE
            /\ UNCHANGED <<connection, reportQueue, asyncActions, outcome>>
       ELSE /\ UNCHANGED phase
            /\ connection' = [connection EXCEPT ![connected_to] = peer]
            /\ IF discovers(peer)
                 THEN /\ pushReport("discoverServices", 0)
                      /\ appTurn' = FALSE
                      /\ UNCHANGED <<asyncActions, outcome>>
                 ELSE /\ currentOp(connectResult(peer))
                      /\ UNCHANGED reportQueue

\* Mutated: the device is erased from the map.
forgetConnection_AndDevice ==
  /\ connection' = [d \in Devices \ {connected_to} |-> connection[d]]
  /\ connected_to' = None

\* Mutated: the connection of the device is not reset.
forgetConnection_NameOnly == UNCHANGED connection /\ connected_to' = None

forgetConnection ==
  /\ connection' = IF connected_to = None THEN connection
                   ELSE [connection EXCEPT ![connected_to] = None]
  /\ connected_to' = None

DeviceDisconnected(g) ==
  /\ g.op = "disconnect"
  /\ answers(g)
  /\ forgetConnection
  /\ currentOp("ok")
  /\ UNCHANGED <<phase, adapter_is_open, is_scanning, auto_discover,
                 reportQueue, draining, nextId>>

\* Mutated: the read is not marked completed.
readDataReceived_Unmarked ==
  /\ appTurn' = FALSE
  /\ UNCHANGED <<outcome, asyncActions>>
  /\ IF asyncActions # <<>> /\ front.op = "read" THEN pushReport("data", front.id)
                                                ELSE UNCHANGED reportQueue

\* The data callback of the first action, if it has one, is put off to the
\* report queue.
readDataReceived ==
  /\ appTurn' = FALSE
  /\ UNCHANGED outcome
  /\ IF asyncActions = <<>>
       THEN UNCHANGED <<asyncActions, reportQueue>>
       ELSE /\ asyncActions' = withState("Completed")
            /\ IF front.op = "read" THEN pushReport("data", front.id)
                                    ELSE UNCHANGED reportQueue

\* clib_read_char_callback() passes on values that are not empty.
ReadAnswered(g, empty) ==
  /\ g.op = "read"
  /\ answers(g)
  /\ IF empty
       THEN appTurn' = FALSE /\ UNCHANGED <<asyncActions, reportQueue, outcome>>
       ELSE readDataReceived
  /\ UNCHANGED <<phase, central, draining, nextId>>

WriteAnswered(g, result) ==
  /\ g.op = "write"
  /\ answers(g)
  /\ currentOp(result)
  /\ UNCHANGED <<phase, central, reportQueue, draining, nextId>>

\* The final answer to a call.  startScan has none.
Answer(g) ==
  \/ ScanEnded(g)
  \/ \E peer \in {g.dev, None} : DeviceConnected(g, peer)
  \/ DeviceDisconnected(g)
  \/ \E empty \in {FALSE, EmptyReads} : ReadAnswered(g, empty)
  \/ \E result \in {"ok", "fail"} : WriteAnswered(g, result)

-----------------------------------------------------------------------------
(* processAsync(): the report queue, then the first action                 *)

TakeReports ==
  /\ phase = "events"
  /\ phase' = "reports"
  /\ appTurn' = FALSE
  /\ draining' = reportQueue
  /\ reportQueue' = <<>>
  /\ UNCHANGED <<central, asyncActions, gattlib, nextId, outcome>>

runs(op) ==
  /\ phase = "reports" /\ draining # <<>>
  /\ Head(draining).op = op
  /\ draining' = Tail(draining)
  /\ UNCHANGED <<central, gattlib, nextId>>

DiscoverServicesStep ==
  /\ runs("discoverServices")
  /\ pushReport("discoverCharacteristics", 0)
  /\ appTurn' = FALSE
  /\ UNCHANGED <<phase, asyncActions, outcome>>

DiscoverCharacteristicsStep ==
  /\ runs("discoverCharacteristics")
  /\ pushReport("connected", 0)
  /\ appTurn' = FALSE
  /\ UNCHANGED <<phase, asyncActions, outcome>>

ConnectedStep ==
  /\ runs("connected")
  /\ currentOp("ok")
  /\ UNCHANGED <<phase, reportQueue>>

DataStep ==
  /\ runs("data")
  /\ reportTo(Head(draining).id, "ok")
  /\ appTurn' = TRUE
  /\ UNCHANGED <<phase, asyncActions, reportQueue>>

UserStep ==
  /\ runs("user")
  /\ appTurn' = TRUE
  /\ UNCHANGED <<phase, asyncActions, reportQueue, outcome>>

\* Calling an empty std::function throws bad_function_call.
NullStep ==
  /\ runs("null")
  /\ phase' = "crashed"
  /\ appTurn' = FALSE
  /\ UNCHANGED <<asyncActions, reportQueue, outcome>>

RunReport ==
  \/ DiscoverServicesStep
  \/ DiscoverCharacteristicsStep
  \/ ConnectedStep
  \/ DataStep
  \/ UserStep
  \/ NullStep

\* The end of processAsync(): control goes back to its caller.
returns ==
  /\ phase = "reports" /\ draining = <<>>
  /\ phase' = "app" /\ appTurn' = TRUE
  /\ UNCHANGED <<adapter_is_open, auto_discover, connected_to, connection,
                 reportQueue, draining, nextId>>

\* What is left of the calls to gattlib when the front action's is accepted:
\* disabling the scan stops it, and with it its time limit.
acceptedCalls ==
  (IF front.op = "stopScan" THEN {g \in gattlib : g.op \notin ScanOps} ELSE gattlib)
    \cup {[id |-> front.id, op |-> front.op, dev |-> front.dev]}

\* run() triggers the action: gattlib accepts the call or refuses it.
TriggerAccepted ==
  /\ returns
  /\ asyncActions # <<>> /\ isPending(front) /\ front.op # "stopScanDone"
  /\ asyncActions' = withState("Triggered")
  /\ gattlib' = acceptedCalls
  /\ UNCHANGED <<is_scanning, outcome>>

\* Mutated: is_scanning is left set when the scan cannot be started.
TriggerRefused_StillScanning ==
  /\ returns
  /\ asyncActions # <<>> /\ isPending(front) /\ front.op # "stopScanDone"
  /\ completedWith("fail")
  /\ UNCHANGED <<is_scanning, gattlib>>

TriggerRefused ==
  /\ returns
  /\ asyncActions # <<>> /\ isPending(front) /\ front.op # "stopScanDone"
  /\ is_scanning' = (is_scanning /\ front.op \notin ScanOps)
  /\ completedWith("fail")
  /\ UNCHANGED gattlib

\* There was no scan to stop: nothing is called.
TriggerStopScanDone ==
  /\ returns
  /\ asyncActions # <<>> /\ isPending(front) /\ front.op = "stopScanDone"
  /\ completedWith("ok")
  /\ UNCHANGED <<is_scanning, gattlib>>

PopDone ==
  /\ returns
  /\ asyncActions # <<>> /\ isDone(front)
  /\ asyncActions' = Tail(asyncActions)
  /\ UNCHANGED <<is_scanning, gattlib, outcome>>

\* The queue is empty, or its first action is running (waitCount is only counted).
NothingToDo ==
  /\ returns
  /\ asyncActions # <<>> => isRunning(front)
  /\ UNCHANGED <<is_scanning, asyncActions, gattlib, outcome>>

FrontTurn ==
  \/ TriggerAccepted
  \/ TriggerRefused
  \/ TriggerStopScanDone
  \/ PopDone
  \/ NothingToDo

-----------------------------------------------------------------------------
Tick == ProcessAsync \/ TakeReports \/ RunReport \/ FrontTurn
Deliver == \E g \in gattlib : DeviceDiscovered(g) \/ Answer(g)

Next == Request \/ Deliver \/ Tick

Spec == Init /\ [][Next]_vars

\* The application keeps calling processAsync(), its callbacks return, and
\* gattlib eventually answers every call it has accepted.
Fairness ==
  /\ WF_vars(Tick)
  /\ \A i \in Ids : SF_vars(\E g \in gattlib : g.id = i /\ Answer(g))

FairSpec == Spec /\ Fairness

-----------------------------------------------------------------------------
(* Properties that hold in whatever order operations are asked for         *)

\* Head-of-line order: no action is started before it has become the first
\* of the queue, and the first one is popped only when done (processAsync).
OnlyFrontStarted ==
  \A i \in DOMAIN asyncActions : i > 1 => isPending(asyncActions[i])

\* gattlib's callbacks name no action: readDataReceived(), currentOpCompleted()
\* and the others take the first one.  It is the one the answer is for,
\* whenever the answer comes, and at most one answer is due.
AnswersMeetTheirAction ==
  \A g \in gattlib : g.op # "startScan" =>
     /\ asyncActions # <<>> /\ isRunning(front)
     /\ front.id = g.id /\ front.op = g.op

\* No action is reported twice (success, failure, data, or cut short).
ReportedOnce == \A i \in Ids : Len(outcome[i]) <= 1

\* Reports come in the order of the requests: no action is reported while one
\* asked for before it is not.
ReportsInOrder ==
  \A i, j \in Ids : i < j /\ outcome[j] # <<>> => outcome[i] # <<>>

\* Seen through this mapping, the queue of actions is the queue of operations
\* of OperationQueue.tla: order, one report each, no retirement before it.
Promise == INSTANCE OperationQueue WITH
  queue <- [i \in DOMAIN asyncActions |-> asyncActions[i].id],
  running <- asyncActions # <<>> /\ ~isPending(front),
  next <- nextId

ImplementsOperationQueue == Promise!Spec

-----------------------------------------------------------------------------
(* Properties for an application that keeps to the README's limitations:   *)
(* one device, and one operation after the other                           *)

\* deviceConnected() finds the device it is about, and every callback in the
\* report queue can be called.
NoCrash == phase # "crashed"

\* A connection is kept with the device it leads to, and that device is the
\* one connected_to names: shutdown() and deviceDisconnected() rely on it.
ConnectionConsistent ==
  \A d \in Devices : connection[d] # None => connection[d] = d /\ connected_to = d

\* What connect() and disconnect() report is the state isConnected() shows to
\* the callback that receives the report.
ReportsAreTrue ==
  [][\A a \in {asyncActions[i] : i \in DOMAIN asyncActions}, result \in {"ok", "fail"} :
       outcome'[a.id] = Append(outcome[a.id], result) =>
         /\ a.op = "connect" => (connection'[a.dev] # None <=> result = "ok")
         /\ a.op = "disconnect" /\ result = "ok" => connection'[a.dev] = None]_vars

\* The connection and the adapter were checked when the operation was asked
\* for; nothing has changed some ticks later, when gattlib is called.
CallsAreLegal ==
  [][\A g \in gattlib' \ gattlib :
       /\ g.op \in {"disconnect", "read", "write"} => connection[g.dev] # None
       /\ g.op = "connect" => connection[g.dev] = None
       /\ g.op \in ScanOps \cup {"stopScan"} => adapter_is_open]_vars

\* is_scanning is set as long as gattlib scans, and is not left set when
\* nothing is queued and gattlib does not scan: scan() would then never
\* start one again.
ScanFlagTruthful ==
  LET scanning == \E g \in gattlib : g.op \in ScanOps
  IN /\ scanning => is_scanning
     /\ is_scanning /\ asyncActions = <<>> => scanning

\* Regular calls of processAsync() bring every operation to its report and
\* out of the queue.
EveryOperationEnds ==
  \A i \in Ids : i < nextId ~> /\ outcome[i] # <<>>
                               /\ \A k \in DOMAIN asyncActions : asyncActions[k].id # i

-----------------------------------------------------------------------------
(* What the README of the library says, and the code does not do (run       *)
(* FalseConnect)                                                           *)

\* README.md:22-25: the success callback of connect() is told "we're connected".
ConnectSuccessMeansConnected ==
  [][\A k \in DOMAIN asyncActions :
       LET a == asyncActions[k]
       IN a.op = "connect" /\ outcome'[a.id] = Append(outcome[a.id], "ok")
            => connection'[a.dev] # None]_vars

=============================================================================
