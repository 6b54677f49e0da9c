-------------------------- MODULE BLECentralProofs --------------------------
(***************************************************************************)
(* Proofs about BLECentral, for any devices, operations and bounds.        *)
(*                                                                         *)
(* The safety properties of the action queue are proved for applications   *)
(* that never stop a scan that has a time limit (NoTimedCancel): the run   *)
(* FalseConnect shows what becomes of them without this.                   *)
(***************************************************************************)
EXTENDS BLECentral, Integers, TLAPS

NoTimedCancel == ~({"scan", "stopScan"} \subseteq Ops)

-----------------------------------------------------------------------------
(* The inductive invariant                                                 *)

\* The callbacks of the report queue that are the library's own: steps of a
\* connection, and the data of a read.
ConnectSteps == {"discoverServices", "discoverCharacteristics", "connected"}
OwnReports == ConnectSteps \cup {"data"}

NoOwnReport(q) == \A i \in DOMAIN q : q[i].op \notin OwnReports
AtMostOneOwnReport(q) ==
  \A i, j \in DOMAIN q : q[i].op \in OwnReports /\ q[j].op \in OwnReports => i = j
DataDue(q) == \E i \in DOMAIN q : q[i].op = "data"

\* Such a callback belongs to the first action, which is waiting for it.
Belongs(r) ==
  /\ asyncActions # <<>>
  /\ IF r.op = "data"
       THEN isDone(front) /\ front.op = "read" /\ front.id = r.id /\ outcome[r.id] = <<>>
       ELSE isRunning(front) /\ front.op = "connect"
AllBelong(q) == \A i \in DOMAIN q : q[i].op \in OwnReports => Belongs(q[i])

ReportsBelong ==
  /\ AllBelong(reportQueue) /\ AtMostOneOwnReport(reportQueue)
  /\ AllBelong(draining) /\ AtMostOneOwnReport(draining)
  /\ NoOwnReport(reportQueue) \/ NoOwnReport(draining)

\* Ids are given in the order of the queue, without gaps; only the first action
\* is started; what has left the queue was reported, what is not done was not,
\* and nothing was reported twice.
QueueMatches(q, reports, next) ==
  /\ \A k \in DOMAIN q : q[k].id = next - Len(q) + k - 1
  /\ \A k \in DOMAIN q : q[k].op \in Ops \cup {"stopScanDone", "disconnect"}
  /\ \A k \in DOMAIN q : k > 1 => isPending(q[k])
  /\ \A k \in DOMAIN q : ~isDone(q[k]) => reports[q[k].id] = <<>>
  /\ \A i \in Ids : i < next - Len(q) => reports[i] # <<>>
  /\ \A i \in Ids : i >= next => reports[i] = <<>>
  /\ \A i \in Ids : Len(reports[i]) <= 1

\* A first action that is done was reported, or its data is due.
DoneIsReported ==
  asyncActions # <<>> /\ isDone(front) =>
    outcome[front.id] # <<>> \/ DataDue(reportQueue) \/ DataDue(draining)

ReportsInPhase ==
  /\ phase \in {"app", "events"} => draining = <<>>
  /\ phase = "reports" => ~DataDue(reportQueue)

\* The one call gattlib owes an answer to is the first action's.
CallsMatchFront ==
  \A g \in gattlib : g.op # "startScan" =>
    /\ asyncActions # <<>> /\ isRunning(front)
    /\ g = [id |-> front.id, op |-> front.op, dev |-> front.dev]
    /\ NoOwnReport(reportQueue) /\ NoOwnReport(draining)

WaitingInv ==
  /\ DoneIsReported
  /\ ReportsBelong
  /\ ReportsInPhase
  /\ CallsMatchFront

QueueInv ==
  /\ TypeOK
  /\ QueueMatches(asyncActions, outcome, nextId)
  /\ WaitingInv

-----------------------------------------------------------------------------
(* What the helpers on the queue return                                    *)

\* The first action of a queue that is not empty is its head.
LEMMA FrontLemma ==
  ASSUME asyncActions \in Seq(Actions), asyncActions # <<>>
  PROVE  front \in Actions /\ front = Head(asyncActions) /\ Len(asyncActions) \in Nat \ {0}
BY DEF front

\* withState() changes the state of the first action and nothing else.
LEMMA WithStateLemma ==
  ASSUME asyncActions \in Seq(Actions), asyncActions # <<>>,
         NEW state \in {"Pending", "Triggered", "Completed"}
  PROVE  /\ withState(state) \in Seq(Actions)
         /\ Len(withState(state)) = Len(asyncActions)
         /\ withState(state) # <<>>
         /\ withState(state)[1] = [front EXCEPT !.state = state]
         /\ \A k \in 2..Len(asyncActions) : withState(state)[k] = asyncActions[k]
<1> DEFINE q == withState(state)
<1>1. 1 \in DOMAIN asyncActions /\ front \in Actions
  BY DEF front
<1>2. q = [asyncActions EXCEPT ![1] = [front EXCEPT !.state = state]]
  BY DEF withState, front
<1>3. [front EXCEPT !.state = state] \in Actions
  BY <1>1 DEF Actions
<1>4. q \in Seq(Actions) /\ Len(q) = Len(asyncActions)
  BY <1>1, <1>2, <1>3
<1>5. QED
  BY <1>1, <1>2, <1>4

\* The new action is the last of the queue it is appended to.
LEMMA QueueLemma ==
  ASSUME BLECentralAssumption, NEW queue \in Seq(Actions), nextId \in 1..(MaxRequests + 1),
         NEW op \in QueuedOps, NEW d \in Devices \cup {None},
         queueAsyncAction(queue, op, d)
  PROVE  /\ asyncActions' \in Seq(Actions)
         /\ Len(asyncActions') = Len(queue) + 1
         /\ nextId \in Ids /\ nextId' = nextId + 1 /\ nextId' \in 1..(MaxRequests + 1)
         /\ asyncActions'[Len(queue) + 1] =
              [id |-> nextId, op |-> op, dev |-> d, state |-> "Pending"]
         /\ \A k \in 1..Len(queue) : asyncActions'[k] = queue[k]
<1> DEFINE a == [id |-> nextId, op |-> op, dev |-> d, state |-> "Pending"]
<1>1. nextId \in Ids /\ nextId' = nextId + 1 /\ asyncActions' = Append(queue, a)
  BY DEF queueAsyncAction
<1>2. a \in Actions
  BY <1>1 DEF Actions
<1>3. nextId' \in 1..(MaxRequests + 1)
  BY <1>1 DEF Ids, BLECentralAssumption
<1>4. QED
  BY <1>1, <1>2, <1>3

-----------------------------------------------------------------------------
(* Types                                                                   *)

\* A report is appended to the reports of one action.
LEMMA ReportToLemma ==
  ASSUME TypeOK, NEW id, NEW result \in {"ok", "fail", "cancelled"},
         reportTo(id, result)
  PROVE  /\ outcome' \in [Ids -> Seq({"ok", "fail", "cancelled"})]
         /\ \A i \in Ids : i # id => outcome'[i] = outcome[i]
         /\ id \in Ids /\ outcome[id] = <<>> => outcome'[id] # <<>> /\ Len(outcome'[id]) <= 1
<1> DEFINE Results == {"ok", "fail", "cancelled"}
<1>1. outcome \in [Ids -> Seq(Results)] /\ outcome' = [outcome EXCEPT ![id] = Append(@, result)]
  BY DEF TypeOK, reportTo
<1>2. \A s \in Seq(Results) : Append(s, result) \in Seq(Results)
  OBVIOUS
<1> HIDE DEF Results
<1>3. outcome' \in [Ids -> Seq(Results)]
  BY <1>1, <1>2
<1>4. \A i \in Ids : i # id => outcome'[i] = outcome[i]
  BY <1>1
<1>5. id \in Ids /\ outcome[id] = <<>> => outcome'[id] # <<>> /\ Len(outcome'[id]) <= 1
  <2>1. Append(<<>>, result) # <<>> /\ Len(Append(<<>>, result)) <= 1
    OBVIOUS
  <2>2. id \in Ids /\ outcome[id] = <<>> => outcome'[id] = Append(<<>>, result)
    BY <1>1
  <2>3. QED
    BY <2>1, <2>2
<1>6. QED
  BY <1>3, <1>4, <1>5 DEF Results

\* Marking the first action and reporting to it keeps the types.
LEMMA CompletedWithType ==
  ASSUME TypeOK, asyncActions # <<>>, NEW result \in {"ok", "fail"},
         completedWith(result)
  PROVE  /\ asyncActions' \in Seq(Actions)
         /\ appTurn' \in BOOLEAN
         /\ outcome' \in [Ids -> Seq({"ok", "fail", "cancelled"})]
<1>1. asyncActions' \in Seq(Actions)
  BY WithStateLemma DEF completedWith, TypeOK
<1>2. appTurn' \in BOOLEAN
  BY DEF completedWith
<1>3. CASE result = "ok" /\ front.op = "read"
  BY <1>1, <1>2, <1>3 DEF completedWith, TypeOK
<1>4. CASE ~(result = "ok" /\ front.op = "read")
  BY <1>1, <1>2, <1>4, ReportToLemma DEF completedWith
<1>5. QED
  BY <1>3, <1>4

\* Concluding the first action, if there is one, keeps the types.
LEMMA CurrentOpType ==
  ASSUME TypeOK, NEW result \in {"ok", "fail"}, currentOp(result)
  PROVE  /\ asyncActions' \in Seq(Actions)
         /\ appTurn' \in BOOLEAN
         /\ outcome' \in [Ids -> Seq({"ok", "fail", "cancelled"})]
<1>1. CASE asyncActions = <<>>
  BY <1>1 DEF currentOp, TypeOK
<1>2. CASE asyncActions # <<>>
  BY <1>2, CompletedWithType DEF currentOp
<1>3. QED
  BY <1>1, <1>2

\* Pushing a callback keeps the type of the report queue.
LEMMA PushReportType ==
  ASSUME TypeOK, NEW op \in {"discoverServices", "discoverCharacteristics", "connected",
                             "data", "user", "null"},
         NEW id \in Ids \cup {0}, pushReport(op, id)
  PROVE  reportQueue' \in Seq(Reports)
<1>1. [op |-> op, id |-> id] \in Reports
  BY DEF Reports
<1>2. QED
  BY <1>1 DEF pushReport, TypeOK

\* Every request of the application keeps the types.
LEMMA RequestType == BLECentralAssumption /\ TypeOK /\ Request => TypeOK'
<1> SUFFICES ASSUME BLECentralAssumption, TypeOK, Request PROVE TypeOK'
  OBVIOUS
<1> USE DEF central
<1>1. CASE AdapterOpen
  BY <1>1 DEF AdapterOpen, TypeOK
<1>2. CASE AdapterClose
  BY <1>2 DEF AdapterClose, TypeOK
<1>3. CASE SetAutoDiscoverOnConnect
  BY <1>3 DEF SetAutoDiscoverOnConnect, TypeOK
<1>4. ASSUME NEW op \in {"enable", "enableNull"}, Enable(op) PROVE TypeOK'
  <2>1. reportQueue' \in Seq(Reports)
    BY <1>4, PushReportType DEF Enable
  <2>2. QED
    BY <1>4, <2>1 DEF Enable, openAdapterIfRequired, TypeOK
<1>5. ASSUME NEW op \in ScanOps, Scan(op) PROVE TypeOK'
  <2>1. asyncActions' \in Seq(Actions) /\ nextId' \in 1..(MaxRequests + 1)
    BY <1>5, QueueLemma DEF Scan, ScanOps, QueuedOps, TypeOK
  <2>2. QED
    BY <1>5, <2>1 DEF Scan, openAdapterIfRequired, TypeOK
<1>6. CASE StopScan
  <2>1. CASE is_scanning /\ scanRuns
    <3>1. withState("Completed") \in Seq(Actions)
      BY <2>1, WithStateLemma DEF scanRuns, TypeOK
    <3>2. asyncActions' \in Seq(Actions) /\ nextId' \in 1..(MaxRequests + 1)
      BY <1>6, <2>1, <3>1, QueueLemma DEF StopScan, QueuedOps, TypeOK
    <3>3. outcome' \in [Ids -> Seq({"ok", "fail", "cancelled"})]
      BY <1>6, <2>1, ReportToLemma DEF StopScan
    <3>4. QED
      BY <1>6, <3>2, <3>3 DEF StopScan, openAdapterIfRequired, TypeOK
  <2>2. CASE ~(is_scanning /\ scanRuns)
    <3>1. asyncActions' \in Seq(Actions) /\ nextId' \in 1..(MaxRequests + 1)
      BY <1>6, <2>2, QueueLemma DEF StopScan, QueuedOps, TypeOK
    <3>2. QED
      BY <1>6, <2>2, <3>1 DEF StopScan, openAdapterIfRequired, TypeOK
  <2>3. QED
    BY <2>1, <2>2
<1>7. ASSUME NEW d \in Devices, Connect(d) PROVE TypeOK'
  <2>1. asyncActions' \in Seq(Actions) /\ nextId' \in 1..(MaxRequests + 1)
    BY <1>7, QueueLemma DEF Connect, QueuedOps, TypeOK
  <2>2. QED
    BY <1>7, <2>1 DEF Connect, openAdapterIfRequired, TypeOK
<1>8. ASSUME NEW d \in Devices, NEW op \in {"disconnect", "read", "write"},
             UseConnection(op, d)
      PROVE TypeOK'
  <2>1. asyncActions' \in Seq(Actions) /\ nextId' \in 1..(MaxRequests + 1)
    BY <1>8, QueueLemma DEF UseConnection, QueuedOps, TypeOK
  <2>2. QED
    BY <1>8, <2>1 DEF UseConnection, openAdapterIfRequired, TypeOK
<1>9. QED
  BY <1>1, <1>2, <1>3, <1>4, <1>5, <1>6, <1>7, <1>8 DEF Request, Disconnect, Read, Write

\* Every answer of gattlib keeps the types.
LEMMA DeliverType == TypeOK /\ Deliver => TypeOK'
<1> SUFFICES ASSUME TypeOK, NEW g \in gattlib, DeviceDiscovered(g) \/ Answer(g)
             PROVE TypeOK'
  BY DEF Deliver
<1> USE DEF central
<1>1. g \in Calls
  BY DEF TypeOK
<1>2. CASE DeviceDiscovered(g)
  BY <1>2 DEF DeviceDiscovered, TypeOK
<1>3. CASE ScanEnded(g)
  BY <1>3, CurrentOpType DEF ScanEnded, answers, TypeOK
<1>4. ASSUME NEW peer \in {g.dev, None}, DeviceConnected(g, peer) PROVE TypeOK'
  <2>1. peer \in Devices \cup {None}
    BY <1>1 DEF Calls
  <2>2. CASE connected_to = None
    BY <1>4, <2>2 DEF DeviceConnected, discovers, answers, TypeOK
  <2>3. CASE connected_to # None
    <3>1. connection' \in [Devices -> Devices \cup {None}]
      BY <1>4, <2>1, <2>3 DEF DeviceConnected, discovers, TypeOK
    <3>2. CASE peer # None /\ auto_discover
      <4>1. reportQueue' \in Seq(Reports)
        BY <1>4, <2>3, <3>2, PushReportType DEF DeviceConnected, discovers
      <4>2. QED
        BY <1>4, <2>3, <3>1, <3>2, <4>1 DEF DeviceConnected, discovers, answers, TypeOK
    <3>3. CASE ~(peer # None /\ auto_discover)
      <4>1. currentOp(connectResult(peer)) /\ connectResult(peer) \in {"ok", "fail"}
        BY <1>4, <2>3, <3>3 DEF DeviceConnected, discovers, connectResult
      <4>2. QED
        BY <1>4, <2>3, <3>1, <3>3, <4>1, CurrentOpType DEF DeviceConnected, discovers, answers, TypeOK
    <3>4. QED
      BY <3>2, <3>3
  <2>4. QED
    BY <2>2, <2>3
<1>5. CASE DeviceDisconnected(g)
  <2>1. connection' \in [Devices -> Devices \cup {None}] /\ connected_to' = None
    BY <1>5 DEF DeviceDisconnected, forgetConnection, TypeOK
  <2>2. QED
    BY <1>5, <2>1, CurrentOpType DEF DeviceDisconnected, answers, TypeOK
<1>6. ASSUME NEW empty, ReadAnswered(g, empty) PROVE TypeOK'
  <2>1. CASE empty \/ asyncActions = <<>>
    BY <1>6, <2>1 DEF ReadAnswered, readDataReceived, answers, TypeOK
  <2>2. CASE ~empty /\ asyncActions # <<>>
    <3>1. asyncActions' \in Seq(Actions)
      BY <1>6, <2>2, WithStateLemma DEF ReadAnswered, readDataReceived, TypeOK
    <3>2. front.id \in Ids
      BY <2>2, FrontLemma DEF TypeOK, Actions
    <3>3. reportQueue' \in Seq(Reports)
      BY <1>6, <2>2, <3>2, PushReportType DEF ReadAnswered, readDataReceived, TypeOK
    <3>4. QED
      BY <1>6, <2>2, <3>1, <3>3 DEF ReadAnswered, readDataReceived, answers, TypeOK
  <2>3. QED
    BY <2>1, <2>2
<1>7. ASSUME NEW result \in {"ok", "fail"}, WriteAnswered(g, result) PROVE TypeOK'
  BY <1>7, CurrentOpType DEF WriteAnswered, answers, TypeOK
<1>8. QED
  BY <1>2, <1>3, <1>4, <1>5, <1>6, <1>7 DEF Answer

\* Every callback of the report queue keeps the types.
LEMMA RunReportType == TypeOK /\ RunReport => TypeOK'
<1> SUFFICES ASSUME TypeOK, RunReport PROVE TypeOK'
  OBVIOUS
<1> USE DEF central
<1>0. draining # <<>> /\ draining' = Tail(draining)
  BY DEF RunReport, DiscoverServicesStep, DiscoverCharacteristicsStep, ConnectedStep,
         DataStep, UserStep, NullStep, runs
<1>1. draining' \in Seq(Reports)
  BY <1>0 DEF TypeOK
<1>2. CASE DiscoverServicesStep
  BY <1>1, <1>2, PushReportType DEF DiscoverServicesStep, runs, TypeOK
<1>3. CASE DiscoverCharacteristicsStep
  BY <1>1, <1>3, PushReportType DEF DiscoverCharacteristicsStep, runs, TypeOK
<1>4. CASE ConnectedStep
  BY <1>1, <1>4, CurrentOpType DEF ConnectedStep, runs, TypeOK
<1>5. CASE DataStep
  BY <1>1, <1>5, ReportToLemma DEF DataStep, runs, TypeOK
<1>6. CASE UserStep
  BY <1>1, <1>6 DEF UserStep, runs, TypeOK
<1>7. CASE NullStep
  BY <1>1, <1>7 DEF NullStep, runs, TypeOK
<1>8. QED
  BY <1>2, <1>3, <1>4, <1>5, <1>6, <1>7 DEF RunReport

\* The turn of the first action keeps the types.
LEMMA FrontTurnType == TypeOK /\ FrontTurn => TypeOK'
<1> SUFFICES ASSUME TypeOK, FrontTurn PROVE TypeOK'
  OBVIOUS
<1> USE DEF central, returns
<1>1. CASE TriggerAccepted
  <2>1. front \in Actions /\ asyncActions' \in Seq(Actions)
    BY <1>1, FrontLemma, WithStateLemma DEF TriggerAccepted, TypeOK
  <2>2. acceptedCalls \subseteq Calls
    BY <2>1 DEF acceptedCalls, Actions, Calls, TypeOK
  <2>3. QED
    BY <1>1, <2>1, <2>2 DEF TriggerAccepted, TypeOK
<1>2. CASE TriggerRefused
  BY <1>2, CompletedWithType DEF TriggerRefused, TypeOK
<1>3. CASE TriggerStopScanDone
  BY <1>3, CompletedWithType DEF TriggerStopScanDone, TypeOK
<1>4. CASE PopDone
  BY <1>4 DEF PopDone, TypeOK
<1>5. CASE NothingToDo
  BY <1>5 DEF NothingToDo, TypeOK
<1>6. QED
  BY <1>1, <1>2, <1>3, <1>4, <1>5 DEF FrontTurn

\* Every step keeps the types.
LEMMA TypeStep == BLECentralAssumption /\ TypeOK /\ [Next]_vars => TypeOK'
<1> SUFFICES ASSUME BLECentralAssumption, TypeOK, [Next]_vars PROVE TypeOK'
  OBVIOUS
<1>1. CASE Request
  BY <1>1, RequestType
<1>2. CASE Deliver
  BY <1>2, DeliverType
<1>3. CASE ProcessAsync
  BY <1>3 DEF ProcessAsync, central, TypeOK
<1>4. CASE TakeReports
  <2>1. reportQueue' \in Seq(Reports) /\ draining' \in Seq(Reports)
    BY <1>4 DEF TakeReports, TypeOK
  <2>2. QED
    BY <1>4, <2>1 DEF TakeReports, central, TypeOK
<1>5. CASE RunReport
  BY <1>5, RunReportType
<1>6. CASE FrontTurn
  BY <1>6, FrontTurnType
<1>7. CASE UNCHANGED vars
  BY <1>7 DEF vars, central, TypeOK
<1>8. QED
  BY <1>1, <1>2, <1>3, <1>4, <1>5, <1>6, <1>7 DEF Next, Tick

\* The constructor sets the types up.
LEMMA TypeInit == BLECentralAssumption /\ Init => TypeOK
<1> SUFFICES ASSUME BLECentralAssumption, Init PROVE TypeOK
  OBVIOUS
<1>1. nextId \in 1..(MaxRequests + 1)
  BY DEF BLECentralAssumption, Init
<1>2. connection \in [Devices -> Devices \cup {None}]
  BY DEF Init
<1>3. outcome \in [Ids -> Seq({"ok", "fail", "cancelled"})]
  BY DEF Init
<1>4. asyncActions \in Seq(Actions) /\ reportQueue \in Seq(Reports) /\ draining \in Seq(Reports)
  BY DEF Init
<1>5. QED
  BY <1>1, <1>2, <1>3, <1>4 DEF Init, TypeOK

\* Every variable keeps its type, in whatever order operations are requested:
\* no event of gattlib writes past the queue or the map of devices.
THEOREM TypeCorrect == Spec => []TypeOK
<1>1. Init => TypeOK
  BY BLECentralAssumption, TypeInit
<1>2. TypeOK /\ [Next]_vars => TypeOK'
  BY BLECentralAssumption, TypeStep
<1>3. QED
  BY <1>1, <1>2, PTL DEF Spec

-----------------------------------------------------------------------------
(* Head-of-line order, whatever the application asks for                   *)

\* A step marks the first action, appends pending ones, or pops the first.
LEMMA QueueChanges ==
  ASSUME TypeOK, [Next]_vars
  PROVE  \/ UNCHANGED <<asyncActions, nextId>>
         \/ /\ asyncActions # <<>> /\ UNCHANGED nextId
            /\ \E state \in {"Triggered", "Completed"} : asyncActions' = withState(state)
         \/ \E op \in QueuedOps, d \in Devices \cup {None} :
              \/ queueAsyncAction(asyncActions, op, d)
              \/ asyncActions # <<>> /\ queueAsyncAction(withState("Completed"), op, d)
         \/ PopDone
<1>1. CASE Request
  <2>1. CASE AdapterOpen \/ AdapterClose \/ SetAutoDiscoverOnConnect
             \/ \E op \in {"enable", "enableNull"} : Enable(op)
    BY <2>1 DEF AdapterOpen, AdapterClose, SetAutoDiscoverOnConnect, Enable
  <2>2. ASSUME NEW op \in ScanOps, Scan(op)
        PROVE  op \in QueuedOps /\ queueAsyncAction(asyncActions, op, None)
    BY <2>2 DEF Scan, QueuedOps
  <2>3. ASSUME StopScan
        PROVE  \E op \in {"stopScan", "stopScanDone"} :
                 \/ queueAsyncAction(asyncActions, op, None)
                 \/ asyncActions # <<>> /\ queueAsyncAction(withState("Completed"), op, None)
    BY <2>3 DEF StopScan, scanRuns
  <2>4. ASSUME NEW d \in Devices, Connect(d) \/ Disconnect(d) \/ Read(d) \/ Write(d)
        PROVE  \E op \in {"connect", "disconnect", "read", "write"} :
                 queueAsyncAction(asyncActions, op, d)
    BY <2>4 DEF Connect, Disconnect, Read, Write, UseConnection
  <2>5. {"stopScan", "stopScanDone", "connect", "disconnect", "read", "write"} \subseteq QueuedOps
    BY DEF QueuedOps
  <2>6. QED
    BY <1>1, <2>1, <2>2, <2>3, <2>4, <2>5 DEF Request
<1>2. ASSUME NEW result, asyncActions # <<>>, completedWith(result)
      PROVE  asyncActions' = withState("Completed")
  BY <1>2 DEF completedWith
<1>3. ASSUME NEW result, currentOp(result)
      PROVE  \/ UNCHANGED asyncActions
             \/ asyncActions # <<>> /\ asyncActions' = withState("Completed")
  BY <1>2, <1>3 DEF currentOp
<1>4. CASE Deliver
  <2>1. PICK g \in gattlib : DeviceDiscovered(g) \/ Answer(g)
    BY <1>4 DEF Deliver
  <2>2. UNCHANGED nextId
    BY <2>1 DEF DeviceDiscovered, Answer, ScanEnded, DeviceConnected, DeviceDisconnected,
       ReadAnswered, WriteAnswered
  <2>3. CASE DeviceDiscovered(g)
    BY <2>3 DEF DeviceDiscovered
  <2>4. CASE ScanEnded(g) \/ DeviceDisconnected(g)
             \/ \E result \in {"ok", "fail"} : WriteAnswered(g, result)
    BY <1>3, <2>2, <2>4 DEF ScanEnded, DeviceDisconnected, WriteAnswered
  <2>5. ASSUME NEW peer, DeviceConnected(g, peer)
        PROVE  \/ UNCHANGED asyncActions
               \/ asyncActions # <<>> /\ asyncActions' = withState("Completed")
    BY <1>3, <2>5 DEF DeviceConnected, discovers
  <2>6. ASSUME NEW empty, ReadAnswered(g, empty)
        PROVE  \/ UNCHANGED asyncActions
               \/ asyncActions # <<>> /\ asyncActions' = withState("Completed")
    BY <2>6 DEF ReadAnswered, readDataReceived
  <2>7. QED
    BY <2>1, <2>2, <2>3, <2>4, <2>5, <2>6 DEF Answer
<1>5. CASE RunReport
  <2>1. UNCHANGED nextId
    BY <1>5 DEF RunReport, DiscoverServicesStep, DiscoverCharacteristicsStep, ConnectedStep,
       DataStep, UserStep, NullStep, runs
  <2>2. QED
    BY <1>3, <1>5, <2>1 DEF RunReport, DiscoverServicesStep, DiscoverCharacteristicsStep,
       ConnectedStep, DataStep, UserStep, NullStep
<1>6. CASE FrontTurn
  BY <1>2, <1>6 DEF FrontTurn, TriggerAccepted, TriggerRefused, TriggerStopScanDone,
       NothingToDo, returns
<1>7. CASE ProcessAsync \/ TakeReports \/ UNCHANGED vars
  BY <1>7 DEF ProcessAsync, TakeReports, vars
<1>8. QED
  BY <1>1, <1>4, <1>5, <1>6, <1>7 DEF Next, Tick

\* Such a step leaves every action but the first one pending.
LEMMA FrontStep == ASSUME TypeOK, OnlyFrontStarted, [Next]_vars PROVE OnlyFrontStarted'
<1>1. asyncActions \in Seq(Actions) /\ nextId \in 1..(MaxRequests + 1)
  BY DEF TypeOK
<1>2. CASE UNCHANGED asyncActions
  BY <1>2 DEF OnlyFrontStarted
<1>3. ASSUME asyncActions # <<>>, NEW state \in {"Triggered", "Completed"},
             asyncActions' = withState(state)
      PROVE  OnlyFrontStarted'
  <2>1. /\ withState(state) \in Seq(Actions) /\ Len(withState(state)) = Len(asyncActions)
        /\ \A k \in 2..Len(asyncActions) : withState(state)[k] = asyncActions[k]
    BY <1>1, <1>3, WithStateLemma
  <2>2. SUFFICES ASSUME NEW i \in DOMAIN asyncActions', i > 1 PROVE isPending(asyncActions'[i])
    BY DEF OnlyFrontStarted
  <2>3. i \in 2..Len(asyncActions) /\ i \in DOMAIN asyncActions
    BY <1>1, <1>3, <2>1, <2>2
  <2>4. QED
    BY <1>3, <2>1, <2>2, <2>3 DEF OnlyFrontStarted
<1>4. ASSUME NEW op \in QueuedOps, NEW d \in Devices \cup {None}, NEW q \in Seq(Actions),
             \A i \in 2..Len(q) : isPending(q[i]), queueAsyncAction(q, op, d)
      PROVE  OnlyFrontStarted'
  <2> DEFINE a == [id |-> nextId, op |-> op, dev |-> d, state |-> "Pending"]
  <2>1. /\ asyncActions' \in Seq(Actions) /\ Len(asyncActions') = Len(q) + 1
        /\ asyncActions'[Len(q) + 1] = a
        /\ \A k \in 1..Len(q) : asyncActions'[k] = q[k]
    BY <1>1, <1>4, BLECentralAssumption, QueueLemma
  <2>2. isPending(a)
    BY DEF isPending
  <2>3. SUFFICES ASSUME NEW i \in DOMAIN asyncActions', i > 1 PROVE isPending(asyncActions'[i])
    BY DEF OnlyFrontStarted
  <2>4. i = Len(q) + 1 \/ i \in 2..Len(q)
    BY <2>1, <2>3
  <2> HIDE DEF a
  <2>5. QED
    BY <1>4, <2>1, <2>2, <2>4
<1>5. ASSUME NEW op \in QueuedOps, NEW d \in Devices \cup {None},
             queueAsyncAction(asyncActions, op, d)
      PROVE  OnlyFrontStarted'
  <2>1. \A i \in 2..Len(asyncActions) : i \in DOMAIN asyncActions /\ i > 1
    BY <1>1
  <2>2. QED
    BY <1>1, <1>4, <1>5, <2>1 DEF OnlyFrontStarted
<1>6. ASSUME NEW op \in QueuedOps, NEW d \in Devices \cup {None}, asyncActions # <<>>,
             queueAsyncAction(withState("Completed"), op, d)
      PROVE  OnlyFrontStarted'
  <2>1. /\ withState("Completed") \in Seq(Actions)
        /\ \A i \in 2..Len(withState("Completed")) : isPending(withState("Completed")[i])
    BY <1>1, <1>6, WithStateLemma DEF OnlyFrontStarted
  <2>2. QED
    BY <1>4, <1>6, <2>1
<1>7. CASE PopDone
  BY <1>1, <1>7 DEF PopDone, OnlyFrontStarted
<1>8. QED
  BY <1>2, <1>3, <1>5, <1>6, <1>7, QueueChanges

\* Head-of-line order of the queue: nothing behind the first action has been
\* started, whatever is asked for and in whatever order.
THEOREM FrontStartedOnly == Spec => []OnlyFrontStarted
<1>1. Init => OnlyFrontStarted
  BY DEF Init, OnlyFrontStarted
<1>2. TypeOK /\ OnlyFrontStarted /\ [Next]_vars => OnlyFrontStarted'
  BY FrontStep
<1>3. QED
  BY <1>1, <1>2, TypeCorrect, PTL DEF Spec

-----------------------------------------------------------------------------
(* What a step on the queue does to QueueMatches, for any queue q, reports  *)
(* o received so far, and number n of the next action                      *)

Results == {"ok", "fail", "cancelled"}

\* QueueMatches is kept when an action is queued.
LEMMA EnqueueMatches ==
  ASSUME NEW q \in Seq(Actions), NEW o \in [Ids -> Seq(Results)], NEW n \in Ids,
         NEW op \in Ops \cup {"stopScanDone", "disconnect"}, NEW d, QueueMatches(q, o, n)
  PROVE  QueueMatches(Append(q, [id |-> n, op |-> op, dev |-> d, state |-> "Pending"]), o, n + 1)
<1> DEFINE a == [id |-> n, op |-> op, dev |-> d, state |-> "Pending"]
<1> DEFINE q2 == Append(q, a)
<1>1. /\ DOMAIN q2 = 1..(Len(q) + 1) /\ Len(q2) = Len(q) + 1 /\ Len(q) \in Nat
      /\ \A k \in 1..Len(q) : q2[k] = q[k]
      /\ q2[Len(q) + 1] = a
  OBVIOUS
<1>2. n \in Nat /\ DOMAIN q = 1..Len(q)
  BY BLECentralAssumption DEF Ids, BLECentralAssumption
<1> HIDE DEF q2
<1>3. \A k \in DOMAIN q2 : k \in DOMAIN q \/ k = Len(q) + 1
  BY <1>1, <1>2
<1>4. ASSUME NEW k \in DOMAIN q2 PROVE q2[k].id = (n + 1) - Len(q2) + k - 1
  <2>1. CASE k \in DOMAIN q
    <3>1. q2[k].id = n - Len(q) + k - 1
      BY <1>1, <1>2, <2>1 DEF QueueMatches
    <3>2. QED
      BY <1>1, <1>2, <2>1, <3>1
  <2>2. CASE k = Len(q) + 1
    BY <1>1, <1>2, <2>2
  <2>3. QED
    BY <1>3, <2>1, <2>2
<1>5. \A k \in DOMAIN q2 : q2[k].op \in Ops \cup {"stopScanDone", "disconnect"}
  BY <1>1, <1>2, <1>3 DEF QueueMatches
<1>6. \A k \in DOMAIN q2 : k > 1 => isPending(q2[k])
  BY <1>1, <1>2, <1>3 DEF QueueMatches, isPending
<1>7. \A k \in DOMAIN q2 : ~isDone(q2[k]) => o[q2[k].id] = <<>>
  BY <1>1, <1>2, <1>3 DEF QueueMatches
<1>8. \A i \in Ids : /\ i < (n + 1) - Len(q2) => o[i] # <<>>
                     /\ i >= n + 1 => o[i] = <<>>
                     /\ Len(o[i]) <= 1
  BY <1>1, <1>2 DEF QueueMatches, Ids
<1>9. QED
  BY <1>4, <1>5, <1>6, <1>7, <1>8 DEF QueueMatches, q2

\* Starting the first action, or completing it before its report.
LEMMA MarkMatches ==
  ASSUME NEW q \in Seq(Actions), q # <<>>, NEW o \in [Ids -> Seq(Results)], NEW n \in Nat,
         NEW q2 \in Seq(Actions), NEW s,
         Len(q2) = Len(q), q2[1] = [q[1] EXCEPT !.state = s],
         \A k \in 2..Len(q) : q2[k] = q[k],
         s # "Completed" => o[q[1].id] = <<>>,
         QueueMatches(q, o, n)
  PROVE  QueueMatches(q2, o, n)
<1>1. DOMAIN q2 = 1..Len(q) /\ DOMAIN q = 1..Len(q) /\ Len(q) \in Nat /\ q[1] \in Actions
  OBVIOUS
<1>2. q2[1].id = q[1].id /\ q2[1].op = q[1].op /\ q2[1].state = s
  BY <1>1 DEF Actions
<1>3. \A k \in DOMAIN q : k = 1 \/ (k \in 2..Len(q) /\ q2[k] = q[k])
  BY <1>1
<1>4. \A k \in DOMAIN q : q2[k].id = q[k].id /\ q2[k].op = q[k].op
  BY <1>2, <1>3
<1>5. \A k \in DOMAIN q : ~isDone(q2[k]) => o[q2[k].id] = <<>>
  BY <1>2, <1>3 DEF QueueMatches, isDone
<1>6. \A k \in DOMAIN q : k > 1 => isPending(q2[k])
  <2>1. ASSUME NEW k \in DOMAIN q, k > 1 PROVE q2[k] = q[k]
    BY <1>3, <2>1
  <2>2. QED
    BY <2>1 DEF QueueMatches
<1>7. DOMAIN q2 = DOMAIN q
  BY <1>1
<1>8. QED
  BY <1>4, <1>5, <1>6, <1>7 DEF QueueMatches

\* The report of the first action, which then is done.
LEMMA ConcludeMatches ==
  ASSUME NEW q \in Seq(Actions), q # <<>>, NEW o \in [Ids -> Seq(Results)], NEW n \in Nat,
         NEW o2 \in [Ids -> Seq(Results)],
         isDone(q[1]), o[q[1].id] = <<>>,
         \A i \in Ids : i # q[1].id => o2[i] = o[i],
         o2[q[1].id] # <<>>, Len(o2[q[1].id]) <= 1,
         QueueMatches(q, o, n)
  PROVE  QueueMatches(q, o2, n)
<1>1. DOMAIN q = 1..Len(q) /\ Len(q) \in Nat /\ 1 \in DOMAIN q
  OBVIOUS
<1>2. \A k \in DOMAIN q : q[k].id \in Ids
  <2>1. \A k \in DOMAIN q : q[k] \in Actions
    OBVIOUS
  <2>2. QED
    BY <2>1 DEF Actions
<1>3. o2[q[1].id] # <<>> /\ Len(o2[q[1].id]) <= 1
  OBVIOUS
<1>4. q[1].id = n - Len(q) /\ q[1].id < n
  BY <1>1, <1>2 DEF QueueMatches, Ids
<1>5. \A k \in DOMAIN q : k # 1 => q[k].id # q[1].id
  BY <1>1, <1>4 DEF QueueMatches
<1>6. \A k \in DOMAIN q : ~isDone(q[k]) => o2[q[k].id] = <<>>
  BY <1>2, <1>5 DEF QueueMatches
<1>7. ASSUME NEW i \in Ids
      PROVE  /\ i < n - Len(q) => o2[i] # <<>>
             /\ i >= n => o2[i] = <<>>
             /\ Len(o2[i]) <= 1
  <2>1. CASE i = q[1].id
    <3>1. i = n - Len(q) /\ i < n /\ n - Len(q) \in Int /\ n \in Int
      BY <1>1, <1>4, <2>1
    <3>2. ~(i < n - Len(q)) /\ ~(i >= n)
      BY <3>1
    <3>3. QED
      BY <1>3, <2>1, <3>2
  <2>2. CASE i # q[1].id
    BY <2>2 DEF QueueMatches
  <2>3. QED
    BY <2>1, <2>2
<1>8. QED
  BY <1>3, <1>6, <1>7 DEF QueueMatches

\* Removing the first action once it was reported.
LEMMA PopMatches ==
  ASSUME NEW q \in Seq(Actions), q # <<>>, NEW o \in [Ids -> Seq(Results)], NEW n \in Nat,
         o[q[1].id] # <<>>, QueueMatches(q, o, n)
  PROVE  QueueMatches(Tail(q), o, n)
<1> DEFINE q2 == Tail(q)
<1>1. /\ Len(q) \in Nat \ {0} /\ DOMAIN q = 1..Len(q)
      /\ Len(q2) = Len(q) - 1 /\ DOMAIN q2 = 1..(Len(q) - 1)
      /\ \A k \in DOMAIN q2 : k + 1 \in DOMAIN q /\ k + 1 > 1 /\ q2[k] = q[k + 1]
  OBVIOUS
<1> HIDE DEF q2
<1>2. q[1].id = n - Len(q)
  BY <1>1 DEF QueueMatches
<1>3. \A k \in DOMAIN q2 : /\ q2[k].id = n - Len(q2) + k - 1
                           /\ q2[k].op \in Ops \cup {"stopScanDone", "disconnect"}
                           /\ isPending(q2[k])
                           /\ ~isDone(q2[k]) => o[q2[k].id] = <<>>
  BY <1>1 DEF QueueMatches
<1>4. ASSUME NEW i \in Ids, i < n - Len(q2) PROVE i < n - Len(q) \/ i = q[1].id
  <2>1. i \in Int
    BY DEF Ids
  <2>2. QED
    BY <1>1, <1>2, <1>4, <2>1
<1>5. \A i \in Ids : i < n - Len(q2) => o[i] # <<>>
  BY <1>4 DEF QueueMatches
<1>6. QED
  BY <1>3, <1>5 DEF QueueMatches, q2

-----------------------------------------------------------------------------
(* What appending to a report queue and removing its head do to it         *)

\* What a queue of callbacks holds once one is pushed.
LEMMA AppendReport ==
  ASSUME NEW q \in Seq(Reports), NEW r \in Reports
  PROVE  /\ \A i \in DOMAIN Append(q, r) :
              (i \in DOMAIN q /\ Append(q, r)[i] = q[i])
              \/ (i \notin DOMAIN q /\ Append(q, r)[i] = r)
         /\ DataDue(Append(q, r)) <=> DataDue(q) \/ r.op = "data"
         /\ NoOwnReport(q) /\ r.op \notin OwnReports => NoOwnReport(Append(q, r))
         /\ AtMostOneOwnReport(q) /\ (NoOwnReport(q) \/ r.op \notin OwnReports)
              => AtMostOneOwnReport(Append(q, r))
<1> DEFINE q2 == Append(q, r)
<1>1. /\ DOMAIN q2 = 1..(Len(q) + 1) /\ DOMAIN q = 1..Len(q) /\ Len(q) \in Nat
      /\ \A k \in 1..Len(q) : q2[k] = q[k]
      /\ q2[Len(q) + 1] = r
  OBVIOUS
<1> HIDE DEF q2
<1>2. \A i \in DOMAIN q : i \in DOMAIN q2 /\ q2[i] = q[i]
  BY <1>1
<1>3. \A i \in DOMAIN q2 : i \notin DOMAIN q => i = Len(q) + 1
  BY <1>1
<1>4. Len(q) + 1 \in DOMAIN q2 /\ q2[Len(q) + 1] = r
  BY <1>1
<1>5. \A i \in DOMAIN q2 : (i \in DOMAIN q /\ q2[i] = q[i]) \/ (i \notin DOMAIN q /\ q2[i] = r)
  BY <1>2, <1>3, <1>4
<1>6. DataDue(q2) <=> DataDue(q) \/ r.op = "data"
  BY <1>2, <1>4, <1>5 DEF DataDue
<1>7. NoOwnReport(q) /\ r.op \notin OwnReports => NoOwnReport(q2)
  BY <1>5 DEF NoOwnReport
<1>8. AtMostOneOwnReport(q) /\ (NoOwnReport(q) \/ r.op \notin OwnReports) => AtMostOneOwnReport(q2)
  BY <1>3, <1>5 DEF AtMostOneOwnReport, NoOwnReport
<1>9. QED
  BY <1>5, <1>6, <1>7, <1>8 DEF q2

\* What a queue of callbacks holds once its first one is taken.
LEMMA TailReport ==
  ASSUME NEW q \in Seq(Reports), q # <<>>
  PROVE  /\ 1 \in DOMAIN q /\ Head(q) = q[1] /\ Head(q) \in Reports
         /\ \A i \in DOMAIN Tail(q) : i + 1 \in DOMAIN q /\ Tail(q)[i] = q[i + 1]
         /\ DataDue(Tail(q)) => DataDue(q)
         /\ DataDue(q) => DataDue(Tail(q)) \/ Head(q).op = "data"
         /\ NoOwnReport(q) => NoOwnReport(Tail(q)) /\ Head(q).op \notin OwnReports
         /\ AtMostOneOwnReport(q) => AtMostOneOwnReport(Tail(q))
         /\ AtMostOneOwnReport(q) /\ Head(q).op \in OwnReports => NoOwnReport(Tail(q))
<1> DEFINE q2 == Tail(q)
<1>1. /\ DOMAIN q = 1..Len(q) /\ Len(q) \in Nat \ {0}
      /\ DOMAIN q2 = 1..(Len(q) - 1)
      /\ \A k \in 1..(Len(q) - 1) : q2[k] = q[k + 1]
      /\ Head(q) = q[1] /\ q[1] \in Reports
  OBVIOUS
<1> HIDE DEF q2
<1>2. 1 \in DOMAIN q
  BY <1>1
<1>3. \A i \in DOMAIN q2 : i + 1 \in DOMAIN q /\ i + 1 # 1 /\ q2[i] = q[i + 1]
  BY <1>1
<1>4. \A i, j \in DOMAIN q2 : i + 1 = j + 1 => i = j
  BY <1>1
<1>5. \A i \in DOMAIN q : i = 1 \/ (i - 1 \in DOMAIN q2 /\ q2[i - 1] = q[i])
  <2>1. ASSUME NEW i \in DOMAIN q, i # 1 PROVE i - 1 \in 1..(Len(q) - 1) /\ (i - 1) + 1 = i
    BY <1>1, <2>1
  <2>2. QED
    BY <1>1, <2>1
<1>6. DataDue(q2) => DataDue(q)
  BY <1>3 DEF DataDue
<1>7. DataDue(q) => DataDue(q2) \/ q[1].op = "data"
  BY <1>5 DEF DataDue
<1>8. NoOwnReport(q) => NoOwnReport(q2) /\ q[1].op \notin OwnReports
  BY <1>2, <1>3 DEF NoOwnReport
<1>9. AtMostOneOwnReport(q) => AtMostOneOwnReport(q2)
  BY <1>3, <1>4 DEF AtMostOneOwnReport
<1>10. AtMostOneOwnReport(q) /\ q[1].op \in OwnReports => NoOwnReport(q2)
  BY <1>2, <1>3 DEF AtMostOneOwnReport, NoOwnReport
<1>11. QED
  BY <1>1, <1>2, <1>3, <1>6, <1>7, <1>8, <1>9, <1>10 DEF q2

\* No callback is due, and no answer, before the first action is started.
LEMMA NothingDue ==
  ASSUME ReportsBelong, CallsMatchFront, asyncActions = <<>> \/ isPending(front)
  PROVE  /\ NoOwnReport(reportQueue) /\ NoOwnReport(draining)
         /\ \A g \in gattlib : g.op = "startScan"
BY DEF ReportsBelong, CallsMatchFront, AllBelong, Belongs, NoOwnReport, isPending, isRunning, isDone

\* A library-owned callback is never lost sight of: none owned means no data due.
LEMMA NoOwnNoData == \A q : NoOwnReport(q) => ~DataDue(q)
BY DEF NoOwnReport, DataDue, OwnReports

-----------------------------------------------------------------------------
(* Requests                                                                *)

\* A request leaves the first action and the callbacks due to it alone; on an
\* empty queue it may bring a first action, not yet started.
LEMMA RequestWaits ==
  ASSUME TypeOK, WaitingInv, UNCHANGED <<phase, outcome, draining, gattlib>>,
         \/ UNCHANGED reportQueue
         \/ \E r \in Reports : /\ r.op \notin OwnReports
                               /\ reportQueue' = Append(reportQueue, r),
         asyncActions # <<>> => asyncActions' # <<>> /\ asyncActions'[1] = asyncActions[1],
         asyncActions = <<>> => asyncActions' = <<>> \/ isPending(asyncActions'[1])
  PROVE  WaitingInv'
<1> USE DEF front
<1>1. /\ \A i \in DOMAIN reportQueue' :
           (i \in DOMAIN reportQueue /\ reportQueue'[i] = reportQueue[i])
           \/ reportQueue'[i].op \notin OwnReports
      /\ DataDue(reportQueue') <=> DataDue(reportQueue)
      /\ NoOwnReport(reportQueue) => NoOwnReport(reportQueue')
      /\ AtMostOneOwnReport(reportQueue) => AtMostOneOwnReport(reportQueue')
  <2>1. CASE UNCHANGED reportQueue
    BY <2>1
  <2>2. ASSUME NEW r \in Reports, r.op \notin OwnReports,
               reportQueue' = Append(reportQueue, r)
        PROVE  /\ \A i \in DOMAIN reportQueue' :
                    (i \in DOMAIN reportQueue /\ reportQueue'[i] = reportQueue[i])
                    \/ reportQueue'[i].op \notin OwnReports
               /\ DataDue(reportQueue') <=> DataDue(reportQueue)
               /\ NoOwnReport(reportQueue) => NoOwnReport(reportQueue')
               /\ AtMostOneOwnReport(reportQueue) => AtMostOneOwnReport(reportQueue')
    <3>1. reportQueue \in Seq(Reports) /\ r.op # "data"
      BY <2>2 DEF TypeOK, OwnReports
    <3>2. QED
      BY <2>2, <3>1, AppendReport
  <2>3. QED
    BY <2>1, <2>2
<1>2. CASE asyncActions = <<>>
  <2>1. NoOwnReport(reportQueue') /\ NoOwnReport(draining') /\ \A g \in gattlib' : g.op = "startScan"
    BY <1>1, <1>2, NothingDue DEF WaitingInv
  <2>2. AllBelong(reportQueue)' /\ AllBelong(draining)'
    BY <2>1 DEF AllBelong, NoOwnReport
  <2>3. ReportsBelong'
    BY <1>1, <2>1, <2>2 DEF WaitingInv, ReportsBelong
  <2>4. DoneIsReported'
    BY <1>2 DEF DoneIsReported, isPending, isDone
  <2>5. CallsMatchFront' /\ ReportsInPhase'
    BY <1>1, <2>1 DEF WaitingInv, CallsMatchFront, ReportsInPhase
  <2>6. QED
    BY <2>3, <2>4, <2>5 DEF WaitingInv
<1>3. CASE asyncActions # <<>>
  <2>1. asyncActions' # <<>> /\ front' = front
    BY <1>3
  <2>2. AllBelong(reportQueue)' /\ AllBelong(draining)'
    BY <1>1, <1>3, <2>1 DEF WaitingInv, ReportsBelong, AllBelong, Belongs
  <2>3. ReportsBelong'
    BY <1>1, <2>2 DEF WaitingInv, ReportsBelong
  <2>4. DoneIsReported'
    BY <1>1, <1>3, <2>1 DEF WaitingInv, DoneIsReported
  <2>5. CallsMatchFront' /\ ReportsInPhase'
    BY <1>1, <1>3, <2>1 DEF WaitingInv, CallsMatchFront, ReportsInPhase
  <2>6. QED
    BY <2>3, <2>4, <2>5 DEF WaitingInv
<1>4. QED
  BY <1>2, <1>3

\* Queueing an action keeps the invariant.
LEMMA QueueingInv ==
  ASSUME QueueInv, TypeOK', NEW op \in (Ops \cup {"stopScanDone", "disconnect"}) \cap QueuedOps,
         NEW d \in Devices \cup {None}, queueAsyncAction(asyncActions, op, d),
         UNCHANGED <<phase, outcome, reportQueue, draining, gattlib>>
  PROVE  QueueInv'
<1> DEFINE a == [id |-> nextId, op |-> op, dev |-> d, state |-> "Pending"]
<1>1. TypeOK /\ WaitingInv /\ QueueMatches(asyncActions, outcome, nextId)
  BY DEF QueueInv
<1>2. nextId \in Ids /\ nextId' = nextId + 1 /\ asyncActions' = Append(asyncActions, a)
  BY DEF queueAsyncAction
<1>3. asyncActions \in Seq(Actions) /\ outcome \in [Ids -> Seq(Results)] /\ outcome' = outcome
  BY <1>1 DEF TypeOK, Results
<1>4. QueueMatches(asyncActions', outcome', nextId')
  BY <1>1, <1>2, <1>3, EnqueueMatches
<1>5. asyncActions # <<>> => asyncActions' # <<>> /\ asyncActions'[1] = asyncActions[1]
  BY <1>2, <1>3
<1>6. asyncActions = <<>> => isPending(asyncActions'[1])
  BY <1>2, <1>3 DEF isPending
<1>7. WaitingInv'
  BY <1>1, <1>5, <1>6, RequestWaits
<1>8. QED
  BY <1>4, <1>7 DEF QueueInv

\* With no callback of the library due and no answer owed, what is left to show.
LEMMA NothingOwed ==
  ASSUME NoOwnReport(reportQueue'), NoOwnReport(draining'),
         \A g \in gattlib' : g.op = "startScan",
         DoneIsReported', phase' \in {"app", "events"} => draining' = <<>>
  PROVE  WaitingInv'
<1>1. AllBelong(reportQueue)' /\ AllBelong(draining)'
  BY DEF AllBelong, NoOwnReport
<1>2. AtMostOneOwnReport(reportQueue') /\ AtMostOneOwnReport(draining')
  BY DEF AtMostOneOwnReport, NoOwnReport
<1>3. ReportsBelong'
  BY <1>1, <1>2 DEF ReportsBelong
<1>4. CallsMatchFront' /\ ReportsInPhase'
  BY NoOwnNoData DEF CallsMatchFront, ReportsInPhase
<1>5. QED
  BY <1>3, <1>4 DEF WaitingInv

\* Cutting short the running scan: it has no time limit, so gattlib owes it no answer.
LEMMA CancelInv ==
  ASSUME BLECentralAssumption, NoTimedCancel, QueueInv, TypeOK', StopScan, is_scanning /\ scanRuns
  PROVE  QueueInv'
<1> DEFINE q == withState("Completed")
           a == [id |-> nextId, op |-> "stopScan", dev |-> None, state |-> "Pending"]
<1>1. TypeOK /\ WaitingInv /\ QueueMatches(asyncActions, outcome, nextId)
  BY DEF QueueInv
<1>2. /\ asyncActions # <<>> /\ asyncActions \in Seq(Actions) /\ isRunning(front)
      /\ front = asyncActions[1] /\ front \in Actions
      /\ outcome \in [Ids -> Seq(Results)] /\ outcome' \in [Ids -> Seq(Results)]
      /\ nextId \in Nat
  BY <1>1, FrontLemma DEF scanRuns, TypeOK, Results, front
<1>3. 1 \in DOMAIN asyncActions
  BY <1>2
<1>4. front.op = "startScan"
  BY <1>1, <1>2, <1>3 DEF QueueMatches, StopScan, MayStopScan, NoTimedCancel, scanRuns, ScanOps
<1>5. outcome[front.id] = <<>> /\ front.id \in Ids
  BY <1>1, <1>2, <1>3 DEF QueueMatches, isRunning, isDone, Actions
<1>6. /\ q \in Seq(Actions) /\ Len(q) = Len(asyncActions) /\ q # <<>>
      /\ q[1] = [front EXCEPT !.state = "Completed"]
      /\ \A k \in 2..Len(asyncActions) : q[k] = asyncActions[k]
  BY <1>2, WithStateLemma
<1>7. q[1].id = front.id /\ isDone(q[1])
  BY <1>2, <1>6 DEF Actions, isDone
<1> HIDE DEF q
<1>8. QueueMatches(q, outcome, nextId)
  BY <1>1, <1>2, <1>6, MarkMatches
<1>9. /\ nextId \in Ids /\ nextId' = nextId + 1 /\ asyncActions' = Append(q, a)
      /\ reportTo(front.id, "cancelled")
  BY DEF StopScan, queueAsyncAction, q
<1>10. /\ outcome[q[1].id] = <<>>
       /\ \A i \in Ids : i # q[1].id => outcome'[i] = outcome[i]
       /\ outcome'[q[1].id] # <<>> /\ Len(outcome'[q[1].id]) <= 1
  BY <1>1, <1>5, <1>7, <1>9, ReportToLemma
<1>11. QueueMatches(q, outcome', nextId)
  BY <1>2, <1>6, <1>7, <1>8, <1>10, ConcludeMatches
<1>12. QueueMatches(asyncActions', outcome', nextId')
  BY <1>2, <1>6, <1>9, <1>11, EnqueueMatches DEF StopScan, MayStopScan
<1>13. front' = q[1]
  BY <1>6, <1>9 DEF front
<1>14. /\ NoOwnReport(reportQueue') /\ NoOwnReport(draining')
       /\ \A g \in gattlib' : g.op = "startScan"
  BY <1>1, <1>2, <1>4 DEF StopScan, WaitingInv, ReportsBelong, AllBelong, Belongs, NoOwnReport,
                          CallsMatchFront, isRunning, isDone
<1>15. DoneIsReported'
  BY <1>10, <1>13 DEF DoneIsReported
<1>16. phase' \in {"app", "events"} => draining' = <<>>
  BY <1>1 DEF StopScan, WaitingInv, ReportsInPhase
<1>17. WaitingInv'
  BY <1>14, <1>15, <1>16, NothingOwed
<1>18. QED
  BY <1>12, <1>17 DEF QueueInv

\* Every request of the application keeps QueueInv.
LEMMA RequestInv ==
  ASSUME BLECentralAssumption, NoTimedCancel, QueueInv, Request, TypeOK'
  PROVE  QueueInv'
<1>1. TypeOK /\ WaitingInv /\ QueueMatches(asyncActions, outcome, nextId)
  BY DEF QueueInv
<1>2. CASE AdapterOpen \/ AdapterClose \/ SetAutoDiscoverOnConnect
  <2>1. UNCHANGED <<phase, asyncActions, outcome, nextId, reportQueue, draining, gattlib>>
    BY <1>2 DEF AdapterOpen, AdapterClose, SetAutoDiscoverOnConnect
  <2>2. WaitingInv'
    BY <1>1, <2>1, RequestWaits
  <2>3. QED
    BY <1>1, <2>1, <2>2 DEF QueueInv
<1>3. ASSUME NEW op \in {"enable", "enableNull"}, Enable(op) PROVE QueueInv'
  <2>1. UNCHANGED <<phase, asyncActions, outcome, nextId, draining, gattlib>>
    BY <1>3 DEF Enable
  <2>2. \E r \in Reports : r.op \notin OwnReports /\ reportQueue' = Append(reportQueue, r)
    <3>1. [op |-> IF op = "enableNull" THEN "null" ELSE "user", id |-> 0] \in Reports
      BY DEF Reports
    <3>2. QED
      BY <1>3, <3>1 DEF Enable, pushReport, OwnReports, ConnectSteps
  <2>3. WaitingInv'
    BY <1>1, <2>1, <2>2, RequestWaits
  <2>4. QED
    BY <1>1, <2>1, <2>3 DEF QueueInv
<1>4. ASSUME NEW op \in ScanOps, Scan(op) PROVE QueueInv'
  BY <1>4, QueueingInv DEF Scan, MayRequest, ScanOps, QueuedOps
<1>5. CASE StopScan
  <2>1. CASE is_scanning /\ scanRuns
    BY <1>5, <2>1, CancelInv
  <2>2. CASE ~(is_scanning /\ scanRuns)
    <3>1. "stopScan" \in Ops
      BY <1>5 DEF StopScan, MayStopScan
    <3>2. CASE is_scanning
      BY <1>5, <2>2, <3>1, <3>2, QueueingInv DEF StopScan, QueuedOps
    <3>3. CASE ~is_scanning
      BY <1>5, <2>2, <3>1, <3>3, QueueingInv DEF StopScan, QueuedOps
    <3>4. QED
      BY <3>2, <3>3
  <2>3. QED
    BY <2>1, <2>2
<1>6. ASSUME NEW d \in Devices, Connect(d) PROVE QueueInv'
  BY <1>6, QueueingInv DEF Connect, MayRequest, QueuedOps
<1>7. ASSUME NEW d \in Devices, NEW op \in {"disconnect", "read", "write"}, UseConnection(op, d)
      PROVE QueueInv'
  BY <1>7, QueueingInv DEF UseConnection, MayRequest, QueuedOps
<1>8. QED
  BY <1>2, <1>3, <1>4, <1>5, <1>6, <1>7 DEF Request, Disconnect, Read, Write

-----------------------------------------------------------------------------
(* Answers of gattlib                                                      *)

\* The first action, not yet done, is marked completed and its callback called.
LEMMA ConcludedQueue ==
  ASSUME QueueInv, TypeOK', asyncActions # <<>>, ~isDone(front), nextId' = nextId,
         NEW result \in {"ok", "fail"}, result = "ok" => front.op # "read",
         completedWith(result)
  PROVE  QueueMatches(asyncActions', outcome', nextId') /\ DoneIsReported'
<1>1. TypeOK /\ QueueMatches(asyncActions, outcome, nextId)
  BY DEF QueueInv
<1>2. /\ asyncActions \in Seq(Actions) /\ front = asyncActions[1] /\ front \in Actions
      /\ outcome \in [Ids -> Seq(Results)] /\ outcome' \in [Ids -> Seq(Results)]
      /\ nextId \in Nat /\ 1 \in DOMAIN asyncActions
  BY <1>1, FrontLemma DEF TypeOK, Results, front
<1>3. /\ asyncActions' \in Seq(Actions) /\ Len(asyncActions') = Len(asyncActions)
      /\ asyncActions' # <<>>
      /\ asyncActions'[1] = [asyncActions[1] EXCEPT !.state = "Completed"]
      /\ \A k \in 2..Len(asyncActions) : asyncActions'[k] = asyncActions[k]
  BY <1>2, WithStateLemma DEF completedWith
<1>4. asyncActions'[1].id = asyncActions[1].id /\ isDone(asyncActions'[1])
  BY <1>2, <1>3 DEF Actions, isDone
<1>5. outcome[asyncActions[1].id] = <<>> /\ front.id \in Ids
  BY <1>1, <1>2 DEF QueueMatches, Actions
<1>6. QueueMatches(asyncActions', outcome, nextId)
  BY <1>1, <1>2, <1>3, MarkMatches
<1>7. reportTo(front.id, result)
  BY DEF completedWith
<1>8. /\ \A i \in Ids : i # asyncActions'[1].id => outcome'[i] = outcome[i]
      /\ outcome[asyncActions'[1].id] = <<>>
      /\ outcome'[asyncActions'[1].id] # <<>> /\ Len(outcome'[asyncActions'[1].id]) <= 1
  BY <1>1, <1>2, <1>4, <1>5, <1>7, ReportToLemma
<1>9. QueueMatches(asyncActions', outcome', nextId)
  BY <1>2, <1>3, <1>4, <1>6, <1>8, ConcludeMatches
<1>10. DoneIsReported'
  BY <1>3, <1>8 DEF DoneIsReported, front
<1>11. QED
  BY <1>9, <1>10

\* What an answer to any call but startScan finds: the action it is for.
LEMMA AnswerFinds ==
  ASSUME QueueInv, NEW g \in gattlib, g.op # "startScan", answers(g)
  PROVE  /\ asyncActions # <<>> /\ isRunning(front) /\ g.id = front.id /\ g.op = front.op
         /\ NoOwnReport(reportQueue) /\ NoOwnReport(draining) /\ draining = <<>>
         /\ \A h \in gattlib' : h.op = "startScan"
         /\ gattlib' \subseteq gattlib /\ phase = "events"
<1>1. WaitingInv
  BY DEF QueueInv
<1>2. \A h \in gattlib : h.op # "startScan" => h = g
  BY <1>1 DEF WaitingInv, CallsMatchFront
<1>3. gattlib' = gattlib \ {g} /\ phase = "events"
  BY DEF answers
<1>4. QED
  BY <1>1, <1>2, <1>3 DEF WaitingInv, CallsMatchFront, ReportsInPhase

\* An answer that concludes the first action keeps QueueInv.
LEMMA AnswerConcludes ==
  ASSUME QueueInv, TypeOK', NEW g \in gattlib, g.op \notin {"startScan", "read"}, answers(g),
         NEW result \in {"ok", "fail"}, currentOp(result),
         UNCHANGED <<phase, reportQueue, draining, nextId>>
  PROVE  QueueInv'
<1>1. /\ asyncActions # <<>> /\ ~isDone(front) /\ front.op # "read"
      /\ NoOwnReport(reportQueue') /\ NoOwnReport(draining') /\ draining' = <<>>
      /\ \A h \in gattlib' : h.op = "startScan"
  BY AnswerFinds DEF isRunning, isDone
<1>2. completedWith(result)
  BY <1>1 DEF currentOp
<1>3. QueueMatches(asyncActions', outcome', nextId') /\ DoneIsReported'
  BY <1>1, <1>2, ConcludedQueue
<1>4. WaitingInv'
  BY <1>1, <1>3, NothingOwed
<1>5. QED
  BY <1>3, <1>4 DEF QueueInv

\* Answers that leave the actions alone: no data, no device to connect.
LEMMA AnswerIgnored ==
  ASSUME QueueInv, TypeOK', NEW g \in gattlib, g.op # "startScan", answers(g),
         UNCHANGED <<asyncActions, outcome, reportQueue, draining, nextId>>
  PROVE  QueueInv'
<1>1. /\ NoOwnReport(reportQueue') /\ NoOwnReport(draining') /\ draining' = <<>>
      /\ \A h \in gattlib' : h.op = "startScan"
  BY AnswerFinds
<1>2. QueueMatches(asyncActions', outcome', nextId') /\ DoneIsReported'
  BY DEF QueueInv, WaitingInv, DoneIsReported, front
<1>3. WaitingInv'
  BY <1>1, <1>2, NothingOwed
<1>4. QED
  BY <1>2, <1>3 DEF QueueInv

\* A connection is there: its first step is put off to the report queue.
LEMMA DiscoveryBegins ==
  ASSUME QueueInv, TypeOK', NEW g \in gattlib, g.op = "connect", answers(g),
         pushReport("discoverServices", 0),
         UNCHANGED <<phase, asyncActions, outcome, draining, nextId>>
  PROVE  QueueInv'
<1> DEFINE r == [op |-> "discoverServices", id |-> 0]
<1>1. /\ asyncActions # <<>> /\ isRunning(front) /\ front.op = "connect"
      /\ NoOwnReport(reportQueue) /\ NoOwnReport(draining) /\ draining = <<>>
      /\ \A h \in gattlib' : h.op = "startScan"
  BY AnswerFinds
<1>2. reportQueue \in Seq(Reports) /\ r \in Reports /\ reportQueue' = Append(reportQueue, r)
  BY DEF pushReport, Reports, QueueInv, TypeOK
<1>3. QueueMatches(asyncActions', outcome', nextId') /\ front' = front
  BY DEF QueueInv, front
<1>4. AllBelong(reportQueue)' /\ AllBelong(draining)'
  BY <1>1, <1>2, <1>3, AppendReport DEF AllBelong, Belongs, NoOwnReport
<1>5. ReportsBelong'
  BY <1>1, <1>2, <1>4, AppendReport DEF ReportsBelong, NoOwnReport, AtMostOneOwnReport
<1>6. DoneIsReported'
  BY <1>1, <1>3 DEF DoneIsReported, isDone, isRunning
<1>7. ReportsInPhase' /\ CallsMatchFront'
  BY <1>1, AnswerFinds DEF ReportsInPhase, CallsMatchFront
<1>8. QED
  BY <1>3, <1>5, <1>6, <1>7 DEF QueueInv, WaitingInv

\* The data of a read: the action is done, its callback put off.
LEMMA ReadInv ==
  ASSUME QueueInv, TypeOK', NEW g \in gattlib, g.op = "read", answers(g), readDataReceived,
         UNCHANGED <<phase, draining, nextId>>
  PROVE  QueueInv'
<1> DEFINE r == [op |-> "data", id |-> front.id]
<1>1. TypeOK /\ QueueMatches(asyncActions, outcome, nextId)
  BY DEF QueueInv
<1>2. /\ asyncActions # <<>> /\ isRunning(front) /\ front.op = "read" /\ phase = "events"
      /\ NoOwnReport(reportQueue) /\ NoOwnReport(draining) /\ draining = <<>>
      /\ \A h \in gattlib' : h.op = "startScan"
  BY AnswerFinds
<1>3. /\ asyncActions \in Seq(Actions) /\ front = asyncActions[1] /\ front \in Actions
      /\ outcome \in [Ids -> Seq(Results)] /\ nextId \in Nat /\ 1 \in DOMAIN asyncActions
  BY <1>1, <1>2, FrontLemma DEF TypeOK, Results, front
<1>4. /\ outcome' = outcome /\ asyncActions' = withState("Completed")
      /\ reportQueue' = Append(reportQueue, r)
  BY <1>2 DEF readDataReceived, pushReport
<1>5. /\ asyncActions' \in Seq(Actions) /\ Len(asyncActions') = Len(asyncActions)
      /\ asyncActions' # <<>>
      /\ asyncActions'[1] = [asyncActions[1] EXCEPT !.state = "Completed"]
      /\ \A k \in 2..Len(asyncActions) : asyncActions'[k] = asyncActions[k]
  BY <1>2, <1>3, <1>4, WithStateLemma
<1>6. QueueMatches(asyncActions', outcome', nextId')
  BY <1>1, <1>2, <1>3, <1>4, <1>5, MarkMatches
<1>7. isDone(front') /\ front'.op = "read" /\ front'.id = front.id /\ outcome'[front.id] = <<>>
  BY <1>1, <1>2, <1>3, <1>4, <1>5 DEF front, isDone, isRunning, Actions, QueueMatches
<1>8. reportQueue \in Seq(Reports) /\ r \in Reports
  BY <1>1, <1>3 DEF Reports, Actions, TypeOK
<1>9. AllBelong(reportQueue)' /\ AllBelong(draining)'
  BY <1>2, <1>4, <1>5, <1>7, <1>8, AppendReport DEF AllBelong, Belongs, NoOwnReport
<1>10. ReportsBelong'
  BY <1>2, <1>4, <1>8, <1>9, AppendReport DEF ReportsBelong, NoOwnReport, AtMostOneOwnReport
<1>11. DoneIsReported'
  BY <1>4, <1>8, AppendReport DEF DoneIsReported
<1>12. ReportsInPhase' /\ CallsMatchFront'
  BY <1>2 DEF ReportsInPhase, CallsMatchFront
<1>13. QED
  BY <1>6, <1>10, <1>11, <1>12 DEF QueueInv, WaitingInv

\* Every answer of gattlib keeps QueueInv.
LEMMA DeliverInv == ASSUME QueueInv, Deliver, TypeOK' PROVE QueueInv'
<1> SUFFICES ASSUME NEW g \in gattlib, DeviceDiscovered(g) \/ Answer(g) PROVE QueueInv'
  BY DEF Deliver
<1>1. CASE DeviceDiscovered(g)
  <2>1. UNCHANGED <<phase, asyncActions, outcome, reportQueue, draining, gattlib, nextId>>
    BY <1>1 DEF DeviceDiscovered
  <2>2. WaitingInv'
    BY <2>1, RequestWaits DEF QueueInv
  <2>3. QED
    BY <2>1, <2>2 DEF QueueInv
<1>2. CASE ScanEnded(g)
  BY <1>2, AnswerConcludes DEF ScanEnded
<1>3. ASSUME NEW peer \in {g.dev, None}, DeviceConnected(g, peer) PROVE QueueInv'
  <2>1. g.op = "connect" /\ answers(g) /\ UNCHANGED <<draining, nextId>>
    BY <1>3 DEF DeviceConnected, discovers
  <2>2. CASE connected_to = None
    BY <1>3, <2>1, <2>2, AnswerIgnored DEF DeviceConnected, discovers
  <2>3. CASE connected_to # None /\ peer # None /\ auto_discover
    BY <1>3, <2>1, <2>3, DiscoveryBegins DEF DeviceConnected, discovers
  <2>4. CASE connected_to # None /\ ~(peer # None /\ auto_discover)
    <3>1. currentOp(connectResult(peer)) /\ UNCHANGED <<phase, reportQueue>>
      BY <1>3, <2>4 DEF DeviceConnected, discovers
    <3>2. QED
      BY <2>1, <3>1, AnswerConcludes DEF connectResult
  <2>5. QED
    BY <2>2, <2>3, <2>4
<1>4. CASE DeviceDisconnected(g)
  BY <1>4, AnswerConcludes DEF DeviceDisconnected
<1>5. ASSUME NEW empty, ReadAnswered(g, empty) PROVE QueueInv'
  BY <1>5, AnswerIgnored, ReadInv DEF ReadAnswered
<1>6. ASSUME NEW result \in {"ok", "fail"}, WriteAnswered(g, result) PROVE QueueInv'
  BY <1>6, AnswerConcludes DEF WriteAnswered
<1>7. QED
  BY <1>1, <1>2, <1>3, <1>4, <1>5, <1>6 DEF Answer

-----------------------------------------------------------------------------
(* The report queue                                                        *)

\* Taking the local copy of the report queue keeps QueueInv.
LEMMA TakeReportsInv == ASSUME QueueInv, TakeReports, TypeOK' PROVE QueueInv'
<1>1. /\ WaitingInv /\ draining = <<>> /\ phase' = "reports"
      /\ draining' = reportQueue /\ reportQueue' = <<>>
      /\ UNCHANGED <<asyncActions, outcome, nextId, gattlib>>
  BY DEF QueueInv, WaitingInv, ReportsInPhase, TakeReports
<1>2. /\ ~DataDue(draining) /\ ~DataDue(reportQueue') /\ NoOwnReport(reportQueue')
      /\ AllBelong(reportQueue)' /\ AtMostOneOwnReport(reportQueue')
  BY <1>1 DEF DataDue, NoOwnReport, AllBelong, AtMostOneOwnReport
<1>3. DoneIsReported'
  BY <1>1, <1>2 DEF WaitingInv, DoneIsReported, front
<1>4. AllBelong(draining)' /\ AtMostOneOwnReport(draining')
  BY <1>1 DEF WaitingInv, ReportsBelong, AllBelong, Belongs, front
<1>5. ReportsBelong' /\ ReportsInPhase'
  BY <1>1, <1>2, <1>4 DEF ReportsBelong, ReportsInPhase
<1>6. CallsMatchFront'
  BY <1>1, <1>2 DEF WaitingInv, CallsMatchFront, front
<1>7. QED
  BY <1>1, <1>3, <1>5, <1>6 DEF QueueInv, WaitingInv

\* The first action is waiting for the callback of the library that runs, and
\* for nothing else.
LEMMA OwnReportRuns ==
  ASSUME QueueInv, NEW op \in OwnReports, runs(op)
  PROVE  /\ Head(draining).op = op /\ Belongs(Head(draining))
         /\ NoOwnReport(reportQueue) /\ NoOwnReport(draining')
         /\ \A g \in gattlib' : g.op = "startScan"
         /\ phase = "reports"
<1>1. /\ phase = "reports" /\ draining # <<>> /\ Head(draining).op = op
      /\ draining' = Tail(draining) /\ gattlib' = gattlib
  BY DEF runs
<1>2. draining \in Seq(Reports) /\ ReportsBelong /\ CallsMatchFront
  BY DEF QueueInv, TypeOK, WaitingInv
<1>3. 1 \in DOMAIN draining /\ Head(draining) = draining[1]
  BY <1>1, <1>2, TailReport
<1>4. ~NoOwnReport(draining)
  BY <1>1, <1>2, TailReport
<1>5. NoOwnReport(draining')
  BY <1>1, <1>2, TailReport DEF ReportsBelong
<1>6. Belongs(Head(draining))
  BY <1>1, <1>2, <1>3 DEF ReportsBelong, AllBelong
<1>7. QED
  BY <1>1, <1>2, <1>4, <1>5, <1>6 DEF ReportsBelong, CallsMatchFront

\* A step of a connection puts off the next one.
LEMMA ConnectStepInv ==
  ASSUME QueueInv, TypeOK', NEW op \in ConnectSteps, runs(op),
         NEW step \in ConnectSteps, pushReport(step, 0),
         UNCHANGED <<phase, asyncActions, outcome>>
  PROVE  QueueInv'
<1> DEFINE r == [op |-> step, id |-> 0]
<1>1. op \in OwnReports /\ op # "data"
  BY DEF OwnReports, ConnectSteps
<1>2. /\ asyncActions # <<>> /\ isRunning(front) /\ front.op = "connect"
      /\ NoOwnReport(reportQueue) /\ NoOwnReport(draining') /\ phase = "reports"
      /\ \A g \in gattlib' : g.op = "startScan"
  BY <1>1, OwnReportRuns DEF Belongs
<1>3. /\ reportQueue \in Seq(Reports) /\ r \in Reports /\ reportQueue' = Append(reportQueue, r)
      /\ r.op \in OwnReports /\ r.op # "data"
  BY DEF pushReport, Reports, QueueInv, TypeOK, OwnReports, ConnectSteps
<1>4. QueueMatches(asyncActions', outcome', nextId') /\ front' = front
  BY DEF QueueInv, front, runs
<1>5. AllBelong(reportQueue)' /\ AllBelong(draining)'
  BY <1>2, <1>3, <1>4, AppendReport DEF AllBelong, Belongs, NoOwnReport
<1>6. ReportsBelong'
  BY <1>2, <1>3, <1>5, AppendReport DEF ReportsBelong, NoOwnReport, AtMostOneOwnReport
<1>7. DoneIsReported'
  BY <1>2, <1>4 DEF DoneIsReported, isDone, isRunning
<1>8. ~DataDue(reportQueue')
  BY <1>2, <1>3, AppendReport, NoOwnNoData
<1>9. ReportsInPhase' /\ CallsMatchFront'
  BY <1>2, <1>8 DEF ReportsInPhase, CallsMatchFront
<1>10. QED
  BY <1>4, <1>6, <1>7, <1>9 DEF QueueInv, WaitingInv

\* The end of a discovery, which concludes its connect, keeps QueueInv.
LEMMA ConnectedStepInv == ASSUME QueueInv, ConnectedStep, TypeOK' PROVE QueueInv'
<1>1. runs("connected") /\ currentOp("ok") /\ UNCHANGED <<phase, reportQueue, nextId>>
  BY DEF ConnectedStep, runs
<1>2. /\ asyncActions # <<>> /\ isRunning(front) /\ front.op = "connect"
      /\ NoOwnReport(reportQueue') /\ NoOwnReport(draining') /\ phase' = "reports"
      /\ \A g \in gattlib' : g.op = "startScan"
  BY <1>1, OwnReportRuns DEF Belongs, OwnReports, ConnectSteps
<1>3. QueueMatches(asyncActions', outcome', nextId') /\ DoneIsReported'
  BY <1>1, <1>2, ConcludedQueue DEF currentOp, isRunning, isDone
<1>4. WaitingInv'
  BY <1>2, <1>3, NothingOwed
<1>5. QED
  BY <1>3, <1>4 DEF QueueInv

\* The data callback is the report of the first action, a read that is done.
LEMMA DataStepInv == ASSUME QueueInv, DataStep, TypeOK' PROVE QueueInv'
<1>1. TypeOK /\ QueueMatches(asyncActions, outcome, nextId)
  BY DEF QueueInv
<1>2. /\ runs("data") /\ reportTo(Head(draining).id, "ok")
      /\ UNCHANGED <<phase, asyncActions, reportQueue, nextId>>
  BY DEF DataStep, runs
<1>3. /\ asyncActions # <<>> /\ isDone(front) /\ front.id = Head(draining).id
      /\ outcome[front.id] = <<>>
      /\ NoOwnReport(reportQueue') /\ NoOwnReport(draining') /\ phase' = "reports"
      /\ \A g \in gattlib' : g.op = "startScan"
  BY <1>2, OwnReportRuns DEF Belongs, OwnReports
<1>4. /\ asyncActions \in Seq(Actions) /\ front = asyncActions[1] /\ front.id \in Ids
      /\ outcome \in [Ids -> Seq(Results)] /\ outcome' \in [Ids -> Seq(Results)]
      /\ nextId \in Nat
  <2>1. asyncActions \in Seq(Actions) /\ front = asyncActions[1] /\ front \in Actions
    BY <1>1, <1>3, FrontLemma DEF TypeOK, front
  <2>2. front.id \in Ids
    BY <2>1 DEF Actions
  <2>3. QED
    BY <1>1, <2>1, <2>2 DEF TypeOK, Results
<1>5. /\ \A i \in Ids : i # asyncActions[1].id => outcome'[i] = outcome[i]
      /\ outcome'[asyncActions[1].id] # <<>> /\ Len(outcome'[asyncActions[1].id]) <= 1
  BY <1>1, <1>2, <1>3, <1>4, ReportToLemma
<1>6. QueueMatches(asyncActions, outcome', nextId)
  BY <1>1, <1>3, <1>4, <1>5, ConcludeMatches
<1>7. DoneIsReported'
  BY <1>2, <1>5 DEF DoneIsReported, front
<1>8. WaitingInv'
  BY <1>3, <1>7, NothingOwed
<1>9. QED
  BY <1>2, <1>6, <1>8 DEF QueueInv

\* A callback of the application is none of the queue's.
LEMMA UserReportInv ==
  ASSUME QueueInv, TypeOK', NEW op \in {"user", "null"}, runs(op), phase' \in {"reports", "crashed"},
         UNCHANGED <<asyncActions, reportQueue, outcome>>
  PROVE  QueueInv'
<1>1. /\ phase = "reports" /\ draining # <<>> /\ draining' = Tail(draining)
      /\ Head(draining).op = op /\ UNCHANGED <<gattlib, nextId>>
  BY DEF runs
<1>2. draining \in Seq(Reports) /\ WaitingInv /\ op \notin OwnReports /\ op # "data"
  BY DEF QueueInv, TypeOK, OwnReports, ConnectSteps
<1>3. front' = front /\ QueueMatches(asyncActions', outcome', nextId')
  BY <1>1 DEF front, QueueInv
<1>4. DataDue(draining) <=> DataDue(draining')
  BY <1>1, <1>2, TailReport
<1>5. NoOwnReport(draining) => NoOwnReport(draining')
  BY <1>1, <1>2, TailReport
<1>6. AtMostOneOwnReport(draining') /\ AllBelong(draining)'
  BY <1>1, <1>2, <1>3, TailReport DEF WaitingInv, ReportsBelong, AllBelong, Belongs
<1>7. AllBelong(reportQueue)'
  BY <1>2, <1>3 DEF WaitingInv, ReportsBelong, AllBelong, Belongs
<1>8. ReportsBelong'
  BY <1>2, <1>5, <1>6, <1>7 DEF WaitingInv, ReportsBelong
<1>9. DoneIsReported'
  BY <1>2, <1>3, <1>4 DEF WaitingInv, DoneIsReported
<1>10. ReportsInPhase' /\ CallsMatchFront'
  BY <1>1, <1>2, <1>3, <1>5 DEF WaitingInv, ReportsInPhase, CallsMatchFront
<1>11. QED
  BY <1>3, <1>8, <1>9, <1>10 DEF QueueInv, WaitingInv

\* Every callback of the report queue keeps QueueInv.
LEMMA RunReportInv == ASSUME QueueInv, RunReport, TypeOK' PROVE QueueInv'
<1>1. CASE DiscoverServicesStep
  BY <1>1, ConnectStepInv DEF DiscoverServicesStep, ConnectSteps
<1>2. CASE DiscoverCharacteristicsStep
  BY <1>2, ConnectStepInv DEF DiscoverCharacteristicsStep, ConnectSteps
<1>3. CASE ConnectedStep
  BY <1>3, ConnectedStepInv
<1>4. CASE DataStep
  BY <1>4, DataStepInv
<1>5. CASE UserStep
  BY <1>5, UserReportInv DEF UserStep, runs
<1>6. CASE NullStep
  BY <1>6, UserReportInv DEF NullStep, runs
<1>7. QED
  BY <1>1, <1>2, <1>3, <1>4, <1>5, <1>6 DEF RunReport

-----------------------------------------------------------------------------
(* The turn of the first action                                            *)

\* The turn of the first action keeps QueueInv.
LEMMA FrontTurnInv == ASSUME QueueInv, FrontTurn, TypeOK' PROVE QueueInv'
<1>1. /\ TypeOK /\ WaitingInv /\ QueueMatches(asyncActions, outcome, nextId)
      /\ asyncActions \in Seq(Actions) /\ outcome \in [Ids -> Seq(Results)] /\ nextId \in Nat
  BY DEF QueueInv, TypeOK, Results
<1>2. /\ phase = "reports" /\ phase' = "app" /\ draining = <<>>
      /\ UNCHANGED <<reportQueue, draining, nextId>>
  BY DEF FrontTurn, TriggerAccepted, TriggerRefused, TriggerStopScanDone, PopDone,
         NothingToDo, returns
<1>3. ~DataDue(reportQueue) /\ ~DataDue(draining)
  BY <1>1, <1>2 DEF WaitingInv, ReportsInPhase, DataDue
<1>4. CASE TriggerAccepted
  <2>1. /\ asyncActions # <<>> /\ isPending(front) /\ front.op # "stopScanDone"
        /\ asyncActions' = withState("Triggered") /\ gattlib' = acceptedCalls /\ outcome' = outcome
    BY <1>4 DEF TriggerAccepted
  <2>2. /\ asyncActions' \in Seq(Actions) /\ Len(asyncActions') = Len(asyncActions)
        /\ asyncActions' # <<>>
        /\ asyncActions'[1] = [asyncActions[1] EXCEPT !.state = "Triggered"]
        /\ \A k \in 2..Len(asyncActions) : asyncActions'[k] = asyncActions[k]
        /\ front = asyncActions[1] /\ front \in Actions /\ 1 \in DOMAIN asyncActions
    BY <1>1, <2>1, FrontLemma, WithStateLemma DEF front
  <2>3. outcome[asyncActions[1].id] = <<>>
    BY <1>1, <2>1, <2>2 DEF QueueMatches, isPending, isDone
  <2>4. QueueMatches(asyncActions', outcome', nextId')
    BY <1>1, <1>2, <2>1, <2>2, <2>3, MarkMatches
  <2>5. isRunning(front') /\ front'.id = front.id /\ front'.op = front.op /\ front'.dev = front.dev
    BY <2>2 DEF front, isRunning, Actions
  <2>6. /\ NoOwnReport(reportQueue') /\ NoOwnReport(draining')
        /\ \A g \in gattlib : g.op = "startScan"
    BY <1>1, <1>2, <2>1, NothingDue DEF WaitingInv
  <2>7. \A g \in gattlib' : g.op # "startScan" =>
           g = [id |-> front.id, op |-> front.op, dev |-> front.dev]
    BY <2>1, <2>6 DEF acceptedCalls
  <2>8. CallsMatchFront'
    BY <2>2, <2>5, <2>6, <2>7 DEF CallsMatchFront
  <2>9. AllBelong(reportQueue)' /\ AllBelong(draining)' /\ ReportsBelong'
    BY <2>6 DEF AllBelong, NoOwnReport, AtMostOneOwnReport, ReportsBelong
  <2>10. DoneIsReported' /\ ReportsInPhase'
    BY <1>2, <1>3, <2>5 DEF DoneIsReported, ReportsInPhase, isRunning, isDone
  <2>11. QED
    BY <2>4, <2>8, <2>9, <2>10 DEF QueueInv, WaitingInv
<1>5. ASSUME asyncActions # <<>>, isPending(front), NEW result \in {"ok", "fail"},
             result = "ok" => front.op # "read", completedWith(result), gattlib' = gattlib
      PROVE  QueueInv'
  <2>1. QueueMatches(asyncActions', outcome', nextId') /\ DoneIsReported'
    BY <1>2, <1>5, ConcludedQueue DEF isPending, isDone
  <2>2. /\ NoOwnReport(reportQueue') /\ NoOwnReport(draining')
        /\ \A g \in gattlib' : g.op = "startScan"
    BY <1>1, <1>2, <1>5, NothingDue DEF WaitingInv
  <2>3. WaitingInv'
    BY <1>2, <2>1, <2>2, NothingOwed
  <2>4. QED
    BY <2>1, <2>3 DEF QueueInv
<1>6. CASE TriggerRefused
  BY <1>5, <1>6 DEF TriggerRefused
<1>7. CASE TriggerStopScanDone
  BY <1>5, <1>7 DEF TriggerStopScanDone
<1>8. CASE PopDone
  <2>1. /\ asyncActions # <<>> /\ isDone(front) /\ asyncActions' = Tail(asyncActions)
        /\ UNCHANGED <<gattlib, outcome>> /\ front = asyncActions[1]
    BY <1>8 DEF PopDone, front
  <2>2. outcome[asyncActions[1].id] # <<>>
    BY <1>1, <1>3, <2>1 DEF WaitingInv, DoneIsReported
  <2>3. QueueMatches(asyncActions', outcome', nextId')
    BY <1>1, <1>2, <2>1, <2>2, PopMatches
  <2>4. asyncActions' # <<>> => isPending(asyncActions'[1])
    <3>1. asyncActions' # <<>> => 2 \in DOMAIN asyncActions /\ asyncActions'[1] = asyncActions[2]
      BY <1>1, <2>1
    <3>2. QED
      BY <1>1, <3>1 DEF QueueMatches
  <2>5. DoneIsReported'
    BY <2>4 DEF DoneIsReported, front, isPending, isDone
  <2>6. /\ NoOwnReport(reportQueue') /\ NoOwnReport(draining')
        /\ \A g \in gattlib' : g.op = "startScan"
    BY <1>1, <1>2, <1>3, <2>1, <2>2 DEF WaitingInv, ReportsBelong, AllBelong, Belongs, DataDue,
         NoOwnReport, CallsMatchFront, isDone, isRunning
  <2>7. WaitingInv'
    BY <1>2, <2>5, <2>6, NothingOwed
  <2>8. QED
    BY <2>3, <2>7 DEF QueueInv
<1>9. CASE NothingToDo
  <2>1. UNCHANGED <<asyncActions, outcome, gattlib>>
    BY <1>9 DEF NothingToDo
  <2>2. front' = front /\ QueueMatches(asyncActions', outcome', nextId')
    BY <1>1, <1>2, <2>1 DEF front
  <2>3. ReportsBelong'
    BY <1>1, <1>2, <2>1, <2>2 DEF WaitingInv, ReportsBelong, AllBelong, Belongs
  <2>4. DoneIsReported' /\ ReportsInPhase' /\ CallsMatchFront'
    BY <1>1, <1>2, <1>3, <2>1, <2>2 DEF WaitingInv, DoneIsReported, ReportsInPhase, CallsMatchFront
  <2>5. QED
    BY <2>2, <2>3, <2>4 DEF QueueInv, WaitingInv
<1>10. QED
  BY <1>4, <1>6, <1>7, <1>8, <1>9 DEF FrontTurn

-----------------------------------------------------------------------------
(* The invariant, and what follows from it                                 *)

\* QueueInv holds at the start.
LEMMA QueueInit == BLECentralAssumption /\ Init => QueueInv
<1> SUFFICES ASSUME BLECentralAssumption, Init PROVE QueueInv
  OBVIOUS
<1>1. TypeOK
  BY TypeInit
<1>2. /\ asyncActions = <<>> /\ reportQueue = <<>> /\ draining = <<>> /\ gattlib = {}
      /\ nextId = 1 /\ \A i \in Ids : outcome[i] = <<>>
  BY DEF Init
<1>3. QueueMatches(asyncActions, outcome, nextId)
  BY <1>2 DEF QueueMatches, Ids
<1>4. DoneIsReported /\ CallsMatchFront
  BY <1>2 DEF DoneIsReported, CallsMatchFront
<1>5. ReportsBelong /\ ReportsInPhase
  BY <1>2 DEF ReportsBelong, AllBelong, AtMostOneOwnReport, NoOwnReport, ReportsInPhase, DataDue
<1>6. QED
  BY <1>1, <1>3, <1>4, <1>5 DEF QueueInv, WaitingInv

\* Every step keeps QueueInv.
LEMMA QueueStep ==
  ASSUME BLECentralAssumption, NoTimedCancel, QueueInv, [Next]_vars
  PROVE  QueueInv'
<1>1. TypeOK'
  BY TypeStep DEF QueueInv
<1>2. CASE Request
  BY <1>1, <1>2, RequestInv
<1>3. CASE Deliver
  BY <1>1, <1>3, DeliverInv
<1>4. CASE ProcessAsync
  <2>1. /\ phase = "app" /\ phase' = "events"
        /\ UNCHANGED <<asyncActions, outcome, reportQueue, draining, gattlib, nextId>>
    BY <1>4 DEF ProcessAsync
  <2>2. front' = front /\ QueueMatches(asyncActions', outcome', nextId')
    BY <2>1 DEF front, QueueInv
  <2>3. WaitingInv'
    BY <2>1, <2>2 DEF QueueInv, WaitingInv, DoneIsReported, ReportsBelong, AllBelong, Belongs,
         ReportsInPhase, CallsMatchFront
  <2>4. QED
    BY <1>1, <2>2, <2>3 DEF QueueInv
<1>5. CASE TakeReports
  BY <1>1, <1>5, TakeReportsInv
<1>6. CASE RunReport
  BY <1>1, <1>6, RunReportInv
<1>7. CASE FrontTurn
  BY <1>1, <1>7, FrontTurnInv
<1>8. CASE UNCHANGED vars
  <2>1. UNCHANGED <<phase, asyncActions, outcome, reportQueue, draining, gattlib, nextId>>
    BY <1>8 DEF vars
  <2>2. WaitingInv'
    BY <2>1, RequestWaits DEF QueueInv
  <2>3. QED
    BY <1>1, <2>1, <2>2 DEF QueueInv
<1>9. QED
  BY <1>2, <1>3, <1>4, <1>5, <1>6, <1>7, <1>8 DEF Next, Tick

\* QueueInv holds throughout.
LEMMA QueueInvariant == NoTimedCancel => (Spec => []QueueInv)
<1> SUFFICES ASSUME NoTimedCancel PROVE Spec => []QueueInv
  OBVIOUS
<1>1. Init => QueueInv
  BY BLECentralAssumption, QueueInit
<1>2. QueueInv /\ [Next]_vars => QueueInv'
  BY BLECentralAssumption, QueueStep
<1>3. QED
  BY <1>1, <1>2, PTL DEF Spec

\* QueueInv implies the properties of the queue.
LEMMA QueueInvImplies ==
  ASSUME BLECentralAssumption, QueueInv
  PROVE  AnswersMeetTheirAction /\ ReportedOnce /\ ReportsInOrder
<1>1. /\ QueueMatches(asyncActions, outcome, nextId) /\ CallsMatchFront
      /\ asyncActions \in Seq(Actions) /\ nextId \in Nat
  BY DEF QueueInv, WaitingInv, TypeOK
<1>2. ReportedOnce
  BY <1>1 DEF QueueMatches, ReportedOnce
<1>3. AnswersMeetTheirAction
  BY <1>1 DEF CallsMatchFront, AnswersMeetTheirAction
<1>4. ASSUME NEW i \in Ids, NEW j \in Ids, i < j, outcome[j] # <<>>, outcome[i] = <<>>
      PROVE  FALSE
  <2>1. j < nextId /\ i >= nextId - Len(asyncActions)
    BY <1>1, <1>4 DEF QueueMatches, Ids
  <2> DEFINE k == j - (nextId - Len(asyncActions)) + 1
  <2>2. k \in DOMAIN asyncActions /\ k > 1 /\ nextId - Len(asyncActions) + k - 1 = j
    BY <1>1, <1>4, <2>1 DEF Ids
  <2> HIDE DEF k
  <2>3. asyncActions[k].id = j /\ isPending(asyncActions[k])
    BY <1>1, <2>2 DEF QueueMatches
  <2>4. outcome[asyncActions[k].id] = <<>>
    BY <1>1, <2>2, <2>3 DEF QueueMatches, isPending, isDone
  <2>5. QED
    BY <1>4, <2>3, <2>4
<1>5. ReportsInOrder
  BY <1>4 DEF ReportsInOrder
<1>6. QED
  BY <1>2, <1>3, <1>5

\* Every answer of gattlib finds the action it is for at the front of the queue.
THEOREM AnswersAttributed == NoTimedCancel => (Spec => []AnswersMeetTheirAction)
<1>1. QueueInv => AnswersMeetTheirAction
  BY BLECentralAssumption, QueueInvImplies
<1>2. QED
  BY <1>1, QueueInvariant, PTL

\* No action's callbacks are called twice.
THEOREM OneReportEach == NoTimedCancel => (Spec => []ReportedOnce)
<1>1. QueueInv => ReportedOnce
  BY BLECentralAssumption, QueueInvImplies
<1>2. QED
  BY <1>1, QueueInvariant, PTL

\* Callbacks are called in the order in which the operations were requested.
THEOREM OrderedReports == NoTimedCancel => (Spec => []ReportsInOrder)
<1>1. QueueInv => ReportsInOrder
  BY BLECentralAssumption, QueueInvImplies
<1>2. QED
  BY <1>1, QueueInvariant, PTL

=============================================================================
